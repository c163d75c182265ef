--------------------------- MODULE MCLgpioClaims ---------------------------
(* Instances of LgpioClaims for TLC: two threads without groups, each with *)
(* handles of its own or with a handle in common, or one thread that uses  *)
(* everything.                                                             *)
EXTENDS LgpioClaims, TLC

CONSTANTS t1, t2, h1, h2, h3, g1, g2

Pair == {<<g1, g2>>}

Separate == t1 :> [ops |-> SingleOps, handles |-> {h1}]
         @@ t2 :> [ops |-> SingleOps, handles |-> {h2, h3}]

Shared == t1 :> [ops |-> SingleOps, handles |-> {h1}]
       @@ t2 :> [ops |-> SingleOps, handles |-> {h1, h2}]

Alone == t1 :> [ops |-> SingleOps \cup GroupOps, handles |-> {h1, h2}]
      @@ t2 :> [ops |-> {}, handles |-> {}]

All == {Separate, Shared, Alone}
Grouping == {Alone}
=============================================================================
