------------------------------- MODULE MCMcu -------------------------------
(* The instances of Mcu TLC checks.                                         *)
EXTENDS Mcu

Node(s, a, d, b, q, r) ==
  [sleeps |-> s, availability |-> a, delays |-> d, buffer |-> b, qos |-> q, readings |-> r]

(* Always on, asleep between rounds, and asleep without the availability    *)
(* topic, with a buffer that runs full, or with late readings and none.     *)
Nodes == {Node(FALSE, TRUE, FALSE, 1, 1, 1), Node(TRUE, TRUE, FALSE, 1, 1, 1),
          Node(TRUE, FALSE, FALSE, 1, 1, 2), Node(TRUE, FALSE, TRUE, 0, 0, 1)}

OneNode == {Node(FALSE, TRUE, FALSE, 2, 0, 2)}
=============================================================================
