---------------------------- MODULE StackProofs ----------------------------
(***************************************************************************)
(* What holds of the stacks' commands, for any number of terminals and     *)
(* commands, any stacks, services and profiles, of what the services of a  *)
(* board get together, whatever its size, and of the simulator's loop, for *)
(* any devices, nodes, faults and recordings.                              *)
(***************************************************************************)
EXTENDS Deployment, SequenceTheorems, FiniteSetTheorems, WellFoundedInduction, TLAPS

(* The constants are what the module's comments say: a command names       *)
(* stacks, and None is neither a command nor a file.                       *)
Sensible ==
    /\ \A c \in Commands : c.stacks \in Seq(Stacks) /\ c.sim \in BOOLEAN
    /\ \A p, l, g, u, a, v :
        None # [profile |-> p, platform |-> l, gpu |-> g, cpuset |-> u, auto |-> a, services |-> v]

Fields == {"step", "cmd", "queue", "was", "started", "new", "unseen"}

Ups == {"look", "write", "network", "compose"}

(* Where a command is at work on the first stack of its queue. *)
OnStack == {"write", "network", "compose", "remove", "record"}

(* A terminal's command, which TypeOK hardly looks at. *)
Terminal(t) ==
    /\ DOMAIN term[t] = Fields
    /\ term[t].queue \in Seq(Stacks) /\ term[t].started \in Seq(Stacks) /\ term[t].was \in BOOLEAN
    /\ ~At(t, "idle") => term[t].cmd \in Commands
    /\ term[t].step \in OnStack => term[t].queue # <<>>
    /\ At(t, "drop") => term[t].started # <<>>
    /\ term[t].step \in Ups =>
        term[t].cmd.cmd = "up" /\ ToSet(term[t].queue) \subseteq ToSet(term[t].cmd.stacks)
    /\ term[t].step \in {"update", "record"} =>
        \A s \in DOMAIN term[t].new :
            /\ s \in Stacks
            /\ term[t].new[s] # None => DOMAIN term[t].new[s].services = Services[s]
    /\ At(t, "record") => Stack(t) \in DOMAIN term[t].new /\ term[t].new[Stack(t)] # None

Types ==
    /\ TypeOK
    /\ DOMAIN overlay = Stacks /\ DOMAIN containers = Stacks
    /\ DOMAIN since = Terminals /\ DOMAIN term = Terminals
    /\ overlapped \in BOOLEAN
    /\ \A t \in Terminals : Terminal(t)

-----------------------------------------------------------------------------
(* What has run since before a command runs still; a stack that a look     *)
(* found at rest, and each that was started, has not, or wasn't seen.      *)
Seen(t) == since[t] \ term[t].unseen

Spares ==
    \A t \in Terminals :
        /\ \A s \in since[t] : Runs(s)
        /\ term[t].step \in {"write", "network", "compose"} /\ ~term[t].was => Stack(t) \notin Seen(t)
        /\ ToSet(term[t].started) \cap Seen(t) = {}

(* One command at a time: a stack has an overlay while its command may     *)
(* give limits to its containers, and is down before the overlay goes.     *)
Known ==
    ~overlapped =>
        /\ \A t, u \in Terminals : ~At(t, "idle") /\ ~At(u, "idle") => t = u
        /\ LimitsAreKnown
        /\ \A t \in Terminals :
            /\ At(t, "drop") => ~Emulated(Last(term[t].started))
            /\ At(t, "remove") => ~Emulated(Stack(t))
            /\ term[t].step \in {"update", "record"} =>
                \A s \in DOMAIN term[t].new : overlay[s] # None

-----------------------------------------------------------------------------
LEMMA Queued ==
    ASSUME NEW S, NEW q \in Seq(S), q # <<>>
    PROVE  /\ Head(q) \in S /\ Head(q) \in ToSet(q)
           /\ Tail(q) \in Seq(S) /\ ToSet(Tail(q)) \subseteq ToSet(q)
<1>1. Len(q) \in Nat \ {0} /\ DOMAIN q = 1..Len(q) /\ Head(q) = q[1] /\ \A i \in 1..Len(q) : q[i] \in S
  BY EmptySeq, LenProperties, HeadTailProperties, ElementOfSeq
<1>2. /\ Tail(q) \in Seq(S) /\ Len(Tail(q)) = Len(q) - 1
      /\ \A i \in 1..Len(Tail(q)) : Tail(q)[i] = q[i + 1]
  BY HeadTailProperties
<1>3. DOMAIN Tail(q) = 1..Len(Tail(q))
  BY <1>2, LenProperties
<1>4. ASSUME NEW i \in DOMAIN Tail(q) PROVE i + 1 \in DOMAIN q /\ Tail(q)[i] = q[i + 1]
  BY <1>1, <1>2, <1>3
<1>5. 1 \in DOMAIN q
  BY <1>1
<1>6. QED
  BY <1>1, <1>2, <1>4, <1>5 DEF ToSet

LEMMA Fronted ==
    ASSUME NEW S, NEW q \in Seq(S), q # <<>>
    PROVE  /\ Last(q) \in S /\ Last(q) \in ToSet(q)
           /\ Front(q) \in Seq(S) /\ ToSet(Front(q)) \subseteq ToSet(q)
<1>1. Len(q) \in Nat \ {0} /\ DOMAIN q = 1..Len(q) /\ \A i \in 1..Len(q) : q[i] \in S
  BY EmptySeq, LenProperties, ElementOfSeq
<1>2. 1 \in Int /\ Len(q) - 1 \in Int /\ \A i \in 1..Len(q) - 1 : q[i] \in S
  BY <1>1
<1>3. /\ SubSeq(q, 1, Len(q) - 1) \in Seq(S)
      /\ Len(SubSeq(q, 1, Len(q) - 1)) = IF 1 <= Len(q) - 1 THEN Len(q) - 1 - 1 + 1 ELSE 0
      /\ \A i \in 1..Len(q) - 1 - 1 + 1 : SubSeq(q, 1, Len(q) - 1)[i] = q[1 + i - 1]
  BY <1>2, SubSeqProperties
<1>4. DOMAIN SubSeq(q, 1, Len(q) - 1) = 1..Len(q) - 1
  BY <1>1, <1>3, LenProperties
<1>5. ASSUME NEW i \in 1..Len(q) - 1 PROVE SubSeq(q, 1, Len(q) - 1)[i] = q[i] /\ i \in DOMAIN q
  BY <1>1, <1>3
<1>6. Len(q) \in DOMAIN q
  BY <1>1
<1>7. QED
  BY <1>1, <1>3, <1>4, <1>5, <1>6 DEF ToSet, Last, Front

LEMMA Appended ==
    ASSUME NEW S, NEW q \in Seq(S), NEW x \in S
    PROVE  Append(q, x) \in Seq(S) /\ ToSet(Append(q, x)) = ToSet(q) \cup {x}
<1>1. Len(q) \in Nat /\ DOMAIN q = 1..Len(q)
  BY LenProperties
<1>2. /\ Append(q, x) \in Seq(S) /\ DOMAIN Append(q, x) = 1..Len(q) + 1
      /\ \A i \in 1..Len(q) : Append(q, x)[i] = q[i]
      /\ Append(q, x)[Len(q) + 1] = x
  BY AppendProperties, LenProperties
<1>3. \A i \in 1..Len(q) + 1 : i \in 1..Len(q) \/ i = Len(q) + 1
  BY <1>1
<1>4. QED
  BY <1>1, <1>2, <1>3 DEF ToSet

LEMMA Reversed == ASSUME NEW S, NEW q \in Seq(S) PROVE Reverse(q) \in Seq(S)
<1>1. Len(q) \in Nat /\ \A i \in 1..Len(q) : q[i] \in S
  BY LenProperties, ElementOfSeq
<1>2. \A i \in 1..Len(q) : (Len(q) - i) + 1 \in 1..Len(q)
  BY <1>1
<1>3. [i \in 1..Len(q) |-> q[(Len(q) - i) + 1]] \in [1..Len(q) -> S]
  BY <1>1, <1>2
<1>4. QED
  BY <1>1, <1>3 DEF Reverse

LEMMA ElementsOf == ASSUME NEW S, NEW q \in Seq(S) PROVE ToSet(q) \subseteq S
BY LenProperties, ElementOfSeq DEF ToSet

LEMMA NoElements == <<>> \in Seq(Stacks) /\ ToSet(<<>>) = {}
BY EmptySeq DEF ToSet
-----------------------------------------------------------------------------
(* What a step leaves of the terminals. *)
Turned(t) ==
    /\ DOMAIN term' = Terminals /\ DOMAIN term'[t] = Fields
    /\ \A u \in Terminals \ {t} : term'[u] = term[u]

Kept(t, fields) == \A f \in fields : term'[t][f] = term[t][f]

LEMMA IdleIs ==
    /\ DOMAIN Idle = Fields /\ Idle.step = "idle" /\ Idle.queue = <<>> /\ Idle.started = <<>>
    /\ Idle.was = FALSE
BY DEF Idle, Fields

LEMMA GoTurns ==
    ASSUME Types, NEW t \in Terminals, NEW step, Go(t, step)
    PROVE  Turned(t) /\ term'[t].step = step /\ Kept(t, Fields \ {"step"})
BY DEF Types, Terminal, Go, Turned, Kept, Fields

LEMMA NextStackTurns ==
    ASSUME Types, NEW t \in Terminals, NEW step, NextStack(t, step)
    PROVE  /\ Turned(t) /\ term'[t].step = step /\ term'[t].queue = Tail(term[t].queue)
           /\ Kept(t, Fields \ {"step", "queue"})
BY DEF Types, Terminal, NextStack, Turned, Kept, Fields

LEMMA EndTurns ==
    ASSUME Types, NEW t \in Terminals, EndOf(t)
    PROVE  Turned(t) /\ term'[t] = Idle
BY IdleIs DEF Types, Terminal, EndOf, Turned

LEMMA LookTurns ==
    ASSUME Types, NEW t \in Terminals, NEW was \in BOOLEAN, NEW unseen,
           term' = [term EXCEPT ![t].step = "write", ![t].was = was, ![t].unseen = unseen]
    PROVE  /\ Turned(t) /\ term'[t].step = "write" /\ term'[t].was = was /\ term'[t].unseen = unseen
           /\ Kept(t, Fields \ {"step", "was", "unseen"})
BY DEF Types, Terminal, Turned, Kept, Fields

LEMMA LookIs ==
    ASSUME Types, NEW t \in Terminals, Look(t)
    PROVE  /\ At(t, "look") /\ term[t].queue # <<>>
           /\ Turned(t) /\ term'[t].step = "write" /\ term'[t].was \in BOOLEAN
           /\ ~term'[t].was => ~Runs(Stack(t)) \/ Stack(t) \in term'[t].unseen
           /\ term[t].unseen \subseteq term'[t].unseen
           /\ Kept(t, Fields \ {"step", "was", "unseen"})
<1>1. PICK answers \in BOOLEAN :
        term' = [term EXCEPT ![t].step = "write", ![t].was = _is_running(Stack(t), answers),
                             ![t].unseen = IF answers THEN term[t].unseen ELSE term[t].unseen \cup {Stack(t)}]
  BY DEF Look
<1> DEFINE was == _is_running(Stack(t), answers)
           unseen == IF answers THEN term[t].unseen ELSE term[t].unseen \cup {Stack(t)}
<1>2. was \in BOOLEAN /\ (~was => ~Runs(Stack(t)) \/ Stack(t) \in unseen) /\ term[t].unseen \subseteq unseen
  BY DEF _is_running, Runs
<1>3. term' = [term EXCEPT ![t].step = "write", ![t].was = was, ![t].unseen = unseen]
  BY <1>1
<1> HIDE DEF was, unseen
<1>4. /\ Turned(t) /\ term'[t].step = "write" /\ term'[t].was = was /\ term'[t].unseen = unseen
      /\ Kept(t, Fields \ {"step", "was", "unseen"})
  BY <1>2, <1>3, LookTurns
<1>5. At(t, "look") /\ term[t].queue # <<>>
  BY DEF Look
<1>6. QED
  BY <1>2, <1>4, <1>5

LEMMA ComposeTurns ==
    ASSUME Types, NEW t \in Terminals, ComposeUp(t)
    PROVE  /\ Turned(t) /\ term'[t].step = "look" /\ term'[t].queue = Tail(term[t].queue)
           /\ term'[t].started = Started(t) /\ Kept(t, Fields \ {"step", "queue", "started"})
BY DEF ComposeUp, Types, Terminal, Turned, Kept, Fields

LEMMA RollBackTurns ==
    ASSUME Types, NEW t \in Terminals, NEW step, NEW now,
           term' = [term EXCEPT ![t].step = step, ![t].started = now]
    PROVE  /\ Turned(t) /\ term'[t].step = step /\ term'[t].started = now
           /\ Kept(t, Fields \ {"step", "started"})
BY DEF Types, Terminal, Turned, Kept, Fields

LEMMA FrontTurns ==
    ASSUME Types, NEW t \in Terminals, NEW now, term' = [term EXCEPT ![t].started = now]
    PROVE  Turned(t) /\ term'[t].started = now /\ Kept(t, Fields \ {"started"})
BY DEF Types, Terminal, Turned, Kept, Fields

LEMMA TypeTurns ==
    ASSUME Types, NEW t \in Terminals, NEW start, DOMAIN start = Fields, term' = [term EXCEPT ![t] = start]
    PROVE  Turned(t) /\ term'[t] = start
BY DEF Types, Turned

LEMMA UpTyped ==
    ASSUME Types, NEW t \in Terminals, NEW c, up(t, c)
    PROVE  /\ Turned(t) /\ term'[t].step = "look" /\ term'[t].cmd = c /\ term'[t].queue = c.stacks
           /\ term'[t].started = <<>> /\ term'[t].was = FALSE
<1> DEFINE start == [Idle EXCEPT !.step = "look", !.cmd = c, !.queue = c.stacks]
<1>1. /\ DOMAIN start = Fields /\ start.step = "look" /\ start.cmd = c /\ start.queue = c.stacks
      /\ start.started = <<>> /\ start.was = FALSE
  BY DEF Idle, Fields
<1>2. term' = [term EXCEPT ![t] = start]
  BY DEF up, Type
<1> HIDE DEF start
<1>3. QED
  BY <1>1, <1>2, TypeTurns

LEMMA DownTyped ==
    ASSUME Types, NEW t \in Terminals, NEW c, down(t, c)
    PROVE  /\ Turned(t) /\ term'[t].step = "stop" /\ term'[t].cmd = c /\ term'[t].queue = Reverse(c.stacks)
           /\ term'[t].started = <<>> /\ term'[t].was = FALSE
<1> DEFINE start == [Idle EXCEPT !.step = "stop", !.cmd = c, !.queue = Reverse(c.stacks)]
<1>1. /\ DOMAIN start = Fields /\ start.step = "stop" /\ start.cmd = c /\ start.queue = Reverse(c.stacks)
      /\ start.started = <<>> /\ start.was = FALSE
  BY DEF Idle, Fields
<1>2. term' = [term EXCEPT ![t] = start]
  BY DEF down, Type
<1> HIDE DEF start
<1>3. QED
  BY <1>1, <1>2, TypeTurns

LEMMA SwitchTyped ==
    ASSUME Types, NEW t \in Terminals, NEW c, switch(t, c)
    PROVE  /\ Turned(t) /\ term'[t].step = "update" /\ term'[t].cmd = c /\ term'[t].queue = c.stacks
           /\ term'[t].started = <<>> /\ term'[t].was = FALSE
           /\ LET running == {s \in ToSet(c.stacks) : overlay[s] # None}
              IN  term'[t].new = [s \in running |-> Switched(c.profile, s, running)]
<1> DEFINE running == {s \in ToSet(c.stacks) : overlay[s] # None}
           new == [s \in running |-> Switched(c.profile, s, running)]
           start == [Idle EXCEPT !.step = "update", !.cmd = c, !.queue = c.stacks, !.new = new]
<1>1. /\ DOMAIN start = Fields /\ start.step = "update" /\ start.cmd = c /\ start.queue = c.stacks
      /\ start.started = <<>> /\ start.was = FALSE /\ start.new = new
  BY DEF Idle, Fields
<1>2. term' = [term EXCEPT ![t] = start]
  BY DEF switch, Type
<1> HIDE DEF start
<1>3. QED
  BY <1>1, <1>2, TypeTurns

-----------------------------------------------------------------------------
LEMMA Rendered ==
    ASSUME Sensible, NEW prof, NEW s, NEW services, NEW shares, NEW platform, NEW gpu, NEW cpuset, NEW auto
    PROVE  LET o == render_overlay(prof, s, services, shares, platform, gpu, cpuset, auto)
           IN  o # None /\ DOMAIN o.services = services
<1> DEFINE scale == [cpu |-> budget_scale(shares, "cpu"), memory |-> budget_scale(shares, "memory")]
           limits == [name \in services |->
                         Limits(prof, name, shares[<<s, name>>], platform, scale, gpu,
                                resolve_cpu_factor(prof, platform), cpuset)]
<1>1. render_overlay(prof, s, services, shares, platform, gpu, cpuset, auto)
      = [profile |-> prof.name, platform |-> platform, gpu |-> gpu, cpuset |-> cpuset, auto |-> auto,
         services |-> limits]
  BY DEF render_overlay
<1>2. DOMAIN limits = services
  OBVIOUS
<1> HIDE DEF limits
<1>3. QED
  BY <1>1, <1>2 DEF Sensible

LEMMA UpsRendered ==
    ASSUME Sensible, NEW c \in Commands, c.cmd = "up", NEW s \in ToSet(c.stacks)
    PROVE  Overlays[c][s] # None /\ DOMAIN Overlays[c][s].services = Services[s]
BY Rendered DEF Overlays

LEMMA SwitchRendered ==
    ASSUME Sensible, NEW prof, NEW s, NEW stacks
    PROVE  Switched(prof, s, stacks) # None => DOMAIN Switched(prof, s, stacks).services = Services[s]
BY Rendered DEF Switched

LEMMA BecomeIs ==
    ASSUME Types, NEW s \in Stacks, NEW now, Become(s, now)
    PROVE  /\ DOMAIN containers' = Stacks /\ containers'[s] = now
           /\ \A u \in Stacks \ {s} : containers'[u] = containers[u]
           /\ DOMAIN since' = Terminals
           /\ \A t \in Terminals :
                since'[t] = IF \A c \in Services[s] : now[c] = None THEN since[t] \ {s} ELSE since[t]
BY DEF Become, Types

(* Where the command is at. *)
Steps == {"idle", "look", "write", "network", "compose", "rollback", "drop",
          "stop", "remove", "update", "record"}

LEMMA TermsKept ==
    ASSUME Sensible, Types, NEW t \in Terminals, Turned(t), Terminal(t)',
           term'[t].step \in Steps, term'[t].step = "idle" => term'[t] = Idle
    PROVE  /\ DOMAIN term' = Terminals
           /\ \A u \in Terminals :
                /\ Terminal(u)' /\ term'[u].step \in Steps /\ ToSet(term'[u].started) \subseteq Stacks
                /\ term'[u].step = "idle" => term'[u] = Idle
<1>1. ASSUME NEW u \in Terminals \ {t}
      PROVE  /\ Terminal(u)' /\ term'[u].step \in Steps /\ ToSet(term'[u].started) \subseteq Stacks
             /\ term'[u].step = "idle" => term'[u] = Idle
  <2>1. term'[u] = term[u] /\ Terminal(u)
    BY DEF Turned, Types
  <2>2. QED
    BY <2>1 DEF Types, TypeOK, Steps, Terminal, At, Stack
<1>2. ToSet(term'[t].started) \subseteq Stacks
  BY ElementsOf DEF Terminal
<1>3. QED
  BY <1>1, <1>2 DEF Turned

LEMMA StackIs ==
    ASSUME Types, NEW t \in Terminals, term[t].queue # <<>>
    PROVE  /\ Stack(t) \in Stacks /\ Stack(t) \in ToSet(term[t].queue)
           /\ Tail(term[t].queue) \in Seq(Stacks)
           /\ ToSet(Tail(term[t].queue)) \subseteq ToSet(term[t].queue)
BY Queued DEF Types, Terminal, Stack

LEMMA LastIs ==
    ASSUME Types, NEW t \in Terminals, term[t].started # <<>>
    PROVE  /\ Last(term[t].started) \in Stacks /\ Last(term[t].started) \in ToSet(term[t].started)
           /\ Front(term[t].started) \in Seq(Stacks)
           /\ ToSet(Front(term[t].started)) \subseteq ToSet(term[t].started)
BY Fronted DEF Types, Terminal

LEMMA StartedIs ==
    ASSUME Types, NEW t \in Terminals, term[t].queue # <<>>
    PROVE  /\ Started(t) \in Seq(Stacks)
           /\ term[t].was => ToSet(Started(t)) = ToSet(term[t].started)
           /\ ~term[t].was => ToSet(Started(t)) = ToSet(term[t].started) \cup {Stack(t)}
<1>1. term[t].started \in Seq(Stacks) /\ term[t].was \in BOOLEAN
  BY DEF Types, Terminal
<1>2. /\ Append(term[t].started, Stack(t)) \in Seq(Stacks)
      /\ ToSet(Append(term[t].started, Stack(t))) = ToSet(term[t].started) \cup {Stack(t)}
  BY <1>1, StackIs, Appended
<1>3. QED
  BY <1>1, <1>2 DEF Started
-----------------------------------------------------------------------------
(* Each step leaves its own terminal's command in order. *)
InOrder(t) ==
    /\ Turned(t) /\ Terminal(t)' /\ term'[t].step \in Steps
    /\ term'[t].step = "idle" => term'[t] = Idle

LEMMA EndInOrder == ASSUME Sensible, Types, NEW t \in Terminals, EndOf(t) PROVE InOrder(t)
<1>1. Turned(t) /\ term'[t] = Idle
  BY EndTurns
<1>2. QED
  BY <1>1, IdleIs, NoElements DEF InOrder, Terminal, At, Steps, OnStack, Ups

LEMMA TypedInOrder ==
    ASSUME Sensible, Types, NEW t \in Terminals, NEW c \in Commands, up(t, c) \/ down(t, c) \/ switch(t, c)
    PROVE  InOrder(t)
<1>0. c.stacks \in Seq(Stacks) /\ Reverse(c.stacks) \in Seq(Stacks) /\ ToSet(c.stacks) \subseteq Stacks
  BY Reversed, ElementsOf DEF Sensible
<1>1. CASE up(t, c)
  <2>1. /\ Turned(t) /\ term'[t].step = "look" /\ term'[t].cmd = c /\ term'[t].queue = c.stacks
        /\ term'[t].started = <<>> /\ term'[t].was = FALSE /\ c.cmd = "up"
    BY <1>1, UpTyped DEF up
  <2>2. QED
    BY <1>0, <2>1, NoElements DEF InOrder, Terminal, At, Steps, OnStack, Ups, Turned
<1>2. CASE down(t, c)
  <2>1. /\ Turned(t) /\ term'[t].step = "stop" /\ term'[t].cmd = c /\ term'[t].queue = Reverse(c.stacks)
        /\ term'[t].started = <<>> /\ term'[t].was = FALSE
    BY <1>2, DownTyped
  <2>2. QED
    BY <1>0, <2>1, NoElements DEF InOrder, Terminal, At, Steps, OnStack, Ups, Turned
<1>3. CASE switch(t, c)
  <2> DEFINE running == {s \in ToSet(c.stacks) : overlay[s] # None}
             new == [s \in running |-> Switched(c.profile, s, running)]
  <2>1. DOMAIN new = running /\ running \subseteq Stacks
        /\ \A s \in running : new[s] # None => DOMAIN new[s].services = Services[s]
    BY <1>0, SwitchRendered
  <2>2. /\ Turned(t) /\ term'[t].step = "update" /\ term'[t].cmd = c /\ term'[t].queue = c.stacks
        /\ term'[t].started = <<>> /\ term'[t].was = FALSE /\ term'[t].new = new
    BY <1>3, SwitchTyped
  <2> HIDE DEF new, running
  <2>3. QED
    BY <1>0, <2>1, <2>2, NoElements DEF InOrder, Terminal, At, Steps, OnStack, Ups, Turned
<1>4. QED
  BY <1>1, <1>2, <1>3

LEMMA UpInOrder ==
    ASSUME Sensible, Types, NEW t \in Terminals,
           Skip(t) \/ Look(t) \/ Write(t) \/ ensure_network(t) \/ ComposeUp(t) \/ ComposeFails(t)
    PROVE  InOrder(t)
<1>1. CASE Skip(t)
  <2>1. /\ Turned(t) /\ term'[t].step = "look" /\ term'[t].queue = Tail(term[t].queue)
        /\ Kept(t, Fields \ {"step", "queue"}) /\ term[t].queue # <<>> /\ At(t, "look")
    BY <1>1, NextStackTurns DEF Skip
  <2>2. Terminal(t) /\ term'[t].started = term[t].started /\ term'[t].was = term[t].was
        /\ term'[t].cmd = term[t].cmd /\ term'[t].new = term[t].new
    BY <2>1 DEF Types, Kept, Fields
  <2>3. QED
    BY <2>1, StackIs, <2>2 DEF InOrder, Terminal, At, Steps, OnStack, Ups, Turned, Stack
<1>2. CASE Look(t)
  <2>2. /\ Turned(t) /\ term'[t].step = "write" /\ term'[t].was \in BOOLEAN
        /\ Kept(t, Fields \ {"step", "was", "unseen"}) /\ term[t].queue # <<>> /\ At(t, "look")
    BY <1>2, LookIs
  <2>3. Terminal(t) /\ term'[t].queue = term[t].queue /\ term'[t].started = term[t].started
        /\ term'[t].cmd = term[t].cmd /\ term'[t].new = term[t].new
    BY <2>2 DEF Types, Kept, Fields
  <2>4. QED
    BY <2>2, StackIs, <2>3 DEF InOrder, Terminal, At, Steps, OnStack, Ups, Turned, Stack
<1>3. CASE Write(t)
  <2>1. Turned(t) /\ term'[t].step = "network" /\ Kept(t, Fields \ {"step"}) /\ At(t, "write")
    BY <1>3, GoTurns DEF Write
  <2>2. Terminal(t) /\ term'[t].queue = term[t].queue /\ term'[t].started = term[t].started
        /\ term'[t].was = term[t].was /\ term'[t].cmd = term[t].cmd /\ term'[t].new = term[t].new
    BY <2>1 DEF Types, Kept, Fields
  <2>3. QED
    BY <2>1, <2>2 DEF InOrder, Terminal, At, Steps, OnStack, Ups, Turned, Stack
<1>4. CASE ensure_network(t)
  <2>1. Turned(t) /\ term'[t].step = "compose" /\ Kept(t, Fields \ {"step"}) /\ At(t, "network")
    BY <1>4, GoTurns DEF ensure_network
  <2>2. Terminal(t) /\ term'[t].queue = term[t].queue /\ term'[t].started = term[t].started
        /\ term'[t].was = term[t].was /\ term'[t].cmd = term[t].cmd /\ term'[t].new = term[t].new
    BY <2>1 DEF Types, Kept, Fields
  <2>3. QED
    BY <2>1, <2>2 DEF InOrder, Terminal, At, Steps, OnStack, Ups, Turned, Stack
<1>5. CASE ComposeUp(t)
  <2>0. At(t, "compose") /\ term[t].queue # <<>>
    BY <1>5 DEF ComposeUp, Types, Terminal, At, OnStack
  <2>1. /\ Turned(t) /\ term'[t].step = "look" /\ term'[t].queue = Tail(term[t].queue)
        /\ term'[t].started = Started(t) /\ Kept(t, Fields \ {"step", "queue", "started"})
    BY <1>5, ComposeTurns
  <2>2. Terminal(t) /\ term'[t].was = term[t].was /\ term'[t].cmd = term[t].cmd
        /\ term'[t].new = term[t].new
    BY <2>1 DEF Types, Kept, Fields
  <2>3. QED
    BY <2>0, <2>1, StackIs, StartedIs, <2>2 DEF InOrder, Terminal, At, Steps, OnStack, Ups, Turned, Stack
<1>6. CASE ComposeFails(t)
  <2>0. At(t, "compose") /\ term[t].queue # <<>>
    BY <1>6 DEF ComposeFails, Types, Terminal, At, OnStack
  <2>1. /\ Turned(t) /\ term'[t].step = "rollback" /\ term'[t].started = Started(t)
        /\ Kept(t, Fields \ {"step", "started"})
    BY <1>6, RollBackTurns DEF ComposeFails
  <2>2. Terminal(t) /\ term'[t].queue = term[t].queue /\ term'[t].was = term[t].was
        /\ term'[t].cmd = term[t].cmd /\ term'[t].new = term[t].new
    BY <2>1 DEF Types, Kept, Fields
  <2>3. QED
    BY <2>0, <2>1, StartedIs, <2>2 DEF InOrder, Terminal, At, Steps, OnStack, Ups, Turned, Stack
<1>7. QED
  BY <1>1, <1>2, <1>3, <1>4, <1>5, <1>6

LEMMA RollBackInOrder ==
    ASSUME Sensible, Types, NEW t \in Terminals, RollBack(t) \/ DropOverlay(t) PROVE InOrder(t)
<1>1. CASE RollBack(t) /\ Go(t, "drop")
  <2>1. Turned(t) /\ term'[t].step = "drop" /\ Kept(t, Fields \ {"step"})
        /\ At(t, "rollback") /\ term[t].started # <<>>
    BY <1>1, GoTurns DEF RollBack
  <2>2. Terminal(t) /\ term'[t].queue = term[t].queue /\ term'[t].started = term[t].started
        /\ term'[t].was = term[t].was /\ term'[t].cmd = term[t].cmd /\ term'[t].new = term[t].new
    BY <2>1 DEF Types, Kept, Fields
  <2>3. QED
    BY <2>1, <2>2 DEF InOrder, Terminal, At, Steps, OnStack, Ups, Turned, Stack
<1>2. CASE RollBack(t) /\ ~Go(t, "drop")
  <2>1. /\ Turned(t) /\ term'[t].started = Front(term[t].started) /\ Kept(t, Fields \ {"started"})
        /\ At(t, "rollback") /\ term[t].started # <<>>
    BY <1>2, FrontTurns DEF RollBack
  <2>2. Terminal(t) /\ term'[t].step = term[t].step /\ term'[t].queue = term[t].queue
        /\ term'[t].was = term[t].was /\ term'[t].cmd = term[t].cmd /\ term'[t].new = term[t].new
    BY <2>1 DEF Types, Kept, Fields
  <2>3. QED
    BY <2>1, LastIs, <2>2 DEF InOrder, Terminal, At, Steps, OnStack, Ups, Turned, Stack
<1>3. CASE DropOverlay(t)
  <2>1. /\ Turned(t) /\ term'[t].step = "rollback" /\ term'[t].started = Front(term[t].started)
        /\ Kept(t, Fields \ {"step", "started"}) /\ At(t, "drop")
    BY <1>3, RollBackTurns DEF DropOverlay
  <2>2. term[t].started # <<>>
    BY <2>1 DEF Types, Terminal
  <2>3. Terminal(t) /\ term'[t].queue = term[t].queue /\ term'[t].was = term[t].was
        /\ term'[t].cmd = term[t].cmd /\ term'[t].new = term[t].new
    BY <2>1 DEF Types, Kept, Fields
  <2>4. QED
    BY <2>1, <2>2, LastIs, <2>3 DEF InOrder, Terminal, At, Steps, OnStack, Ups, Turned, Stack
<1>4. QED
  BY <1>1, <1>2, <1>3

LEMMA DownInOrder ==
    ASSUME Sensible, Types, NEW t \in Terminals, Stop(t) \/ RemoveOverlay(t) PROVE InOrder(t)
<1>1. CASE Stop(t) /\ Go(t, "remove")
  <2>1. Turned(t) /\ term'[t].step = "remove" /\ Kept(t, Fields \ {"step"})
        /\ At(t, "stop") /\ term[t].queue # <<>>
    BY <1>1, GoTurns DEF Stop
  <2>2. Terminal(t) /\ term'[t].queue = term[t].queue /\ term'[t].started = term[t].started
        /\ term'[t].was = term[t].was /\ term'[t].cmd = term[t].cmd /\ term'[t].new = term[t].new
    BY <2>1 DEF Types, Kept, Fields
  <2>3. QED
    BY <2>1, <2>2 DEF InOrder, Terminal, At, Steps, OnStack, Ups, Turned, Stack
<1>2. CASE NextStack(t, "stop") /\ term[t].queue # <<>> /\ (At(t, "stop") \/ At(t, "remove"))
  <2>1. /\ Turned(t) /\ term'[t].step = "stop" /\ term'[t].queue = Tail(term[t].queue)
        /\ Kept(t, Fields \ {"step", "queue"})
    BY <1>2, NextStackTurns
  <2>2. Terminal(t) /\ term'[t].started = term[t].started /\ term'[t].was = term[t].was
        /\ term'[t].cmd = term[t].cmd /\ term'[t].new = term[t].new
    BY <2>1 DEF Types, Kept, Fields
  <2>3. QED
    BY <1>2, <2>1, StackIs, <2>2 DEF InOrder, Terminal, At, Steps, OnStack, Ups, Turned, Stack
<1>3. RemoveOverlay(t) => At(t, "remove") /\ term[t].queue # <<>> /\ NextStack(t, "stop")
  BY DEF RemoveOverlay, Types, Terminal, At, OnStack
<1>4. QED
  BY <1>1, <1>2, <1>3 DEF Stop

LEMMA SwitchInOrder ==
    ASSUME Sensible, Types, NEW t \in Terminals, PassOver(t) \/ Update(t) \/ Record(t) PROVE InOrder(t)
<1>1. CASE Update(t)
  <2>1. Turned(t) /\ term'[t].step = "record" /\ Kept(t, Fields \ {"step"})
        /\ At(t, "update") /\ term[t].queue # <<>>
        /\ Stack(t) \in DOMAIN term[t].new /\ term[t].new[Stack(t)] # None
    BY <1>1, GoTurns DEF Update
  <2>2. Terminal(t) /\ term'[t].queue = term[t].queue /\ term'[t].started = term[t].started
        /\ term'[t].was = term[t].was /\ term'[t].cmd = term[t].cmd /\ term'[t].new = term[t].new
    BY <2>1 DEF Types, Kept, Fields
  <2>3. QED
    BY <2>1, <2>2 DEF InOrder, Terminal, At, Steps, OnStack, Ups, Turned, Stack
<1>2. CASE PassOver(t) \/ Record(t)
  <2>1. (At(t, "update") \/ At(t, "record")) /\ term[t].queue # <<>> /\ NextStack(t, "update")
    BY <1>2 DEF PassOver, Record, Types, Terminal, At, OnStack
  <2>2. /\ Turned(t) /\ term'[t].step = "update" /\ term'[t].queue = Tail(term[t].queue)
        /\ Kept(t, Fields \ {"step", "queue"})
    BY <2>1, NextStackTurns
  <2>3. Terminal(t) /\ term'[t].started = term[t].started /\ term'[t].was = term[t].was
        /\ term'[t].cmd = term[t].cmd /\ term'[t].new = term[t].new
    BY <2>2 DEF Types, Kept, Fields
  <2>4. QED
    BY <2>1, <2>2, StackIs, <2>3 DEF InOrder, Terminal, At, Steps, OnStack, Ups, Turned, Stack
<1>3. QED
  BY <1>1, <1>2

(* What terminal t does. *)
Command(t) == \E c \in Commands : up(t, c) \/ down(t, c) \/ switch(t, c)

Upping(t) ==
    Skip(t) \/ Look(t) \/ Write(t) \/ ensure_network(t) \/ ComposeUp(t) \/ ComposeFails(t)

Ending(t) ==
    Finish(t) \/ RolledBack(t) \/ Stopped(t) \/ Recorded(t) \/ Refuse(t) \/ Interrupt(t)

Act(t) ==
    \/ Command(t) \/ Upping(t) \/ Ending(t)
    \/ RollBack(t) \/ DropOverlay(t) \/ Stop(t) \/ RemoveOverlay(t)
    \/ PassOver(t) \/ Update(t) \/ Record(t)

LEMMA NextIs == Next <=> \E t \in Terminals : Act(t)
BY DEF Next, Act, Command, Upping, Ending

LEMMA ActsInOrder == ASSUME Sensible, Types, NEW t \in Terminals, Act(t) PROVE InOrder(t)
<1>1. Ending(t) => EndOf(t)
  BY DEF Ending, Finish, RolledBack, Stopped, Recorded, Refuse, Interrupt
<1>2. QED
  BY <1>1, EndInOrder, TypedInOrder, UpInOrder, RollBackInOrder, DownInOrder, SwitchInOrder
     DEF Act, Command, Upping

(* The steps that write overlays, and those that touch containers. *)
LEMMA OverlaysChange ==
    ASSUME Sensible, Types, NEW t \in Terminals, Act(t)
    PROVE  \/ UNCHANGED overlay
           \/ \E s \in Stacks : \E new :
                /\ overlay' = [overlay EXCEPT ![s] = new]
                /\ \/ Write(t) \/ Record(t)
                   \/ DropOverlay(t) /\ s = Last(term[t].started) /\ new = None
                   \/ RemoveOverlay(t) /\ s = Stack(t) /\ new = None
                /\ Write(t) \/ Record(t) => new # None
                /\ new # None => DOMAIN new.services = Services[s]
<1>1. CASE Write(t)
  <2>1. At(t, "write") /\ overlay' = [overlay EXCEPT ![Stack(t)] = Overlays[term[t].cmd][Stack(t)]]
    BY <1>1 DEF Write
  <2>2. term[t].queue # <<>> /\ term[t].cmd \in Commands /\ term[t].cmd.cmd = "up"
        /\ ToSet(term[t].queue) \subseteq ToSet(term[t].cmd.stacks)
    BY <2>1 DEF Types, Terminal, At, OnStack, Ups
  <2>3. Stack(t) \in Stacks /\ Stack(t) \in ToSet(term[t].cmd.stacks)
    BY <2>2, StackIs
  <2>4. Overlays[term[t].cmd][Stack(t)] # None
        /\ DOMAIN Overlays[term[t].cmd][Stack(t)].services = Services[Stack(t)]
    BY <2>2, <2>3, UpsRendered
  <2>5. QED
    BY <1>1, <2>1, <2>3, <2>4
<1>2. CASE Record(t)
  <2>1. At(t, "record") /\ overlay' = [overlay EXCEPT ![Stack(t)] = term[t].new[Stack(t)]]
    BY <1>2 DEF Record
  <2>2. /\ Stack(t) \in Stacks /\ term[t].new[Stack(t)] # None
        /\ DOMAIN term[t].new[Stack(t)].services = Services[Stack(t)]
    BY <2>1 DEF Types, Terminal, At
  <2>3. QED
    BY <1>2, <2>1, <2>2
<1>3. CASE DropOverlay(t)
  <2>1. At(t, "drop") /\ overlay' = [overlay EXCEPT ![Last(term[t].started)] = None]
    BY <1>3 DEF DropOverlay
  <2>2. Last(term[t].started) \in Stacks /\ ~Write(t) /\ ~Record(t)
    BY <2>1, LastIs DEF Types, Terminal, At, Write, Record
  <2>3. QED
    BY <1>3, <2>1, <2>2
<1>4. CASE RemoveOverlay(t)
  <2>1. At(t, "remove") /\ overlay' = [overlay EXCEPT ![Stack(t)] = None]
    BY <1>4 DEF RemoveOverlay
  <2>2. Stack(t) \in Stacks /\ ~Write(t) /\ ~Record(t)
    BY <2>1, StackIs DEF Types, Terminal, At, Write, Record, OnStack
  <2>3. QED
    BY <1>4, <2>1, <2>2
<1>5. ASSUME Command(t) PROVE UNCHANGED overlay
  BY <1>5 DEF Command, up, down, switch, Type
<1>6. ASSUME Upping(t), ~Write(t) PROVE UNCHANGED overlay
  BY <1>6 DEF Upping, Skip, Look, ensure_network, ComposeUp, ComposeFails
<1>7. ASSUME Ending(t) \/ RollBack(t) \/ Stop(t) \/ PassOver(t) \/ Update(t) PROVE UNCHANGED overlay
  BY <1>7 DEF Ending, Finish, RolledBack, Stopped, Recorded, Refuse, Interrupt, RollBack, Stop, PassOver, Update
<1>8. QED
  BY <1>1, <1>2, <1>3, <1>4, <1>5, <1>6, <1>7 DEF Act

LEMMA ContainersChange ==
    ASSUME Sensible, Types, NEW t \in Terminals, Act(t)
    PROVE  \/ UNCHANGED <<containers, since>>
           \/ Command(t) /\ UNCHANGED containers
           \/ \E s \in Stacks : \E now :
                /\ Become(s, now)
                /\ \/ ComposeUp(t) /\ s = Stack(t) /\ Composes(s) /\ now = overlay[s].services
                   \/ /\ ComposeFails(t) /\ s = Stack(t)
                      /\ Composes(s) \/ \A c \in Services[s] : now[c] = containers[s][c]
                   \/ Update(t) /\ s = Stack(t)
                   \/ RollBack(t) /\ s = Last(term[t].started)
                      /\ \A c \in Services[s] : now[c] \in {None, containers[s][c]}
                   \/ Stop(t) /\ s = Stack(t) /\ \A c \in Services[s] : now[c] \in {None, containers[s][c]}
<1>1. CASE ComposeUp(t)
  <2>1. At(t, "compose") /\ Composes(Stack(t)) /\ Become(Stack(t), overlay[Stack(t)].services)
    BY <1>1 DEF ComposeUp
  <2>2. Stack(t) \in Stacks
    BY <2>1, StackIs DEF Types, Terminal, At, OnStack
  <2>3. QED
    BY <1>1, <2>1, <2>2
<1>2. CASE ComposeFails(t)
  <2>1. At(t, "compose") /\ \E made \in IF Composes(Stack(t)) THEN SUBSET Services[Stack(t)] ELSE {{}} :
            Become(Stack(t), [c \in Services[Stack(t)] |->
                IF c \in made THEN overlay[Stack(t)].services[c] ELSE containers[Stack(t)][c]])
    BY <1>2 DEF ComposeFails
  <2>2. Stack(t) \in Stacks
    BY <2>1, StackIs DEF Types, Terminal, At, OnStack
  <2>3. PICK made \in IF Composes(Stack(t)) THEN SUBSET Services[Stack(t)] ELSE {{}} :
            Become(Stack(t), [c \in Services[Stack(t)] |->
                IF c \in made THEN overlay[Stack(t)].services[c] ELSE containers[Stack(t)][c]])
    BY <2>1
  <2> DEFINE now == [c \in Services[Stack(t)] |->
                IF c \in made THEN overlay[Stack(t)].services[c] ELSE containers[Stack(t)][c]]
  <2>4. Composes(Stack(t)) \/ \A c \in Services[Stack(t)] : now[c] = containers[Stack(t)][c]
    BY <2>3
  <2>5. Become(Stack(t), now)
    BY <2>3
  <2> HIDE DEF now
  <2>6. QED
    BY <1>2, <2>2, <2>4, <2>5
<1>3. CASE Update(t)
  <2>1. term[t].queue # <<>> /\ \E now : Become(Stack(t), now)
    BY <1>3 DEF Update
  <2>2. QED
    BY <1>3, <2>1, StackIs
<1>4. ASSUME NEW s \in Stacks, Down(s) \/ DownFails(s)
      PROVE  \E now : Become(s, now) /\ \A c \in Services[s] : now[c] \in {None, containers[s][c]}
  <2>1. CASE Down(s)
    BY <2>1 DEF Down, Gone
  <2>2. CASE DownFails(s)
    BY <2>2 DEF DownFails
  <2>3. QED
    BY <1>4, <2>1, <2>2
<1>5. CASE RollBack(t)
  <2>1. /\ term[t].started # <<>>
        /\ Down(Last(term[t].started)) \/ DownFails(Last(term[t].started))
    BY <1>5 DEF RollBack
  <2>2. Last(term[t].started) \in Stacks
    BY <2>1, LastIs
  <2>3. QED
    BY <1>4, <1>5, <2>1, <2>2
<1>6. CASE Stop(t)
  <2>1. term[t].queue # <<>> /\ (Down(Stack(t)) \/ DownFails(Stack(t)))
    BY <1>6 DEF Stop
  <2>2. QED
    BY <1>4, <1>6, <2>1, StackIs
<1>7. ASSUME Command(t) PROVE UNCHANGED containers
  BY <1>7 DEF Command, up, down, switch, Type
<1>8. ASSUME Upping(t), ~ComposeUp(t), ~ComposeFails(t) PROVE UNCHANGED <<containers, since>>
  BY <1>8 DEF Upping, Skip, Look, Write, ensure_network
<1>9. ASSUME Ending(t) \/ DropOverlay(t) \/ RemoveOverlay(t) \/ PassOver(t) \/ Record(t)
      PROVE  UNCHANGED <<containers, since>>
  BY <1>9 DEF Ending, Finish, RolledBack, Stopped, Recorded, Refuse, Interrupt, DropOverlay, RemoveOverlay,
     PassOver, Record
<1>10. QED
  BY <1>1, <1>2, <1>3, <1>5, <1>6, <1>7, <1>8, <1>9 DEF Act
LEMMA NetworkTypes ==
    ASSUME Sensible, Types, NEW t \in Terminals, Act(t)
    PROVE  net' \in {"missing", "unlabelled", "labelled"}
<1> USE DEF Types, TypeOK
<1>1. ASSUME Command(t) PROVE UNCHANGED net
  BY <1>1 DEF Command, up, down, switch, Type
<1>2. CASE ensure_network(t)
  BY <1>2 DEF ensure_network
<1>3. CASE ComposeUp(t)
  BY <1>3 DEF ComposeUp
<1>4. CASE RollBack(t) \/ Stop(t)
  BY <1>4 DEF RollBack, Stop, Down, DownFails
<1>5. ASSUME Upping(t), ~ensure_network(t), ~ComposeUp(t) PROVE UNCHANGED net
  BY <1>5 DEF Upping, Skip, Look, Write, ComposeFails
<1>6. ASSUME Ending(t) \/ DropOverlay(t) \/ RemoveOverlay(t) \/ PassOver(t) \/ Update(t) \/ Record(t)
      PROVE  UNCHANGED net
  BY <1>6 DEF Ending, Finish, RolledBack, Stopped, Recorded, Refuse, Interrupt, DropOverlay, RemoveOverlay,
     PassOver, Update, Record
<1>7. QED
  BY <1>1, <1>2, <1>3, <1>4, <1>5, <1>6 DEF Act

LEMMA OthersType ==
    ASSUME Sensible, Types, NEW t \in Terminals, Act(t)
    PROVE  sim' \in BOOLEAN /\ overlapped' \in BOOLEAN
<1> USE DEF Types, TypeOK
<1>1. CASE Command(t)
  BY <1>1 DEF Command, up, down, switch, Type
<1>2. CASE Finish(t)
  <2>1. term[t].cmd.sim \in BOOLEAN
    BY <1>2 DEF Finish, At, Terminal, Sensible
  <2>2. QED
    BY <1>2, <2>1 DEF Finish
<1>3. CASE Stopped(t)
  BY <1>3 DEF Stopped
<1>4. ASSUME Ending(t), ~Finish(t), ~Stopped(t) PROVE UNCHANGED <<sim, overlapped>>
  BY <1>4 DEF Ending, RolledBack, Recorded, Refuse, Interrupt
<1>5. ASSUME Upping(t) PROVE UNCHANGED <<sim, overlapped>>
  BY <1>5 DEF Upping, Skip, Look, Write, ensure_network, ComposeUp, ComposeFails
<1>6. ASSUME RollBack(t) \/ DropOverlay(t) \/ Stop(t) \/ RemoveOverlay(t)
             \/ PassOver(t) \/ Update(t) \/ Record(t)
      PROVE  UNCHANGED <<sim, overlapped>>
  BY <1>6 DEF RollBack, DropOverlay, Stop, RemoveOverlay, PassOver, Update, Record
<1>7. QED
  BY <1>1, <1>2, <1>3, <1>4, <1>5, <1>6 DEF Act

(* What has run since before a command runs still, or counts no longer. *)
LEMMA SinceShrinks ==
    ASSUME Sensible, Types, NEW t \in Terminals, Act(t), ~Command(t)
    PROVE  /\ DOMAIN since' = Terminals
           /\ \A u \in Terminals : since'[u] \subseteq since[u]
                                   /\ \A s \in since'[u] : Runs(s) => Runs(s)'
<1>1. CASE UNCHANGED <<containers, since>>
  BY <1>1 DEF Types, Runs
<1>2. ASSUME NEW s \in Stacks, NEW now, Become(s, now)
      PROVE  /\ DOMAIN since' = Terminals
             /\ \A u \in Terminals : since'[u] \subseteq since[u]
                                     /\ \A x \in since'[u] : Runs(x) => Runs(x)'
  <2>1. /\ DOMAIN since' = Terminals /\ containers'[s] = now
        /\ \A u \in Stacks \ {s} : containers'[u] = containers[u]
        /\ \A u \in Terminals :
            since'[u] = IF \A c \in Services[s] : now[c] = None THEN since[u] \ {s} ELSE since[u]
    BY <1>2, BecomeIs
  <2>2. ASSUME NEW u \in Terminals, NEW x \in since'[u], Runs(x) PROVE Runs(x)'
    <3>1. x \in Stacks
      BY <2>1 DEF Types, TypeOK
    <3>2. CASE x = s
      <4>1. PICK c \in Services[s] : now[c] # None
        BY <2>1, <3>2
      <4>2. QED
        BY <2>1, <3>2, <4>1 DEF Runs
    <3>3. CASE x # s
      BY <2>1, <2>2, <3>1, <3>3 DEF Runs
    <3>4. QED
      BY <3>2, <3>3
  <2>3. QED
    BY <2>1, <2>2
<1>3. QED
  BY <1>1, <1>2, ContainersChange

LEMMA CommandIs ==
    ASSUME Types, NEW t \in Terminals, Command(t)
    PROVE  /\ At(t, "idle") /\ UNCHANGED <<net, overlay, containers, sim>>
           /\ overlapped' = (overlapped \/ \E u \in Terminals \ {t} : ~At(u, "idle"))
           /\ DOMAIN since' = Terminals /\ since'[t] = {s \in Stacks : Runs(s)}
           /\ \A u \in Terminals \ {t} : since'[u] = since[u]
           /\ term'[t].started = <<>> /\ term'[t].step \in {"look", "stop", "update"}
           /\ term'[t].step = "update" => \A s \in DOMAIN term'[t].new : overlay[s] # None
<1>1. /\ At(t, "idle") /\ UNCHANGED <<net, overlay, containers, sim>>
      /\ overlapped' = (overlapped \/ \E u \in Terminals \ {t} : ~At(u, "idle"))
      /\ since' = [since EXCEPT ![t] = {s \in Stacks : Runs(s)}]
  BY DEF Command, up, down, switch, Type
<1>2. PICK c \in Commands : up(t, c) \/ down(t, c) \/ switch(t, c)
  BY DEF Command
<1>3. CASE up(t, c) \/ down(t, c)
  <2>1. term'[t].step \in {"look", "stop"} /\ term'[t].started = <<>>
    BY <1>3, UpTyped, DownTyped
  <2>2. QED
    BY <1>1, <2>1 DEF Types
<1>4. CASE switch(t, c)
  <2> DEFINE running == {s \in ToSet(c.stacks) : overlay[s] # None}
             new == [s \in running |-> Switched(c.profile, s, running)]
  <2>1. DOMAIN new = running /\ \A s \in running : overlay[s] # None
    OBVIOUS
  <2>2. term'[t].step = "update" /\ term'[t].started = <<>> /\ term'[t].new = new
    BY <1>4, SwitchTyped
  <2> HIDE DEF new, running
  <2>3. QED
    BY <1>1, <2>1, <2>2 DEF Types
<1>5. QED
  BY <1>2, <1>3, <1>4

LEMMA NextTypes == ASSUME Sensible, Types, [Next]_vars PROVE Types'
<1>1. CASE UNCHANGED vars
  BY <1>1 DEF vars, Types, TypeOK, Terminal, At, Stack
<1>2. ASSUME NEW t \in Terminals, Act(t) PROVE Types'
  <2>1. InOrder(t)
    BY <1>2, ActsInOrder
  <2>2. /\ DOMAIN term' = Terminals
        /\ \A u \in Terminals :
            /\ Terminal(u)' /\ term'[u].step \in Steps /\ ToSet(term'[u].started) \subseteq Stacks
            /\ term'[u].step = "idle" => term'[u] = Idle
    BY <2>1, TermsKept DEF InOrder
  <2>3. DOMAIN overlay' = Stacks
        /\ \A s \in Stacks : overlay'[s] # None => DOMAIN overlay'[s].services = Services[s]
    BY <1>2, OverlaysChange DEF Types, TypeOK
  <2>4. DOMAIN containers' = Stacks
    BY <1>2, ContainersChange, BecomeIs DEF Types
  <2>5. DOMAIN since' = Terminals /\ \A u \in Terminals : since'[u] \subseteq Stacks
    BY <1>2, SinceShrinks, CommandIs DEF Types, TypeOK
  <2>6. QED
    BY <1>2, <2>2, <2>3, <2>4, <2>5, NetworkTypes, OthersType DEF Types, TypeOK, At, Steps
<1>3. QED
  BY <1>1, <1>2, NextIs
LEMMA InitTypes == ASSUME Sensible, Init PROVE Types
<1>1. Idle.step = "idle" /\ ToSet(Idle.started) \subseteq Stacks
  BY IdleIs, NoElements
<1>2. \A t \in Terminals : Terminal(t)
  BY IdleIs, NoElements DEF Init, Terminal, At, OnStack, Ups
<1>3. QED
  BY <1>1, <1>2 DEF Init, Types, TypeOK, At

(* up.py, down.py, profile.py: the stacks, overlays and commands keep      *)
(* their types, and a terminal that waits is at work on no stack.          *)
THEOREM LifecycleTypeCorrect == ASSUME Sensible PROVE Spec => []TypeOK
<1>1. Init => Types
  BY InitTypes
<1>2. Types /\ [Next]_vars => Types'
  BY NextTypes
<1>3. Types => TypeOK
  BY DEF Types
<1>4. QED
  BY <1>1, <1>2, <1>3, PTL DEF Spec

-----------------------------------------------------------------------------
(* Where a step other than the typing of a command leads its terminal. *)
LEMMA UpLeads ==
    ASSUME Sensible, Types, NEW t \in Terminals, Upping(t)
    PROVE  /\ ~At(t, "idle")
           /\ term'[t].step \in {"write", "network", "compose"} =>
                /\ term'[t].queue = term[t].queue
                /\ \/ Look(t) /\ (~term'[t].was => ~Runs(Stack(t)) \/ Stack(t) \in term'[t].unseen)
                   \/ term[t].step \in {"write", "network"} /\ term'[t].was = term[t].was
           /\ \/ ToSet(term'[t].started) = ToSet(term[t].started)
              \/ /\ At(t, "compose") /\ ~term[t].was
                 /\ ToSet(term'[t].started) = ToSet(term[t].started) \cup {Stack(t)}
           /\ term'[t].step \in {"look", "write", "network", "compose", "rollback"}
           /\ term[t].unseen \subseteq term'[t].unseen
<1>1. CASE Skip(t)
  BY <1>1, NextStackTurns DEF Skip, At, Kept, Fields
<1>2. CASE Look(t)
  BY <1>2, LookIs DEF At, Kept, Fields
<1>3. CASE Write(t)
  BY <1>3, GoTurns DEF Write, At, Kept, Fields
<1>4. CASE ensure_network(t)
  BY <1>4, GoTurns DEF ensure_network, At, Kept, Fields
<1>5. CASE ComposeUp(t) \/ ComposeFails(t)
  <2>1. At(t, "compose") /\ term[t].queue # <<>> /\ term[t].was \in BOOLEAN
    BY <1>5 DEF ComposeUp, ComposeFails, Types, Terminal, At, OnStack
  <2>2. ComposeFails(t) => /\ term'[t].step = "rollback" /\ term'[t].started = Started(t)
                           /\ term'[t].unseen = term[t].unseen
    <3>1. ASSUME ComposeFails(t)
          PROVE  /\ term'[t].step = "rollback" /\ term'[t].started = Started(t)
                 /\ Kept(t, Fields \ {"step", "started"})
      BY <3>1, RollBackTurns DEF ComposeFails
    <3>2. QED
      BY <3>1 DEF Kept, Fields
  <2>3. /\ term'[t].step \in {"look", "rollback"} /\ term'[t].started = Started(t)
        /\ term'[t].unseen = term[t].unseen
    BY <1>5, <2>2, ComposeTurns DEF Kept, Fields
  <2>4. QED
    BY <2>1, <2>3, StartedIs DEF At
<1>6. QED
  BY <1>1, <1>2, <1>3, <1>4, <1>5 DEF Upping

LEMMA BackLeads ==
    ASSUME Sensible, Types, NEW t \in Terminals, RollBack(t) \/ DropOverlay(t)
    PROVE  /\ ~At(t, "idle")
           /\ ToSet(term'[t].started) \subseteq ToSet(term[t].started)
           /\ term'[t].step \in {"rollback", "drop"} /\ term'[t].unseen = term[t].unseen
           /\ term'[t].step = "drop" =>
                term'[t].started = term[t].started /\ RollBack(t) /\ Down(Last(term[t].started))
<1>1. CASE RollBack(t) /\ Down(Last(term[t].started)) /\ Go(t, "drop")
  BY <1>1, GoTurns DEF RollBack, At, Kept, Fields
<1>2. CASE RollBack(t) /\ term' = [term EXCEPT ![t].started = Front(term[t].started)]
  <2>1. term'[t].started = Front(term[t].started) /\ Kept(t, Fields \ {"started"})
    BY <1>2, FrontTurns
  <2>2. term'[t].step = term[t].step /\ term'[t].unseen = term[t].unseen
    BY <2>1 DEF Kept, Fields
  <2>3. At(t, "rollback") /\ term[t].started # <<>>
    BY <1>2 DEF RollBack
  <2>4. QED
    BY <2>1, <2>2, <2>3, LastIs DEF At
<1>3. CASE DropOverlay(t)
  <2>1. /\ At(t, "drop") /\ term'[t].started = Front(term[t].started) /\ term'[t].step = "rollback"
        /\ term'[t].unseen = term[t].unseen
    <3>1. /\ At(t, "drop") /\ term'[t].started = Front(term[t].started) /\ term'[t].step = "rollback"
          /\ Kept(t, Fields \ {"step", "started"})
      BY <1>3, RollBackTurns DEF DropOverlay
    <3>2. QED
      BY <3>1 DEF Kept, Fields
  <2>2. term[t].started # <<>>
    BY <2>1 DEF Types, Terminal
  <2>3. QED
    BY <2>1, <2>2, LastIs DEF At
<1>4. QED
  BY <1>1, <1>2, <1>3 DEF RollBack

LEMMA DownLeads ==
    ASSUME Sensible, Types, NEW t \in Terminals, Stop(t) \/ RemoveOverlay(t)
    PROVE  /\ ~At(t, "idle") /\ term'[t].started = term[t].started
           /\ term'[t].step \in {"stop", "remove"} /\ term'[t].unseen = term[t].unseen
           /\ term'[t].step = "remove" =>
                term'[t].queue = term[t].queue /\ Stop(t) /\ Down(Stack(t))
<1>1. CASE Stop(t) /\ Down(Stack(t)) /\ Go(t, "remove")
  BY <1>1, GoTurns DEF Stop, At, Kept, Fields
<1>2. CASE NextStack(t, "stop") /\ (Stop(t) \/ RemoveOverlay(t))
  BY <1>2, NextStackTurns DEF Stop, RemoveOverlay, At, Kept, Fields
<1>3. QED
  BY <1>1, <1>2 DEF Stop, RemoveOverlay

LEMMA SwitchLeads ==
    ASSUME Sensible, Types, NEW t \in Terminals, PassOver(t) \/ Update(t) \/ Record(t)
    PROVE  /\ ~At(t, "idle") /\ term'[t].started = term[t].started
           /\ term[t].step \in {"update", "record"} /\ term'[t].step \in {"update", "record"}
           /\ term'[t].new = term[t].new /\ term'[t].unseen = term[t].unseen
<1>1. CASE Update(t)
  BY <1>1, GoTurns DEF Update, At, Kept, Fields
<1>2. CASE PassOver(t) \/ Record(t)
  BY <1>2, NextStackTurns DEF PassOver, Record, At, Kept, Fields
<1>3. QED
  BY <1>1, <1>2

LEMMA EndLeads ==
    ASSUME Sensible, Types, NEW t \in Terminals, Ending(t)
    PROVE  ~At(t, "idle") /\ term'[t] = Idle /\ UNCHANGED <<overlay, containers, since>>
BY EndTurns DEF Ending, Finish, RolledBack, Stopped, Recorded, Refuse, Interrupt, At

LEMMA Leads ==
    ASSUME Sensible, Types, NEW t \in Terminals, Act(t), ~Command(t)
    PROVE  /\ ~At(t, "idle")
           /\ term'[t].step \in {"write", "network", "compose"} =>
                /\ term'[t].queue = term[t].queue
                /\ \/ Look(t) /\ (~term'[t].was => ~Runs(Stack(t)) \/ Stack(t) \in term'[t].unseen)
                   \/ term[t].step \in {"write", "network"} /\ term'[t].was = term[t].was
           /\ \/ ToSet(term'[t].started) \subseteq ToSet(term[t].started)
              \/ /\ At(t, "compose") /\ ~term[t].was
                 /\ ToSet(term'[t].started) = ToSet(term[t].started) \cup {Stack(t)}
           /\ term'[t].step = "drop" =>
                term'[t].started = term[t].started /\ RollBack(t) /\ Down(Last(term[t].started))
           /\ term'[t].step = "remove" =>
                term'[t].queue = term[t].queue /\ Stop(t) /\ Down(Stack(t))
           /\ term'[t].step \in {"update", "record"} =>
                term[t].step \in {"update", "record"} /\ term'[t].new = term[t].new
           /\ term[t].unseen \subseteq term'[t].unseen \/ term'[t] = Idle
<1>1. CASE Upping(t)
  BY <1>1, UpLeads
<1>2. CASE RollBack(t) \/ DropOverlay(t)
  BY <1>2, BackLeads
<1>3. CASE Stop(t) \/ RemoveOverlay(t)
  BY <1>3, DownLeads
<1>4. CASE PassOver(t) \/ Update(t) \/ Record(t)
  BY <1>4, SwitchLeads
<1>5. CASE Ending(t)
  <2>1. /\ ~At(t, "idle") /\ term'[t].step = "idle" /\ ToSet(term'[t].started) = {}
        /\ term'[t] = Idle
    BY <1>5, EndLeads, IdleIs, NoElements
  <2>2. QED
    BY <2>1
<1>6. QED
  BY <1>1, <1>2, <1>3, <1>4, <1>5 DEF Act

LEMMA NextSpares == ASSUME Sensible, Types, Spares, [Next]_vars PROVE Spares'
<1>1. CASE UNCHANGED vars
  BY <1>1 DEF vars, Spares, Runs, Stack, Seen
<1>2. ASSUME NEW t \in Terminals, Act(t) PROVE Spares'
  <2>1. \A u \in Terminals \ {t} : term'[u] = term[u]
    BY <1>2, ActsInOrder DEF InOrder, Turned
  <2>2. CASE Command(t)
    <3>1. /\ UNCHANGED containers
          /\ DOMAIN since' = Terminals /\ since'[t] = {s \in Stacks : Runs(s)}
          /\ \A u \in Terminals \ {t} : since'[u] = since[u]
          /\ ToSet(term'[t].started) = {} /\ term'[t].step \in {"look", "stop", "update"}
      BY <2>2, CommandIs, NoElements
    <3>2. \A s \in Stacks : Runs(s)' <=> Runs(s)
      BY <3>1 DEF Runs
    <3>3. ASSUME NEW u \in Terminals
          PROVE  /\ \A s \in since'[u] : Runs(s)'
                 /\ term'[u].step \in {"write", "network", "compose"} /\ ~term'[u].was
                          => Stack(u)' \notin Seen(u)'
                 /\ ToSet(term'[u].started) \cap Seen(u)' = {}
      <4>1. CASE u = t
        BY <3>1, <3>2, <4>1
      <4>2. CASE u # t
        BY <2>1, <3>1, <3>2, <4>2 DEF Spares, Stack, Types, TypeOK, Seen
      <4>3. QED
        BY <4>1, <4>2
    <3>4. QED
      BY <3>3 DEF Spares
  <2>3. CASE ~Command(t)
    <3>1. \A u \in Terminals : since'[u] \subseteq since[u] /\ \A s \in since'[u] : Runs(s)'
      BY <1>2, <2>3, SinceShrinks DEF Spares
    <3>2. /\ term'[t].step \in {"write", "network", "compose"} =>
                /\ term'[t].queue = term[t].queue
                /\ \/ Look(t) /\ (~term'[t].was => ~Runs(Stack(t)) \/ Stack(t) \in term'[t].unseen)
                   \/ term[t].step \in {"write", "network"} /\ term'[t].was = term[t].was
          /\ \/ ToSet(term'[t].started) \subseteq ToSet(term[t].started)
             \/ /\ At(t, "compose") /\ ~term[t].was
                /\ ToSet(term'[t].started) = ToSet(term[t].started) \cup {Stack(t)}
          /\ term[t].unseen \subseteq term'[t].unseen \/ term'[t] = Idle
      BY <1>2, <2>3, Leads
    <3>3. /\ term'[t].step \in {"write", "network", "compose"} /\ ~term'[t].was
                => Stack(t)' \notin Seen(t)'
          /\ ToSet(term'[t].started) \cap Seen(t)' = {}
      <4>1. CASE term'[t] = Idle
        BY <4>1, IdleIs, NoElements
      <4>2. CASE term[t].unseen \subseteq term'[t].unseen
        <5>1. Seen(t)' \subseteq Seen(t)
          BY <3>1, <4>2 DEF Seen
        <5>2. ToSet(term'[t].started) \cap Seen(t)' = {}
          BY <3>2, <5>1 DEF Spares, At
        <5>3. ASSUME term'[t].step \in {"write", "network", "compose"}, ~term'[t].was
              PROVE  Stack(t)' \notin Seen(t)'
          <6>1. Stack(t)' = Stack(t)
            BY <3>2, <5>3 DEF Stack
          <6>2. CASE Look(t) /\ (~Runs(Stack(t)) \/ Stack(t) \in term'[t].unseen)
            <7>1. ~Runs(Stack(t)) => Stack(t) \notin since[t]
              BY DEF Spares
            <7>2. QED
              BY <3>1, <6>1, <6>2, <7>1 DEF Seen
          <6>3. CASE term[t].step \in {"write", "network"} /\ term'[t].was = term[t].was
            BY <5>1, <5>3, <6>1, <6>3 DEF Spares
          <6>4. QED
            BY <3>2, <5>3, <6>2, <6>3
        <5>4. QED
          BY <5>2, <5>3
      <4>3. QED
        BY <3>2, <4>1, <4>2
    <3>4. \A u \in Terminals \ {t} : Stack(u)' = Stack(u) /\ Seen(u)' \subseteq Seen(u)
      BY <2>1, <3>1 DEF Stack, Seen
    <3>5. QED
      BY <2>1, <3>1, <3>3, <3>4 DEF Spares
  <2>4. QED
    BY <2>2, <2>3
<1>3. QED
  BY <1>1, <1>2, NextIs

(* up.py: however the commands of several terminals interleave and however *)
(* they fail, a roll back stops no stack that has run since before its     *)
(* command, unless `docker compose ps` gave no answer about the stack.     *)
THEOREM RollBacksSpare == ASSUME Sensible PROVE Spec => []RollBackSpares
<1>1. Init => Types /\ Spares
  BY InitTypes, IdleIs, NoElements DEF Init, Spares
<1>2. Types /\ Spares /\ [Next]_vars => Types' /\ Spares'
  BY NextTypes, NextSpares
<1>3. Spares => RollBackSpares
  BY DEF Spares, RollBackSpares, Seen
<1>4. QED
  BY <1>1, <1>2, <1>3, PTL DEF Spec

-----------------------------------------------------------------------------
(* Which containers have limits, after each change of them. *)
LEMMA LimitsSpread ==
    ASSUME Sensible, Types, NEW t \in Terminals, Act(t), NEW s \in Stacks, Emulated(s)'
    PROVE  \/ Emulated(s)
           \/ (ComposeUp(t) \/ ComposeFails(t)) /\ overlay[s] # None
           \/ Update(t) /\ s = Stack(t)
<1>1. CASE UNCHANGED containers
  BY <1>1 DEF Emulated
<1>2. ASSUME NEW x \in Stacks, NEW now, Become(x, now),
             \A c \in Services[x] : now[c] \in {None, containers[x][c]}
      PROVE  Emulated(s)
  BY <1>2, BecomeIs DEF Emulated
<1>3. ASSUME NEW x \in Stacks, NEW now, Become(x, now), s # x PROVE Emulated(s)
  BY <1>3, BecomeIs DEF Emulated
<1>4. \A x \in Stacks : Composes(x) => overlay[x] # None
  BY DEF Composes
<1>5. QED
  BY <1>1, <1>2, <1>3, <1>4, ContainersChange

LEMMA DownIsDown ==
    ASSUME Types, NEW s \in Stacks, Down(s) PROVE ~Emulated(s)'
BY BecomeIs DEF Down, Gone, Emulated

(* Whether an overlay is there still, or again. *)
LEMMA OverlaysStay ==
    ASSUME Sensible, Types, NEW t \in Terminals, Act(t), NEW s \in Stacks, overlay[s] # None
    PROVE  \/ overlay'[s] # None
           \/ DropOverlay(t) /\ s = Last(term[t].started)
           \/ RemoveOverlay(t) /\ s = Stack(t)
<1>1. CASE UNCHANGED overlay
  BY <1>1
<1>2. ASSUME NEW x \in Stacks, NEW new, overlay' = [overlay EXCEPT ![x] = new], new # None
      PROVE  overlay'[s] # None
  BY <1>2 DEF Types
<1>3. ASSUME NEW x \in Stacks, overlay' = [overlay EXCEPT ![x] = None], x # s
      PROVE  overlay'[s] # None
  BY <1>3 DEF Types
<1>4. QED
  BY <1>1, <1>2, <1>3, OverlaysChange

LEMMA NextKnown == ASSUME Sensible, Types, Known, [Next]_vars PROVE Known'
<1>1. CASE UNCHANGED vars
  BY <1>1 DEF vars, Known, LimitsAreKnown, Emulated, At, Stack
<1>2. ASSUME NEW t \in Terminals, Act(t), ~overlapped' PROVE Known'
  <2>1. \A u \in Terminals \ {t} : term'[u] = term[u]
    BY <1>2, ActsInOrder DEF InOrder, Turned
  <2>2. overlapped' = overlapped
                          \/ (Command(t) /\ overlapped' = (overlapped \/ \E u \in Terminals \ {t} : ~At(u, "idle")))
    <3>1. CASE Command(t)
      BY <3>1, CommandIs
    <3>2. CASE ~Command(t)
      BY <1>2, <3>2 DEF Act, Upping, Skip, Look, Write, ensure_network, ComposeUp, ComposeFails,
                       Ending, Finish, RolledBack, Stopped, Recorded, Refuse, Interrupt,
                       RollBack, DropOverlay, Stop, RemoveOverlay, PassOver, Update, Record
    <3>3. QED
      BY <3>1, <3>2
  <2>3. ~overlapped
    BY <1>2, <2>2 DEF Types
  <2>4. \A u \in Terminals \ {t} : At(u, "idle")
    <3>1. CASE Command(t)
      BY <1>2, <2>2, <3>1, CommandIs
    <3>2. CASE ~Command(t)
      BY <1>2, <2>3, <3>2, Leads DEF Known
    <3>3. QED
      BY <3>1, <3>2
  <2>5. \A u \in Terminals \ {t} : term'[u].step = "idle"
    BY <2>1, <2>4 DEF At
  <2>6. ASSUME NEW s \in Stacks, Emulated(s)' PROVE overlay'[s] # None
    <3>1. CASE Emulated(s)
      <4>1. overlay[s] # None
        BY <2>3, <3>1 DEF Known, LimitsAreKnown
      <4>2. DropOverlay(t) => ~Emulated(Last(term[t].started))
        BY <2>3 DEF DropOverlay, Known
      <4>3. RemoveOverlay(t) => ~Emulated(Stack(t))
        BY <2>3 DEF RemoveOverlay, Known
      <4>4. QED
        BY <1>2, <3>1, <4>1, <4>2, <4>3, OverlaysStay
    <3>2. CASE (ComposeUp(t) \/ ComposeFails(t)) /\ overlay[s] # None
      BY <3>2 DEF ComposeUp, ComposeFails
    <3>3. CASE Update(t) /\ s = Stack(t)
      <4>1. overlay[s] # None
        BY <2>3, <3>3 DEF Update, Known, At
      <4>2. QED
        BY <3>3, <4>1 DEF Update
    <3>4. QED
      BY <1>2, <2>6, <3>1, <3>2, <3>3, LimitsSpread
  <2>7. term'[t].step = "drop" => ~Emulated(Last(term[t].started))'
    <3>1. ASSUME term'[t].step = "drop" PROVE ~Emulated(Last(term[t].started))'
      <4>1. ~Command(t)
        BY <3>1, CommandIs
      <4>2. term'[t].started = term[t].started /\ RollBack(t) /\ Down(Last(term[t].started))
        BY <1>2, <3>1, <4>1, Leads
      <4>3. Last(term[t].started) \in Stacks
        BY <4>2, LastIs DEF RollBack
      <4>4. PICK s \in Stacks : s = Last(term[t].started)
        BY <4>3
      <4>5. ~Emulated(s)' /\ Last(term[t].started)' = s
        BY <4>2, <4>4, DownIsDown
      <4>6. QED
        BY <4>5 DEF Emulated
    <3>2. QED
      BY <3>1
  <2>8. term'[t].step = "remove" => ~Emulated(Stack(t))'
    <3>1. ASSUME term'[t].step = "remove" PROVE ~Emulated(Stack(t))'
      <4>1. ~Command(t)
        BY <3>1, CommandIs
      <4>2. term'[t].queue = term[t].queue /\ Stop(t) /\ Down(Stack(t))
        BY <1>2, <3>1, <4>1, Leads
      <4>3. Stack(t) \in Stacks /\ Stack(t)' = Stack(t)
        BY <4>2, StackIs DEF Stop, Stack
      <4>4. QED
        BY <4>2, <4>3, DownIsDown
    <3>2. QED
      BY <3>1
  <2>9. term'[t].step \in {"update", "record"} => \A s \in DOMAIN term'[t].new : overlay'[s] # None
    <3>1. CASE Command(t)
      BY <3>1, CommandIs
    <3>2. ASSUME ~Command(t), term'[t].step \in {"update", "record"}, NEW s \in DOMAIN term'[t].new
          PROVE  overlay'[s] # None
      <4>1. term[t].step \in {"update", "record"} /\ term'[t].new = term[t].new
        BY <1>2, <3>2, Leads
      <4>2. s \in Stacks /\ overlay[s] # None
        BY <2>3, <3>2, <4>1 DEF Known, Types, Terminal
      <4>3. ~DropOverlay(t) /\ ~RemoveOverlay(t)
        BY <4>1 DEF DropOverlay, RemoveOverlay, At
      <4>4. QED
        BY <1>2, <4>2, <4>3, OverlaysStay
    <3>3. QED
      BY <3>1, <3>2
  <2>10. QED
    <3>1. ASSUME NEW u \in Terminals, NEW v \in Terminals, ~At(u, "idle")', ~At(v, "idle")' PROVE u = v
      BY <2>5, <3>1 DEF At
    <3>2. LimitsAreKnown'
      BY <2>6 DEF LimitsAreKnown
    <3>3. ASSUME NEW u \in Terminals
          PROVE  /\ At(u, "drop")' => ~Emulated(Last(term[u].started))'
                 /\ At(u, "remove")' => ~Emulated(Stack(u))'
                 /\ term'[u].step \in {"update", "record"} => \A s \in DOMAIN term'[u].new : overlay'[s] # None
      BY <2>5, <2>7, <2>8, <2>9 DEF At
    <3>4. QED
      BY <3>1, <3>2, <3>3 DEF Known
<1>3. QED
  BY <1>1, <1>2, NextIs DEF Known

(* up.py, down.py, profile.py: while commands are typed one at a time, as   *)
(* long as containers have limits there is an overlay that down and status *)
(* find, whichever Docker calls fail and wherever Ctrl-C ends a command.   *)
THEOREM LimitsStayKnown == ASSUME Sensible PROVE Spec => []LimitsAreKnown
<1>1. Init => Types /\ Known
  <2>1. ASSUME Init PROVE Known
    <3>1. \A s \in Stacks : ~Emulated(s)
      BY <2>1 DEF Init, Emulated, Gone
    <3>2. \A t \in Terminals : term[t].step = "idle"
      BY <2>1, IdleIs DEF Init
    <3>3. QED
      BY <3>1, <3>2 DEF Known, LimitsAreKnown, At
  <2>2. QED
    BY <2>1, InitTypes
<1>2. Types /\ Known /\ [Next]_vars => Types' /\ Known'
  BY NextTypes, NextKnown
<1>3. Known => LimitsAreKnown
  BY DEF Known, LimitsAreKnown
<1>4. QED
  BY <1>1, <1>2, <1>3, PTL DEF Spec

-----------------------------------------------------------------------------
(* The simulator's loop (Simulator).                                       *)

LEMMA SameSize == \A S : Loop!Cardinality(S) = Cardinality(S)
BY Zenon DEF Loop!Cardinality, Cardinality

(* The constants are what the module's comments say: times are not         *)
(* negative, a recording's are in order, and no device is a node, too.     *)
SensibleLoop ==
    /\ Busy \in Nat /\ Jitter \in Nat /\ MaxHeld \in Nat
    /\ IsFiniteSet(Measurements) /\ All \notin Measurements
    /\ Samples \subseteq Int /\ Naps \subseteq Nat /\ Delays \subseteq Nat
    /\ IsFiniteSet(Faults) /\ \A f \in Faults : f.time \in Nat
    /\ \A S \in Scenarios :
        /\ S.devices \cap S.nodes = {} /\ 0 \notin S.devices
        /\ IsFiniteSet(S.nodes)
        /\ \A d \in S.devices : Interval[d] \in Nat
        /\ S.rec \in Seq(Nat) /\ \A i \in 1..Len(S.rec) - 1 : S.rec[i] <= S.rec[i + 1]
        /\ S.speed \in Nat /\ S.loop \in BOOLEAN

-----------------------------------------------------------------------------
(* A set that has 0, and with each number the next, has every number. *)
LEMMA SetInduction ==
    ASSUME NEW S, 0 \in S, \A n \in Nat : n \in S => n + 1 \in S
    PROVE  Nat \subseteq S
<1> DEFINE T == {n \in Nat : n \notin S}
<1>1. ASSUME T # {} PROVE FALSE
  <2>1. PICK x \in T : \A y \in T : <<y, x>> \notin OpToRel(<, Nat)
    BY <1>1, WFMin, NatLessThanWellFounded
  <2>2. x \in Nat /\ x \notin S /\ x # 0
    BY <2>1
  <2>3. x - 1 \in Nat /\ (x - 1) + 1 = x
    BY <2>2
  <2>4. x - 1 \in T
    BY <2>2, <2>3
  <2>5. <<x - 1, x>> \in OpToRel(<, Nat)
    BY <2>2, <2>3 DEF OpToRel
  <2>6. QED
    BY <2>1, <2>4, <2>5
<1>2. QED
  BY <1>1

LEMMA MinOfNaturals ==
    ASSUME NEW S \in SUBSET Nat, S # {}
    PROVE  Loop!Min(S) \in S /\ \A y \in S : Loop!Min(S) <= y
<1>1. PICK x \in S : \A y \in S : <<y, x>> \notin OpToRel(<, Nat)
  BY WFMin, NatLessThanWellFounded
<1>2. ASSUME NEW y \in S PROVE x <= y
  <2>1. x \in Nat /\ y \in Nat
    OBVIOUS
  <2>2. ~(y < x)
    BY <1>1, <2>1 DEF OpToRel
  <2>3. QED
    BY <2>1, <2>2
<1>3. QED
  BY <1>2 DEF Loop!Min

LEMMA MaxOfIntegers ==
    ASSUME NEW S \in SUBSET Int, S # {}, IsFiniteSet(S)
    PROVE  Loop!Max(S) \in S /\ \A y \in S : y <= Loop!Max(S)
<1> DEFINE Some(n) == \A F \in SUBSET Int : IsFiniteSet(F) /\ Cardinality(F) = n + 1
                                           => \E x \in F : \A y \in F : y <= x
           I == {n \in Nat : Some(n)}
<1>1. Some(0)
  <2>1. ASSUME NEW F \in SUBSET Int, IsFiniteSet(F), Cardinality(F) = 0 + 1
        PROVE  \E x \in F : \A y \in F : y <= x
    <3>1. Cardinality(F) = 1
      BY <2>1
    <3>2. PICK x : F = {x}
      BY <2>1, <3>1, FS_Singleton
    <3>3. QED
      BY <3>2
  <2>2. QED
    BY <2>1
<1>2. ASSUME NEW n \in Nat, Some(n) PROVE Some(n + 1)
  <2>1. ASSUME NEW F \in SUBSET Int, IsFiniteSet(F), Cardinality(F) = (n + 1) + 1
        PROVE  \E x \in F : \A y \in F : y <= x
    <3>0. Cardinality(F) # 0
      BY <2>1
    <3>1. PICK z \in F : TRUE
      BY <2>1, <3>0, FS_EmptySet
    <3>2. F \ {z} \in SUBSET Int /\ IsFiniteSet(F \ {z}) /\ Cardinality(F \ {z}) = n + 1
      BY <2>1, <3>1, FS_RemoveElement
    <3>3. PICK x \in F \ {z} : \A y \in F \ {z} : y <= x
      BY <1>2, <3>2
    <3>4. x \in F /\ x \in Int /\ z \in Int
      BY <3>1, <3>3
    <3>5. CASE z <= x
      BY <3>3, <3>4, <3>5
    <3>6. CASE x <= z
      BY <3>1, <3>3, <3>4, <3>6
    <3>7. QED
      BY <3>4, <3>5, <3>6
  <2>2. QED
    BY <2>1
<1>3. Nat \subseteq I
  <2> HIDE DEF Some
  <2>1. 0 \in I /\ \A n \in Nat : n \in I => n + 1 \in I
    BY <1>1, <1>2
  <2> HIDE DEF I
  <2>2. QED
    BY <2>1, SetInduction
<1>4. Cardinality(S) \in Nat /\ Cardinality(S) # 0
  BY FS_CardinalityType, FS_EmptySet
<1>5. Cardinality(S) - 1 \in I
  <2> HIDE DEF I
  <2>1. QED
    BY <1>3, <1>4
<1>6. (Cardinality(S) - 1) + 1 = Cardinality(S)
  BY <1>4
<1>7. \E x \in S : \A y \in S : y <= x
  <2>1. Some(Cardinality(S) - 1)
    BY <1>5
  <2>2. QED
    BY <1>6, <2>1
<1>8. QED
  BY <1>7 DEF Loop!Max

LEMMA Pair == ASSUME NEW a \in Int, NEW b \in Int
    PROVE  Loop!Max({a, b}) \in {a, b} /\ a <= Loop!Max({a, b}) /\ b <= Loop!Max({a, b})
<1>1. IsFiniteSet({a, b})
  <2>1. IsFiniteSet({a}) /\ {a, b} = {a} \cup {b}
    BY FS_Singleton
  <2>2. QED
    BY <2>1, FS_AddElement
<1>2. QED
  BY <1>1, MaxOfIntegers

-----------------------------------------------------------------------------
Things == UNION {S.devices \cup S.nodes : S \in Scenarios}

Delayed == [device : Things, measurement : Loop!Keys, value : Int, broken : BOOLEAN, in : Int, age : Nat]

(* What comes off a heap of all is in order, and is what was pushed. *)
HeapOf(all, q) ==
    /\ q \in Seq(Delayed) /\ Len(q) = Len(all)
    /\ \A i \in 1..Len(q) - 1 : q[i].in <= q[i + 1].in
    /\ \A i \in 1..Len(q) : \E j \in 1..Len(all) : q[i] = all[j]

LEMMA UpTo == ASSUME NEW m \in Nat PROVE IsFiniteSet(1..m) /\ Cardinality(1..m) = m
<1>1. m \in Int /\ 1 \in Int
  OBVIOUS
<1>2. IsFiniteSet(1..m) /\ Cardinality(1..m) = IF 1 > m THEN 0 ELSE m - 1 + 1
  BY <1>1, FS_Interval
<1>3. QED
  BY <1>2

LEMMA Heaped ==
    ASSUME NEW queue \in Seq(Delayed), NEW order \in Seq(Delayed)
    PROVE  HeapOf(queue \o order, Loop!hold(queue, order))
<1> DEFINE all == queue \o order
           n == Len(all)
           Under(j) == {i \in 1..n : Loop!Before(all, i, j)}
           off == [k \in 1..n |-> CHOOSE j \in 1..n : Loop!Place(all, j) = k]
<1>1. all \in Seq(Delayed) /\ n \in Nat /\ n = Len(queue) + Len(order) /\ DOMAIN all = 1..n
      /\ \A i \in 1..n : all[i] \in Delayed /\ all[i].in \in Int
  <2>1. all \in Seq(Delayed) /\ n = Len(queue) + Len(order)
    BY ConcatProperties
  <2> HIDE DEF all
  <2>2. n \in Nat /\ DOMAIN all = 1..n
    BY <2>1, LenProperties
  <2>3. \A i \in 1..n : all[i] \in Delayed
    BY <2>1, ElementOfSeq
  <2>4. \A d \in Delayed : d.in \in Int
    BY DEF Delayed
  <2>5. QED
    BY <2>1, <2>2, <2>3, <2>4
<1> HIDE DEF all
<1>1a. n \in Nat
  BY <1>1
<1>2. ASSUME NEW i \in 1..n, NEW j \in 1..n, i # j PROVE Loop!Before(all, i, j) \/ Loop!Before(all, j, i)
  BY <1>1, <1>2 DEF Loop!Before
<1>3. ASSUME NEW i \in 1..n, NEW j \in 1..n, Loop!Before(all, i, j)
      PROVE  Under(i) \subseteq Under(j) /\ i \in Under(j) /\ i \notin Under(i)
  BY <1>1, <1>3 DEF Loop!Before
<1>4. ASSUME NEW j \in 1..n
      PROVE  /\ IsFiniteSet(Under(j)) /\ Loop!Place(all, j) \in 1..n
             /\ Loop!Place(all, j) = Cardinality(Under(j)) + 1
  <2>1. IsFiniteSet(1..n) /\ Cardinality(1..n) = n
    BY <1>1a, UpTo
  <2>2. IsFiniteSet((1..n) \ {j}) /\ Cardinality((1..n) \ {j}) = n - 1
    BY <2>1, FS_RemoveElement
  <2>3. Under(j) \in SUBSET ((1..n) \ {j})
    BY <1>1 DEF Loop!Before
  <2>4. IsFiniteSet(Under(j)) /\ Cardinality(Under(j)) <= n - 1 /\ Cardinality(Under(j)) \in Nat
    BY <2>2, <2>3, FS_Subset, FS_CardinalityType
  <2>5. Loop!Place(all, j) = Cardinality(Under(j)) + 1
    BY <1>1, SameSize DEF Loop!Place
  <2>6. QED
    BY <1>1, <2>4, <2>5
<1>5. ASSUME NEW i \in 1..n, NEW j \in 1..n, Loop!Before(all, i, j)
      PROVE Loop!Place(all, i) < Loop!Place(all, j)
  <2>1. IsFiniteSet(Under(i)) /\ IsFiniteSet(Under(j))
        /\ Cardinality(Under(i)) \in Nat /\ Cardinality(Under(j)) \in Nat
    BY <1>4, FS_CardinalityType
  <2>2. Under(i) \in SUBSET Under(j) /\ Under(i) # Under(j)
    BY <1>3, <1>5
  <2>3. Cardinality(Under(i)) <= Cardinality(Under(j)) /\ Cardinality(Under(i)) # Cardinality(Under(j))
    BY <2>1, <2>2, FS_Subset
  <2>4. QED
    BY <1>4, <2>1, <2>3
<1>6. \A k \in 1..n : \E j \in 1..n : Loop!Place(all, j) = k
  <2> DEFINE place == [j \in 1..n |-> Loop!Place(all, j)]
  <2>1. place \in [1..n -> 1..n]
    BY <1>4
  <2>2. ASSUME NEW i \in 1..n, NEW j \in 1..n, i # j PROVE place[i] # place[j]
    <3>1. Loop!Place(all, i) \in 1..n /\ Loop!Place(all, j) \in 1..n
      BY <1>4
    <3>2. Loop!Place(all, i) # Loop!Place(all, j)
      BY <1>2, <1>5, <2>2, <3>1
    <3>3. QED
      BY <3>2
  <2> HIDE DEF place
  <2>3. place \in Injection(1..n, 1..n)
    BY <2>1, <2>2 DEF Injection, IsInjective
  <2>4. IsFiniteSet(1..n)
    BY <1>1a, UpTo
  <2>5. place \in Surjection(1..n, 1..n)
    BY <2>3, <2>4, FS_Injection
  <2>6. \A k \in 1..n : \E j \in 1..n : place[j] = k
    BY <2>5 DEF Surjection
  <2>7. QED
    BY <2>6 DEF place
<1>7. \A k \in 1..n : off[k] \in 1..n /\ Loop!Place(all, off[k]) = k
  BY <1>6
<1>8. Loop!hold(queue, order) = [k \in 1..n |-> all[off[k]]]
  <2>1. Loop!hold(queue, order) = [k \in DOMAIN all |-> all[CHOOSE j \in DOMAIN all : Loop!Place(all, j) = k]]
    BY DEF Loop!hold, all
  <2>2. QED
    BY <1>1, <2>1
<1> HIDE DEF off
<1>9. Loop!hold(queue, order) \in Seq(Delayed) /\ Len(Loop!hold(queue, order)) = n
  <2>1. \A k \in 1..n : all[off[k]] \in Delayed
    BY <1>1, <1>7
  <2>2. [k \in 1..n |-> all[off[k]]] \in [1..n -> Delayed]
    BY <2>1
  <2>3. PICK q \in [1..n -> Delayed] : q = Loop!hold(queue, order)
    BY <1>8, <2>2
  <2>4. q \in Seq(Delayed) /\ DOMAIN q = 1..n
    BY <1>1, SeqDef
  <2>5. Len(q) = n
    BY <1>1, <2>4, LenProperties
  <2>6. QED
    BY <2>3, <2>4, <2>5
<1>10. ASSUME NEW i \in 1..n - 1 PROVE Loop!hold(queue, order)[i].in <= Loop!hold(queue, order)[i + 1].in
  <2>1. i \in 1..n /\ i + 1 \in 1..n /\ i < i + 1 /\ i \in Int
    BY <1>1
  <2>2. PICK x \in 1..n, y \in 1..n : x = off[i] /\ y = off[i + 1]
    BY <1>7, <2>1
  <2>3. Loop!Place(all, x) = i /\ Loop!Place(all, y) = i + 1
    BY <1>7, <2>1, <2>2
  <2>4. ~Loop!Before(all, y, x) /\ x # y
    BY <1>5, <2>1, <2>3
  <2>5. all[x].in <= all[y].in
    BY <1>1, <1>2, <2>4 DEF Loop!Before
  <2>6. QED
    BY <1>8, <2>1, <2>2, <2>5
<1>11. ASSUME NEW i \in 1..n PROVE \E j \in 1..n : Loop!hold(queue, order)[i] = all[j]
  BY <1>7, <1>8
<1>12. QED
  BY <1>1, <1>9, <1>10, <1>11 DEF all, HeapOf

-----------------------------------------------------------------------------
Replaying == [rec : Seq(Nat), speed : Nat, loop : BOOLEAN, index : Nat, next : Int]

(* TypeOK looks at the order of the heap and at the recording's index. *)
LoopTypes ==
    /\ Loop!TypeOK
    /\ due \in [Loop!Devices -> Int] /\ node \in [Loop!Nodes -> Int]
    /\ Loop!Devices \subseteq Things /\ 0 \notin Loop!Devices
    /\ Loop!Nodes \subseteq Things /\ IsFiniteSet(Loop!Nodes) /\ Loop!Devices \cap Loop!Nodes = {}
    /\ \A d \in Loop!Devices : Interval[d] \in Nat /\ due[d] <= Interval[d]
    /\ silent \in [Loop!Devices -> [Loop!Keys -> [left : Nat, since : Nat]]]
    /\ stuck \in [Loop!Devices -> [Measurements -> [value : Int, left : Nat]]]
    /\ held \in Seq(Delayed)
    /\ replay \in Replaying
    /\ \A i \in 1..Len(replay.rec) - 1 : replay.rec[i] <= replay.rec[i + 1]

-----------------------------------------------------------------------------
LEMMA ImageIsFinite ==
    ASSUME NEW S, IsFiniteSet(S), NEW f
    PROVE  IsFiniteSet({f[x] : x \in S})
<1> DEFINE g == [x \in S |-> f[x]]
<1>1. g \in [S -> {f[x] : x \in S}]
  OBVIOUS
<1>2. g \in Surjection(S, {f[x] : x \in S})
  BY <1>1 DEF Surjection
<1>3. QED
  BY <1>2, FS_Surjection

LEMMA SettingsLast ==
    ASSUME SensibleLoop, NEW F \in SUBSET Faults
    PROVE  /\ F # {} => Loop!Max(Loop!Settings(F)) \in Nat
           /\ Loop!Max(Loop!Settings(F) \cup {0}) \in Nat
<1> DEFINE time == [f \in F |-> f.time]
<1>1. IsFiniteSet(F) /\ \A f \in F : f.time \in Nat
  BY FS_Subset DEF SensibleLoop
<1>2. Loop!Settings(F) = {time[f] : f \in F}
  BY DEF Loop!Settings
<1> HIDE DEF time
<1>3. IsFiniteSet(Loop!Settings(F))
  BY <1>1, <1>2, ImageIsFinite
<1>4. Loop!Settings(F) \subseteq Nat
  BY <1>1 DEF Loop!Settings
<1>5. IsFiniteSet(Loop!Settings(F) \cup {0})
  BY <1>3, FS_AddElement
<1>6. F # {} => Loop!Settings(F) # {}
  BY DEF Loop!Settings
<1>7. Loop!Settings(F) \in SUBSET Int /\ Loop!Settings(F) \cup {0} \in SUBSET Int
      /\ Loop!Settings(F) \cup {0} # {}
  BY <1>4
<1>8. Loop!Max(Loop!Settings(F) \cup {0}) \in Loop!Settings(F) \cup {0}
  BY <1>5, <1>7, MaxOfIntegers
<1>9. F # {} => Loop!Max(Loop!Settings(F)) \in Loop!Settings(F)
  BY <1>3, <1>6, <1>7, MaxOfIntegers
<1>10. QED
  BY <1>4, <1>8, <1>9

LEMMA RolledAre ==
    ASSUME SensibleLoop, NEW rolled \in SUBSET Faults, NEW d, NEW m, NEW type
    PROVE  Loop!Matching(type, m, rolled) \in SUBSET Faults /\ Loop!Dropouts(d, m, rolled) \in SUBSET Faults
BY DEF Loop!Matching, Loop!Dropouts

LEMMA ReadingsAre ==
    ASSUME SensibleLoop, LoopTypes, NEW d \in Loop!Devices, NEW rolled \in SUBSET Faults,
           NEW sample \in [Measurements -> Samples]
    PROVE  /\ IsFiniteSet(Loop!readings(d, sample, rolled))
           /\ \A r \in Loop!readings(d, sample, rolled) :
                /\ r \in Delayed /\ r.in \in Nat /\ r.age = 0
                /\ r.device = d /\ r.measurement \in Loop!Taken(d, rolled)
<1>1. ASSUME NEW m \in Measurements
      PROVE  /\ Loop!Reading(d, m, sample[m], rolled) \in Delayed
             /\ Loop!Reading(d, m, sample[m], rolled).in \in Nat
             /\ Loop!Reading(d, m, sample[m], rolled).age = 0
             /\ Loop!Reading(d, m, sample[m], rolled).device = d
             /\ Loop!Reading(d, m, sample[m], rolled).measurement = m
  <2>1. Loop!delay(m, rolled) \in Nat
    BY RolledAre, SettingsLast DEF Loop!delay
  <2>2. Loop!value(d, m, sample[m], rolled) \in Int
    <3>1. sample[m] \in Int
      BY DEF SensibleLoop
    <3>2. stuck[d][m].value \in Int
      BY DEF LoopTypes
    <3>3. Cardinality(Loop!Matching("spike", m, rolled)) \in Nat
      BY RolledAre, FS_Subset, FS_CardinalityType DEF SensibleLoop
    <3>4. sample[m] + 10 * Cardinality(Loop!Matching("spike", m, rolled)) \in Int
      BY <3>1, <3>3
    <3>5. QED
      BY <3>1, <3>2, <3>4, SameSize DEF Loop!value
  <2>3. d \in Things /\ m \in Loop!Keys
    BY DEF LoopTypes, Loop!Keys
  <2>4. QED
    BY <2>1, <2>2, <2>3 DEF Loop!Reading, Delayed
<1>2. Loop!Taken(d, rolled) \in SUBSET Measurements
  BY DEF Loop!Taken
<1>3. IsFiniteSet(Loop!readings(d, sample, rolled))
  <2> DEFINE f == [m \in Loop!Taken(d, rolled) |-> Loop!Reading(d, m, sample[m], rolled)]
  <2>1. Loop!readings(d, sample, rolled) = {f[m] : m \in Loop!Taken(d, rolled)}
    BY DEF Loop!readings
  <2>2. IsFiniteSet(Loop!Taken(d, rolled))
    BY <1>2, FS_Subset DEF SensibleLoop
  <2> HIDE DEF f
  <2>3. QED
    BY <2>1, <2>2, ImageIsFinite
<1>4. QED
  BY <1>1, <1>2, <1>3 DEF Loop!readings

LEMMA HoldKeeps ==
    ASSUME SensibleLoop, LoopTypes, NEW late \in SUBSET Delayed, IsFiniteSet(late), Loop!Hold(late)
    PROVE  /\ held' \in Seq(Delayed) /\ Len(held') <= MaxHeld
           /\ \A i \in 1..Len(held') - 1 : held'[i].in <= held'[i + 1].in
           /\ \A i \in 1..Len(held') : held'[i] \in late \/ \E j \in 1..Len(held) : held'[i] = held[j]
<1>1. PICK order \in Loop!SetToSeqs(late) : held' = Loop!hold(held, order)
  BY DEF Loop!Hold
<1>2. Cardinality(late) \in Nat
  BY FS_CardinalityType
<1>3. order \in [1..Cardinality(late) -> late]
  BY SameSize DEF Loop!SetToSeqs
<1>4. order \in Seq(late) /\ Len(order) = Cardinality(late)
  <2>1. order \in Seq(late) /\ DOMAIN order = 1..Cardinality(late)
    BY <1>2, <1>3, SeqDef
  <2>2. QED
    BY <1>2, <2>1, LenProperties
<1>5. order \in Seq(Delayed) /\ held \in Seq(Delayed) /\ \A r \in Delayed : r.in \in Int
  <2>1. order \in [1..Cardinality(late) -> Delayed]
    BY <1>3
  <2>2. order \in Seq(Delayed)
    BY <1>2, <2>1, SeqDef
  <2>3. QED
    BY <2>2 DEF LoopTypes, Delayed
<1> DEFINE all == held \o order
<1>6. HeapOf(all, held')
  <2>1. PICK q \in Seq(Delayed) : q = held
    BY <1>5
  <2>2. HeapOf(q \o order, Loop!hold(q, order))
    BY <1>5, Heaped
  <2>3. QED
    BY <1>1, <2>1, <2>2
<1>7. /\ Len(all) = Len(held) + Len(order) /\ Len(held) \in Nat /\ Len(order) \in Nat
      /\ \A j \in 1..Len(all) : all[j] = IF j <= Len(held) THEN held[j] ELSE order[j - Len(held)]
  BY <1>5, ConcatProperties, LenProperties
<1> HIDE DEF all
<1>8. ASSUME NEW j \in 1..Len(all) PROVE all[j] \in late \/ \E k \in 1..Len(held) : all[j] = held[k]
  <2>1. CASE j <= Len(held)
    BY <1>7, <2>1
  <2>2. CASE ~(j <= Len(held))
    <3>1. j - Len(held) \in 1..Len(order)
      BY <1>7, <2>2
    <3>2. order[j - Len(held)] \in late
      BY <1>3, <1>4, <3>1
    <3>3. QED
      BY <1>7, <2>2, <3>2
  <2>3. QED
    BY <2>1, <2>2
<1>9. Len(held') <= MaxHeld
  BY <1>4, <1>6, <1>7, SameSize DEF Loop!Hold, HeapOf
<1>10. ASSUME NEW i \in 1..Len(held')
       PROVE  held'[i] \in late \/ \E j \in 1..Len(held) : held'[i] = held[j]
  <2>1. PICK j \in 1..Len(all) : held'[i] = all[j]
    BY <1>6 DEF HeapOf
  <2>2. QED
    BY <1>8, <2>1
<1>11. QED
  BY <1>6, <1>9, <1>10 DEF HeapOf

-----------------------------------------------------------------------------
LEMMA GapsAre ==
    ASSUME NEW rec \in Seq(Nat), \A i \in 1..Len(rec) - 1 : rec[i] <= rec[i + 1]
    PROVE  /\ \A i \in 1..Len(rec) - 1 : Loop!Gaps(rec)[i] \in Nat
           /\ Loop!TypicalGap(rec) \in Nat
<1>1. Len(rec) \in Nat /\ \A i \in 1..Len(rec) : rec[i] \in Nat
  BY LenProperties, ElementOfSeq
<1>2. ASSUME NEW i \in 1..Len(rec) - 1 PROVE Loop!Gaps(rec)[i] \in Nat
  <2>1. i \in 1..Len(rec) /\ i + 1 \in 1..Len(rec)
    BY <1>1
  <2>2. rec[i] \in Nat /\ rec[i + 1] \in Nat /\ rec[i] <= rec[i + 1]
    BY <1>1, <2>1
  <2>3. QED
    BY <2>2 DEF Loop!Gaps
<1>3. CASE Len(rec) > 1
  <2> DEFINE n == Len(rec) - 1
             gaps == Loop!Gaps(rec)
             S == {gaps[i] : i \in 1..n}
             Shorter(g) == {i \in 1..n : gaps[i] <= g}
  <2>1. n \in Nat \ {0} /\ DOMAIN gaps = 1..n /\ \A i \in 1..n : gaps[i] \in Nat
    BY <1>1, <1>2, <1>3 DEF Loop!Gaps
  <2> HIDE DEF n, gaps
  <2>2. IsFiniteSet(1..n) /\ Cardinality(1..n) = n
    BY <2>1, FS_Interval
  <2>3. IsFiniteSet(S)
    BY <2>2, ImageIsFinite
  <2>4. 1 \in 1..n
    BY <2>1
  <2>5. S \subseteq Nat /\ S # {}
    BY <2>1, <2>4
  <2>6. Loop!Max(S) \in S /\ \A y \in S : y <= Loop!Max(S)
    <3>1. S \in SUBSET Int
      BY <2>5
    <3>2. QED
      BY <2>3, <2>5, <3>1, MaxOfIntegers
  <2>7. Shorter(Loop!Max(S)) = 1..n
    BY <2>6
  <2>8. n > n \div 2
    BY <2>1
  <2>9. Cardinality(Shorter(Loop!Max(S))) > n \div 2
    BY <2>2, <2>7, <2>8
  <2> DEFINE M == {g \in S : Cardinality(Shorter(g)) > n \div 2}
  <2>10. M \in SUBSET Nat /\ M # {}
    BY <2>5, <2>6, <2>9
  <2>11. Loop!TypicalGap(rec) = Loop!Min(M)
    <3>1. Loop!ToSet(gaps) = S
      BY <2>1 DEF Loop!ToSet
    <3>2. \A g : {i \in DOMAIN gaps : gaps[i] <= g} = Shorter(g)
      BY <2>1
    <3>3. ~(Len(rec) <= 1)
      BY <1>1, <1>3
    <3>4. Loop!TypicalGap(rec)
          = Loop!Min({g \in Loop!ToSet(gaps) : Cardinality({i \in DOMAIN gaps : gaps[i] <= g}) > n \div 2})
      BY <3>3, SameSize DEF Loop!TypicalGap, gaps, n
    <3>5. QED
      BY <3>1, <3>2, <3>4
  <2> HIDE DEF M
  <2>12. QED
    BY <1>2, <2>10, <2>11, MinOfNaturals
<1>4. CASE Len(rec) <= 1
  BY <1>4 DEF Loop!TypicalGap
<1>5. QED
  BY <1>1, <1>2, <1>3, <1>4

LEMMA Quotient == ASSUME NEW x \in Nat, NEW s \in Nat, s > 0 PROVE x \div s \in Nat
<1>1. x \div s \in Int
  OBVIOUS
<1>2. x = s * (x \div s) + (x % s) /\ 0 <= x % s /\ x % s < s
  OBVIOUS
<1>3. QED
  BY <1>1, <1>2

LEMMA GapAfterIs ==
    ASSUME SensibleLoop, LoopTypes, ~Loop!Ended PROVE Loop!GapAfter(replay.index) \in Nat
<1>1. /\ replay.rec \in Seq(Nat) /\ replay.speed \in Nat /\ replay.index \in 1..Len(replay.rec)
      /\ Len(replay.rec) \in Nat
  <2>1. /\ replay.rec \in Seq(Nat) /\ replay.speed \in Nat
        /\ replay.index \in 1..Len(replay.rec) + 1
    BY DEF LoopTypes, Loop!TypeOK, Replaying
  <2>2. Len(replay.rec) \in Nat
    BY <2>1, LenProperties
  <2>3. QED
    BY <2>1, <2>2 DEF Loop!Ended
<1>2. /\ \A i \in 1..Len(replay.rec) - 1 : Loop!Gaps(replay.rec)[i] \in Nat
      /\ Loop!TypicalGap(replay.rec) \in Nat
  BY <1>1, GapsAre DEF LoopTypes
<1>3. \A x \in Nat : replay.speed > 0 => x \div replay.speed \in Nat
  BY <1>1, Quotient
<1>4. CASE replay.speed = 0
  BY <1>4 DEF Loop!GapAfter
<1>5. CASE replay.speed > 0 /\ replay.index < Len(replay.rec)
  <2>1. replay.index \in 1..Len(replay.rec) - 1
    BY <1>1, <1>5
  <2>2. QED
    BY <1>1, <1>2, <1>3, <1>5, <2>1 DEF Loop!GapAfter
<1>6. CASE replay.speed > 0 /\ ~(replay.index < Len(replay.rec))
  BY <1>1, <1>2, <1>3, <1>6 DEF Loop!GapAfter
<1>7. QED
  BY <1>1, <1>4, <1>5, <1>6

-----------------------------------------------------------------------------
LEMMA InitLoop == ASSUME SensibleLoop, Loop!Init PROVE LoopTypes
<1>1. PICK S \in Scenarios :
        /\ due = [d \in S.devices |-> 0]
        /\ node = [n \in S.nodes |-> 0]
        /\ replay = [rec |-> S.rec, speed |-> S.speed, loop |-> S.loop, index |-> 1, next |-> 0]
        /\ silent = [d \in S.devices |-> [m \in Loop!Keys |-> [left |-> 0, since |-> 0]]]
        /\ stuck = [d \in S.devices |-> [m \in Measurements |-> [value |-> 0, left |-> 0]]]
  BY DEF Loop!Init
<1>2. Loop!Devices = S.devices /\ Loop!Nodes = S.nodes
  BY <1>1 DEF Loop!Devices, Loop!Nodes
<1>3. <<>> \in Seq(Delayed) /\ Len(<<>>) = 0
  BY EmptySeq
<1>4. replay \in Replaying /\ replay.index \in 1..Len(replay.rec) + 1
      /\ \A i \in 1..Len(replay.rec) - 1 : replay.rec[i] <= replay.rec[i + 1]
  <2>1. S.rec \in Seq(Nat) /\ Len(S.rec) \in Nat /\ S.speed \in Nat /\ S.loop \in BOOLEAN
    BY LenProperties DEF SensibleLoop
  <2>2. replay \in Replaying /\ replay.rec = S.rec /\ replay.index = 1
    BY <1>1, <2>1 DEF Replaying
  <2>3. \A i \in 1..Len(S.rec) - 1 : S.rec[i] <= S.rec[i + 1]
    BY DEF SensibleLoop
  <2>4. 1 \in 1..Len(S.rec) + 1
    BY <2>1
  <2>5. QED
    BY <2>2, <2>3, <2>4
<1>5. /\ due \in [Loop!Devices -> Int] /\ node \in [Loop!Nodes -> Int]
      /\ silent \in [Loop!Devices -> [Loop!Keys -> [left : Nat, since : Nat]]]
      /\ stuck \in [Loop!Devices -> [Measurements -> [value : Int, left : Nat]]]
  BY <1>1, <1>2
<1>6. /\ Loop!Devices \subseteq Things /\ Loop!Nodes \subseteq Things
      /\ 0 \notin Loop!Devices /\ IsFiniteSet(Loop!Nodes) /\ Loop!Devices \cap Loop!Nodes = {}
      /\ \A d \in Loop!Devices : Interval[d] \in Nat /\ due[d] <= Interval[d]
  BY <1>1, <1>2 DEF SensibleLoop, Things
<1>7. Loop!TypeOK /\ held \in Seq(Delayed)
  BY <1>3, <1>4 DEF Loop!Init, Loop!TypeOK, SensibleLoop
<1>8. QED
  BY <1>4, <1>5, <1>6, <1>7 DEF LoopTypes

(* What of the types a step leaves, when it keeps the devices and nodes. *)
LEMMA CastStays ==
    ASSUME LoopTypes, due' \in [Loop!Devices -> Int], node' \in [Loop!Nodes -> Int],
           \A d \in Loop!Devices : due'[d] <= Interval[d],
           silent' \in [Loop!Devices -> [Loop!Keys -> [left : Nat, since : Nat]]],
           stuck' \in [Loop!Devices -> [Measurements -> [value : Int, left : Nat]]],
           held' \in Seq(Delayed), Loop!TypeOK', replay' \in Replaying, replay'.rec = replay.rec
    PROVE  LoopTypes' /\ Loop!Devices' = Loop!Devices /\ Loop!Nodes' = Loop!Nodes
<1>1. Loop!Devices' = Loop!Devices /\ Loop!Nodes' = Loop!Nodes
  BY DEF Loop!Devices, Loop!Nodes
<1>2. QED
  BY <1>1 DEF LoopTypes

LEMMA SampleTypes ==
    ASSUME SensibleLoop, LoopTypes, NEW d \in Loop!Devices, Loop!SampleDevice(d)
    PROVE  LoopTypes' /\ Loop!Devices' = Loop!Devices /\ Loop!Nodes' = Loop!Nodes
<1>1. PICK rolled \in SUBSET Faults, sample \in [Measurements -> Samples] :
        /\ Loop!Hold({r \in Loop!readings(d, sample, rolled) : r.in > 0})
        /\ silent' = [silent EXCEPT ![d] = Loop!Silences(d, rolled)]
        /\ stuck' = [stuck EXCEPT ![d] =
              [m \in Measurements |->
                  IF m \in Loop!Taken(d, rolled) THEN Loop!Sticks(d, m, sample[m], rolled) ELSE stuck[d][m]]]
  BY DEF Loop!SampleDevice
<1>2. due' = [due EXCEPT ![d] = Interval[d]] /\ UNCHANGED <<pc, node, replay>>
  BY DEF Loop!SampleDevice
<1>3. due' \in [Loop!Devices -> Int] /\ \A e \in Loop!Devices : due'[e] <= Interval[e]
  BY <1>2 DEF LoopTypes
<1>4. silent' \in [Loop!Devices -> [Loop!Keys -> [left : Nat, since : Nat]]]
  <2>1. Loop!Silences(d, rolled) \in [Loop!Keys -> [left : Nat, since : Nat]]
    <3>1. \A m \in Loop!Keys : silent[d][m] \in [left : Nat, since : Nat]
      BY DEF LoopTypes
    <3>2. \A m \in Loop!Keys : Loop!Dropouts(d, m, rolled) # {}
             => Loop!Max(Loop!Settings(Loop!Dropouts(d, m, rolled))) \in Nat
      BY RolledAre, SettingsLast
    <3>3. QED
      BY <3>1, <3>2 DEF Loop!Silences
  <2>2. QED
    BY <1>1, <2>1 DEF LoopTypes
<1>5. stuck' \in [Loop!Devices -> [Measurements -> [value : Int, left : Nat]]]
  <2>1. ASSUME NEW m \in Measurements
        PROVE  /\ Loop!Sticks(d, m, sample[m], rolled) \in [value : Int, left : Nat]
               /\ stuck[d][m] \in [value : Int, left : Nat]
    <3>1. stuck[d][m] \in [value : Int, left : Nat]
      BY DEF LoopTypes
    <3>2. sample[m] \in Int
      BY DEF SensibleLoop
    <3>3. Loop!Matching("stuck", m, rolled) # {}
          => Loop!Max(Loop!Settings(Loop!Matching("stuck", m, rolled))) \in Nat
      BY RolledAre, SettingsLast
    <3>4. QED
      BY <3>1, <3>2, <3>3 DEF Loop!Sticks
  <2>2. QED
    BY <1>1, <2>1 DEF LoopTypes
<1>6. /\ held' \in Seq(Delayed) /\ Len(held') <= MaxHeld
      /\ \A i \in 1..Len(held') - 1 : held'[i].in <= held'[i + 1].in
  <2> DEFINE late == {r \in Loop!readings(d, sample, rolled) : r.in > 0}
  <2>1. late \in SUBSET Delayed /\ IsFiniteSet(late)
    BY ReadingsAre, FS_Subset
  <2>2. Loop!Hold(late)
    BY <1>1
  <2> HIDE DEF late
  <2>3. QED
    BY <2>1, <2>2, HoldKeeps
<1>7. Loop!TypeOK'
  BY <1>2, <1>6 DEF Loop!TypeOK, LoopTypes
<1>8. QED
  <2>1. replay' \in Replaying /\ replay'.rec = replay.rec /\ node' \in [Loop!Nodes -> Int]
    BY <1>2 DEF LoopTypes
  <2>2. QED
    BY <1>3, <1>4, <1>5, <1>6, <1>7, <2>1, CastStays

LEMMA NodesLate ==
    ASSUME SensibleLoop, LoopTypes, NEW S \in SUBSET Loop!Nodes, NEW late \in [Loop!Nodes -> Delays \cup {0}]
    PROVE  LET L == {[device |-> n, measurement |-> All, value |-> 0, broken |-> FALSE,
                      in |-> late[n], age |-> 0] : n \in S}
           IN  L \in SUBSET Delayed /\ IsFiniteSet(L)
<1> DEFINE f == [n \in S |-> [device |-> n, measurement |-> All, value |-> 0, broken |-> FALSE,
                              in |-> late[n], age |-> 0]]
           L == {f[n] : n \in S}
<1>1. ASSUME NEW n \in S PROVE f[n] \in Delayed
  <2>1. n \in Things
    BY DEF LoopTypes
  <2>2. late[n] \in Int
    BY DEF SensibleLoop
  <2>3. QED
    BY <2>1, <2>2 DEF Delayed, Loop!Keys
<1>2. IsFiniteSet(S)
  BY FS_Subset DEF LoopTypes
<1>3. L = {[device |-> n, measurement |-> All, value |-> 0, broken |-> FALSE,
                      in |-> late[n], age |-> 0] : n \in S}
  OBVIOUS
<1> HIDE DEF f
<1>4. QED
  BY <1>1, <1>2, <1>3, ImageIsFinite

LEMMA TickTypes ==
    ASSUME SensibleLoop, LoopTypes, Loop!TickNodes
    PROVE  /\ LoopTypes' /\ Loop!Devices' = Loop!Devices /\ Loop!Nodes' = Loop!Nodes
           /\ \A n \in Loop!Nodes : node'[n] >= 0
           /\ \A i \in 1..Len(held') : \/ held'[i].device \in Loop!Nodes /\ held'[i].in > 0
                                       \/ \E j \in 1..Len(held) : held'[i] = held[j]
<1>1. PICK nap \in [Loop!Nodes -> Naps], late \in [Loop!Nodes -> Delays \cup {0}] :
        /\ node' = [n \in Loop!Nodes |-> IF node[n] <= 0 THEN nap[n] ELSE node[n]]
        /\ Loop!Hold({[device |-> n, measurement |-> All, value |-> 0, broken |-> FALSE,
                  in |-> late[n], age |-> 0] : n \in {n \in Loop!Nodes : node[n] <= 0 /\ late[n] > 0}})
  BY DEF Loop!TickNodes
<1>2. node' \in [Loop!Nodes -> Int] /\ \A n \in Loop!Nodes : node'[n] >= 0
  <2>1. \A n \in Loop!Nodes : nap[n] \in Nat /\ node[n] \in Int
    BY DEF LoopTypes, SensibleLoop
  <2>2. QED
    BY <1>1, <2>1
<1> DEFINE S == {n \in Loop!Nodes : node[n] <= 0 /\ late[n] > 0}
           L == {[device |-> n, measurement |-> All, value |-> 0, broken |-> FALSE,
                  in |-> late[n], age |-> 0] : n \in S}
<1>3. L \in SUBSET Delayed /\ IsFiniteSet(L) /\ Loop!Hold(L)
  BY <1>1, NodesLate
<1>4. \A r \in L : r.device \in Loop!Nodes /\ r.in > 0
  OBVIOUS
<1> HIDE DEF L
<1>5. /\ held' \in Seq(Delayed) /\ Len(held') <= MaxHeld
      /\ \A i \in 1..Len(held') - 1 : held'[i].in <= held'[i + 1].in
      /\ \A i \in 1..Len(held') : held'[i] \in L \/ \E j \in 1..Len(held) : held'[i] = held[j]
  BY <1>3, HoldKeeps
<1>6. UNCHANGED <<due, silent, stuck, replay>> /\ pc' = "replay"
  BY DEF Loop!TickNodes
<1>7. Loop!TypeOK'
  BY <1>5, <1>6 DEF Loop!TypeOK, LoopTypes
<1>8. /\ due' \in [Loop!Devices -> Int] /\ \A d \in Loop!Devices : due'[d] <= Interval[d]
      /\ silent' \in [Loop!Devices -> [Loop!Keys -> [left : Nat, since : Nat]]]
      /\ stuck' \in [Loop!Devices -> [Measurements -> [value : Int, left : Nat]]]
      /\ replay' \in Replaying /\ replay'.rec = replay.rec
  BY <1>6 DEF LoopTypes
<1>9. LoopTypes' /\ Loop!Devices' = Loop!Devices /\ Loop!Nodes' = Loop!Nodes
  BY <1>2, <1>5, <1>7, <1>8, CastStays
<1>10. QED
  BY <1>2, <1>4, <1>5, <1>9

LEMMA PopTypes ==
    ASSUME SensibleLoop, LoopTypes, Loop!pop_due
    PROVE  LoopTypes' /\ Loop!Devices' = Loop!Devices /\ Loop!Nodes' = Loop!Nodes /\ replay'.next >= replay.next
<1>1. UNCHANGED <<pc, due, silent, stuck, held, node>> /\ ~Loop!Ended
  BY DEF Loop!pop_due
<1>2. /\ replay.rec \in Seq(Nat) /\ replay.index \in 1..Len(replay.rec) /\ replay.next \in Int
      /\ Len(replay.rec) \in Nat
  <2>1. replay.rec \in Seq(Nat) /\ replay.index \in 1..Len(replay.rec) + 1 /\ replay.next \in Int
    BY DEF LoopTypes, Loop!TypeOK, Replaying
  <2>2. Len(replay.rec) \in Nat
    BY <2>1, LenProperties
  <2>3. QED
    BY <1>1, <2>1, <2>2 DEF Loop!Ended
<1> DEFINE index == IF replay.index = Len(replay.rec) /\ replay.loop THEN 1 ELSE replay.index + 1
           next == replay.next + Loop!GapAfter(replay.index)
<1>3. replay' = [replay EXCEPT !.index = index, !.next = next]
  BY DEF Loop!pop_due
<1>4. Loop!GapAfter(replay.index) \in Nat
  BY <1>1, GapAfterIs
<1>5. index \in 1..Len(replay.rec) + 1 /\ next \in Int /\ next >= replay.next
  BY <1>2, <1>4
<1> HIDE DEF index, next
<1>6. replay' \in Replaying /\ replay'.rec = replay.rec /\ replay'.index = index /\ replay'.next = next
  <2>1. index \in Nat /\ next \in Int
    BY <1>2, <1>5
  <2>2. QED
    BY <1>3, <2>1 DEF LoopTypes, Replaying
<1>7. Loop!TypeOK'
  BY <1>1, <1>5, <1>6 DEF Loop!TypeOK, LoopTypes
<1>8. QED
  BY <1>1, <1>5, <1>6, <1>7, CastStays DEF LoopTypes

LEMMA HeldIs ==
    ASSUME LoopTypes
    PROVE  /\ Len(held) \in Nat /\ DOMAIN held = 1..Len(held)
           /\ \A i \in 1..Len(held) : held[i] \in Delayed
           /\ held # <<>> => 1 \in 1..Len(held)
BY LenProperties, ElementOfSeq, EmptySeq DEF LoopTypes

LEMMA PublishTypes ==
    ASSUME SensibleLoop, LoopTypes, Loop!PublishHeld
    PROVE  /\ LoopTypes' /\ Loop!Devices' = Loop!Devices /\ Loop!Nodes' = Loop!Nodes
           /\ \A i \in 1..Len(held') : i + 1 \in 1..Len(held) /\ held'[i] = held[i + 1]
<1>1. held # <<>> /\ held' = Tail(held) /\ UNCHANGED <<pc, due, silent, stuck, node, replay>>
  BY DEF Loop!PublishHeld, Loop!HeldDue
<1>2. /\ held' \in Seq(Delayed) /\ Len(held') = Len(held) - 1
      /\ \A i \in 1..Len(held') : held'[i] = held[i + 1]
  BY <1>1, HeadTailProperties DEF LoopTypes
<1>3. Len(held) \in Nat
  BY HeldIs
<1>4. \A i \in 1..Len(held') : i + 1 \in 1..Len(held)
  BY <1>2, <1>3
<1>5. Loop!TypeOK'
  <2>1. ASSUME NEW i \in 1..Len(held') - 1 PROVE held'[i].in <= held'[i + 1].in
    <3>1. i \in 1..Len(held') /\ i + 1 \in 1..Len(held') /\ i + 1 \in 1..Len(held) - 1
      BY <1>2, <1>3
    <3>2. held[i + 1].in <= held[(i + 1) + 1].in
      BY <3>1 DEF LoopTypes, Loop!TypeOK
    <3>3. QED
      BY <1>2, <3>1, <3>2
  <2>2. Len(held') <= MaxHeld
    BY <1>2, <1>3 DEF LoopTypes, Loop!TypeOK, SensibleLoop
  <2>3. pc' \in {"devices", "nodes", "replay", "held", "wait", "ended", "stopped"}
        /\ replay'.index \in 1..Len(replay'.rec) + 1
    BY <1>1 DEF LoopTypes, Loop!TypeOK
  <2>4. QED
    BY <2>1, <2>2, <2>3 DEF Loop!TypeOK
<1>6. LoopTypes' /\ Loop!Devices' = Loop!Devices /\ Loop!Nodes' = Loop!Nodes
  BY <1>1, <1>2, <1>5, CastStays DEF LoopTypes
<1>7. QED
  BY <1>2, <1>4, <1>6

LEMMA PassIs ==
    ASSUME SensibleLoop, LoopTypes, NEW passed \in Nat, Loop!Pass(passed), pc' = "devices"
    PROVE  /\ LoopTypes' /\ Loop!Devices' = Loop!Devices /\ Loop!Nodes' = Loop!Nodes
           /\ \A d \in Loop!Devices : due'[d] = due[d] - passed
           /\ \A n \in Loop!Nodes : node'[n] = node[n] - passed
           /\ Len(held') = Len(held)
           /\ \A i \in 1..Len(held) :
                /\ held'[i].device = held[i].device /\ held'[i].measurement = held[i].measurement
                /\ held'[i].in = held[i].in - passed /\ held'[i].age = held[i].age + passed
           /\ \A d \in Loop!Devices, m \in Loop!Keys :
                silent'[d][m].left > 0 => silent[d][m].left > 0
                                          /\ silent'[d][m].since = silent[d][m].since + passed
           /\ replay' = IF Loop!Ended THEN replay ELSE [replay EXCEPT !.next = @ - passed]
<1>1. /\ due' \in [Loop!Devices -> Int] /\ \A d \in Loop!Devices : due'[d] = due[d] - passed
      /\ node' \in [Loop!Nodes -> Int] /\ \A n \in Loop!Nodes : node'[n] = node[n] - passed
  <2>1. /\ \A d \in Loop!Devices : due[d] - passed \in Int
        /\ \A n \in Loop!Nodes : node[n] - passed \in Int
    BY DEF LoopTypes
  <2>2. /\ due' = [d \in Loop!Devices |-> due[d] - passed]
        /\ node' = [n \in Loop!Nodes |-> node[n] - passed]
    BY DEF Loop!Pass
  <2>3. QED
    BY <2>1, <2>2
<1>2. \A d \in Loop!Devices : due'[d] <= Interval[d]
  BY <1>1 DEF LoopTypes
<1>3. ASSUME NEW i \in 1..Len(held)
      PROVE  /\ held'[i] \in Delayed
             /\ held'[i].device = held[i].device /\ held'[i].measurement = held[i].measurement
             /\ held'[i].in = held[i].in - passed /\ held'[i].age = held[i].age + passed
  <2>1. held'[i] = [held[i] EXCEPT !.in = held[i].in - passed, !.age = held[i].age + passed]
    BY HeldIs DEF Loop!Pass
  <2>2. held[i] \in Delayed /\ held[i].in - passed \in Int /\ held[i].age + passed \in Nat
    BY HeldIs DEF Delayed
  <2>3. QED
    BY <2>1, <2>2 DEF Delayed
<1>4. held' \in Seq(Delayed) /\ Len(held') = Len(held)
  <2>1. held' \in [1..Len(held) -> Delayed]
    BY <1>3, HeldIs DEF Loop!Pass
  <2>2. held' \in Seq(Delayed) /\ DOMAIN held' = 1..Len(held)
    BY <2>1, HeldIs, SeqDef
  <2>3. QED
    BY <2>2, HeldIs, LenProperties
<1>5. ASSUME NEW left \in Nat
      PROVE  Loop!Left(left, passed) \in Nat /\ (Loop!Left(left, passed) > 0 => left > 0)
  BY DEF Loop!Left
<1>6. /\ silent' \in [Loop!Devices -> [Loop!Keys -> [left : Nat, since : Nat]]]
      /\ \A d \in Loop!Devices, m \in Loop!Keys :
            silent'[d][m].left > 0 => silent[d][m].left > 0
                                      /\ silent'[d][m].since = silent[d][m].since + passed
  <2>1. silent' = [d \in Loop!Devices |-> [m \in Loop!Keys |->
            [left |-> Loop!Left(silent[d][m].left, passed),
             since |-> IF Loop!Left(silent[d][m].left, passed) = 0 THEN 0 ELSE silent[d][m].since + passed]]]
    BY DEF Loop!Pass
  <2>2. \A d \in Loop!Devices, m \in Loop!Keys :
            /\ silent[d][m].left \in Nat /\ silent[d][m].since \in Nat
            /\ silent[d][m].since + passed \in Nat
    BY DEF LoopTypes
  <2>3. ASSUME NEW d \in Loop!Devices, NEW m \in Loop!Keys
        PROVE  /\ silent'[d][m] \in [left : Nat, since : Nat]
               /\ silent'[d][m].left > 0 => silent[d][m].left > 0
                                            /\ silent'[d][m].since = silent[d][m].since + passed
    BY <1>5, <2>1, <2>2
  <2>4. QED
    BY <2>1, <2>3
<1>7. stuck' \in [Loop!Devices -> [Measurements -> [value : Int, left : Nat]]]
  <2>1. stuck' = [d \in Loop!Devices |-> [m \in Measurements |->
            [value |-> IF Loop!Left(stuck[d][m].left, passed) = 0 THEN 0 ELSE stuck[d][m].value,
             left |-> Loop!Left(stuck[d][m].left, passed)]]]
    BY DEF Loop!Pass
  <2>2. \A d \in Loop!Devices, m \in Measurements : stuck[d][m].left \in Nat /\ stuck[d][m].value \in Int
    BY DEF LoopTypes
  <2>3. ASSUME NEW d \in Loop!Devices, NEW m \in Measurements
        PROVE  stuck'[d][m] \in [value : Int, left : Nat]
    BY <1>5, <2>1, <2>2
  <2>4. QED
    BY <2>1, <2>3
<1>8. /\ replay' = IF Loop!Ended THEN replay ELSE [replay EXCEPT !.next = @ - passed]
      /\ replay' \in Replaying /\ replay'.rec = replay.rec /\ replay'.index = replay.index
  <2>1. replay \in Replaying /\ replay.next - passed \in Int
    BY DEF LoopTypes, Replaying
  <2>2. replay' = IF Loop!Ended THEN replay ELSE [replay EXCEPT !.next = replay.next - passed]
    BY DEF Loop!Pass
  <2>3. CASE Loop!Ended
    BY <2>1, <2>2, <2>3
  <2>4. CASE ~Loop!Ended
    BY <2>1, <2>2, <2>4 DEF Replaying
  <2>5. QED
    BY <2>2, <2>3, <2>4
<1>9. Loop!TypeOK'
  <2>1. ASSUME NEW i \in 1..Len(held') - 1 PROVE held'[i].in <= held'[i + 1].in
    <3>1. i \in 1..Len(held) /\ i + 1 \in 1..Len(held) /\ i \in 1..Len(held) - 1
      BY <1>4, HeldIs
    <3>2. held[i].in <= held[i + 1].in /\ held[i].in \in Int /\ held[i + 1].in \in Int
      BY <3>1, HeldIs DEF LoopTypes, Loop!TypeOK, Delayed
    <3>3. held'[i].in = held[i].in - passed /\ held'[i + 1].in = held[i + 1].in - passed
      BY <1>3, <3>1
    <3>4. QED
      BY <3>2, <3>3
  <2>2. QED
    BY <1>4, <1>8, <2>1 DEF Loop!TypeOK, LoopTypes
<1>10. LoopTypes' /\ Loop!Devices' = Loop!Devices /\ Loop!Nodes' = Loop!Nodes
  BY <1>1, <1>2, <1>4, <1>6, <1>7, <1>8, <1>9, CastStays
<1>11. QED
  BY <1>1, <1>3, <1>4, <1>6, <1>8, <1>10

LEMMA OtherTypes ==
    ASSUME SensibleLoop, LoopTypes,
           \/ UNCHANGED Loop!vars \/ Loop!DevicesDone \/ Loop!NothingDue \/ Loop!HeldDone
           \/ Loop!Finish \/ Loop!Stop \/ Loop!Tell \/ Loop!Interrupt
    PROVE  /\ LoopTypes' /\ Loop!Devices' = Loop!Devices /\ Loop!Nodes' = Loop!Nodes
           /\ UNCHANGED <<due, silent, stuck, node, replay>> /\ held' \in {held, <<>>}
<1>1. /\ UNCHANGED <<due, silent, stuck, node, replay>> /\ held' \in {held, <<>>}
      /\ pc' \in {"devices", "nodes", "replay", "held", "wait", "ended", "stopped"}
  BY DEF Loop!vars, Loop!DevicesDone, Loop!NothingDue, Loop!HeldDone, Loop!Finish, Loop!Stop,
     Loop!Tell, Loop!Interrupt, LoopTypes, Loop!TypeOK
<1>2. <<>> \in Seq(Delayed) /\ Len(<<>>) = 0
  BY EmptySeq
<1>3. Loop!TypeOK' /\ held' \in Seq(Delayed)
  <2>1. CASE held' = held
    BY <1>1, <2>1 DEF Loop!TypeOK, LoopTypes
  <2>2. CASE held' = <<>>
    <3>1. 1..Len(held') - 1 = {} /\ Len(held') <= MaxHeld
      BY <1>2, <2>2 DEF SensibleLoop
    <3>2. QED
      BY <1>1, <1>2, <2>2, <3>1 DEF Loop!TypeOK, LoopTypes
  <2>3. QED
    BY <1>1, <2>1, <2>2
<1>4. QED
  BY <1>1, <1>3, CastStays DEF LoopTypes

-----------------------------------------------------------------------------
(* What a step leaves due lies ahead; before that, it is late by no more   *)
(* than a turn and a sleep.                                                *)
AtMost == Busy + Jitter

LoopOnTime ==
    /\ \A d \in Loop!Devices :
        due[d] >= -AtMost /\ (pc \in {"nodes", "replay", "held", "wait"} => due[d] > 0)
    /\ \A n \in Loop!Nodes : node[n] >= -AtMost /\ (pc \in {"replay", "held", "wait"} => node[n] >= 0)
    /\ \A i \in 1..Len(held) : held[i].in >= -AtMost
    /\ pc = "wait" /\ held # <<>> => held[1].in > 0
    /\ ~Loop!Ended => replay.next >= -AtMost /\ (pc \in {"held", "wait"} => replay.next > 0)

LEMMA FirstIsFirst ==
    ASSUME LoopTypes PROVE \A i \in 1..Len(held) : held[1].in <= held[i].in
<1> DEFINE S == {n \in Nat : n + 1 \in 1..Len(held) => held[1].in <= held[n + 1].in}
<1>1. Len(held) \in Nat /\ \A i \in 1..Len(held) : held[i].in \in Int
  BY HeldIs DEF Delayed
<1>2. 0 \in S
  BY <1>1
<1>3. ASSUME NEW n \in Nat, n \in S PROVE n + 1 \in S
  <2>1. ASSUME (n + 1) + 1 \in 1..Len(held) PROVE held[1].in <= held[(n + 1) + 1].in
    <3>1. n + 1 \in 1..Len(held) - 1 /\ n + 1 \in 1..Len(held) /\ 1 \in 1..Len(held)
      BY <1>1, <2>1
    <3>2. held[n + 1].in <= held[(n + 1) + 1].in
      BY <3>1 DEF LoopTypes, Loop!TypeOK
    <3>3. held[1].in <= held[n + 1].in
      BY <1>3, <3>1
    <3>4. held[1].in \in Int /\ held[n + 1].in \in Int /\ held[(n + 1) + 1].in \in Int
      BY <1>1, <2>1, <3>1
    <3>5. QED
      BY <3>2, <3>3, <3>4
  <2>2. n + 1 \in Nat
    OBVIOUS
  <2>3. QED
    BY <2>1, <2>2
<1>4. Nat \subseteq S
  <2> HIDE DEF S
  <2>1. QED
    BY <1>2, <1>3, SetInduction
<1>5. ASSUME NEW i \in 1..Len(held) PROVE held[1].in <= held[i].in
  <2>1. i - 1 \in Nat /\ (i - 1) + 1 = i
    BY <1>1
  <2>2. i - 1 \in S
    BY <1>4, <2>1
  <2>3. QED
    BY <2>1, <2>2
<1>6. QED
  BY <1>5

LEMMA SleepIsShort ==
    ASSUME SensibleLoop, LoopTypes, LoopOnTime, pc = "wait", Loop!times # {},
           NEW busy \in 0..Busy, NEW late \in 0..Jitter
    PROVE  /\ Loop!Max({Loop!Min(Loop!times), busy}) + late \in Nat
           /\ \A x \in Loop!times : x - (Loop!Max({Loop!Min(Loop!times), busy}) + late) >= -AtMost
<1>1. Loop!times \in SUBSET Nat
  <2>1. \A d \in Loop!Devices : due[d] \in Nat
    BY DEF LoopTypes, LoopOnTime
  <2>2. \A n \in Loop!Nodes : node[n] \in Nat
    BY DEF LoopTypes, LoopOnTime
  <2>3. held # <<>> => held[1].in \in Nat
    BY HeldIs DEF LoopOnTime, Delayed
  <2>4. ~Loop!Ended => replay.next \in Nat
    BY DEF LoopTypes, LoopOnTime, Replaying
  <2>5. QED
    BY <2>1, <2>2, <2>3, <2>4 DEF Loop!times
<1>2. Loop!Min(Loop!times) \in Nat /\ \A x \in Loop!times : x \in Nat /\ Loop!Min(Loop!times) <= x
  BY <1>1, MinOfNaturals
<1>3. /\ busy \in Nat /\ busy <= Busy /\ late \in Nat /\ late <= Jitter
      /\ Busy \in Int /\ Jitter \in Int
  BY DEF SensibleLoop
<1>4. Loop!Max({Loop!Min(Loop!times), busy}) \in {Loop!Min(Loop!times), busy}
  <2>1. Loop!Min(Loop!times) \in Int /\ busy \in Int
    BY <1>2, <1>3
  <2>2. QED
    BY <2>1, Pair
<1>5. QED
  BY <1>2, <1>3, <1>4 DEF AtMost

LEMMA LateIs == ASSUME SensibleLoop PROVE AtMost \in Nat
BY DEF SensibleLoop, AtMost

LEMMA WaitOnTime ==
    ASSUME SensibleLoop, LoopTypes, LoopOnTime, Loop!Wait
    PROVE  \E passed \in Nat :
            Loop!Pass(passed) /\ LoopTypes' /\ Loop!Devices' = Loop!Devices /\ Loop!Nodes' = Loop!Nodes
            /\ LoopOnTime'
<1>1. PICK busy \in 0..Busy, late \in 0..Jitter : Loop!Pass(Loop!Max({Loop!Min(Loop!times), busy}) + late)
  BY DEF Loop!Wait
<1>2. pc = "wait" /\ Loop!times # {} /\ pc' = "devices"
  BY DEF Loop!Wait
<1> DEFINE passed == Loop!Max({Loop!Min(Loop!times), busy}) + late
<1>3. passed \in Nat /\ \A x \in Loop!times : x - passed >= -AtMost
  BY <1>2, SleepIsShort
<1>4. Loop!Pass(passed)
  BY <1>1
<1> HIDE DEF passed
<1>5. /\ LoopTypes' /\ Loop!Devices' = Loop!Devices /\ Loop!Nodes' = Loop!Nodes
      /\ \A d \in Loop!Devices : due'[d] = due[d] - passed
      /\ \A n \in Loop!Nodes : node'[n] = node[n] - passed
      /\ Len(held') = Len(held)
      /\ \A i \in 1..Len(held) : held'[i].in = held[i].in - passed
      /\ replay' = IF Loop!Ended THEN replay ELSE [replay EXCEPT !.next = @ - passed]
  BY <1>2, <1>3, <1>4, PassIs
<1>6. \A d \in Loop!Devices : due'[d] >= -AtMost
  BY <1>3, <1>5 DEF Loop!times
<1>7. \A n \in Loop!Nodes : node'[n] >= -AtMost
  BY <1>3, <1>5 DEF Loop!times
<1>8. ASSUME NEW i \in 1..Len(held') PROVE held'[i].in >= -AtMost
  <2>1. i \in 1..Len(held) /\ held # <<>> /\ 1 \in 1..Len(held)
    BY <1>5, HeldIs
  <2>2. held[1].in \in Loop!times
    BY <2>1 DEF Loop!times
  <2>3. held[1].in - passed >= -AtMost /\ held[1].in <= held[i].in
    BY <1>3, <2>1, <2>2, FirstIsFirst
  <2>4. held[1].in \in Int /\ held[i].in \in Int /\ AtMost \in Int
    BY <2>1, HeldIs, LateIs DEF Delayed
  <2>5. held'[i].in = held[i].in - passed
    BY <1>5, <2>1
  <2>6. QED
    BY <1>3, <2>3, <2>4, <2>5
<1>9. ~Loop!Ended' => replay'.next >= -AtMost
  <2>1. CASE Loop!Ended
    BY <1>5, <2>1 DEF Loop!Ended
  <2>2. CASE ~Loop!Ended
    <3>1. replay.next \in Loop!times
      BY <2>2 DEF Loop!times
    <3>2. replay'.next = replay.next - passed
      BY <1>5, <2>2 DEF LoopTypes, Replaying
    <3>3. QED
      BY <1>3, <3>1, <3>2
  <2>3. QED
    BY <2>1, <2>2
<1>10. LoopOnTime'
  BY <1>2, <1>5, <1>6, <1>7, <1>8, <1>9 DEF LoopOnTime, AtMost
<1>11. QED
  BY <1>3, <1>4, <1>5, <1>10

LEMMA StepOnTime ==
    ASSUME SensibleLoop, LoopTypes, LoopOnTime, Loop!Turn \/ Loop!Tell \/ Loop!Interrupt \/ UNCHANGED Loop!vars
    PROVE  LoopTypes' /\ Loop!Devices' = Loop!Devices /\ Loop!Nodes' = Loop!Nodes /\ LoopOnTime'
<1>1. ASSUME NEW d \in Loop!Devices, Loop!SampleDevice(d)
      PROVE  LoopTypes' /\ Loop!Devices' = Loop!Devices /\ Loop!Nodes' = Loop!Nodes /\ LoopOnTime'
  <2>1. LoopTypes' /\ Loop!Devices' = Loop!Devices /\ Loop!Nodes' = Loop!Nodes
    BY <1>1, SampleTypes
  <2>2. pc = "devices" /\ UNCHANGED <<pc, node, replay>> /\ due' = [due EXCEPT ![d] = Interval[d]]
    BY <1>1 DEF Loop!SampleDevice
  <2>3. \A e \in Loop!Devices : due'[e] >= -AtMost
    BY <2>2, LateIs DEF LoopTypes, LoopOnTime
  <2>4. \A i \in 1..Len(held') : held'[i].in >= -AtMost
    <3>1. PICK rolled \in SUBSET Faults, sample \in [Measurements -> Samples] :
            Loop!Hold({r \in Loop!readings(d, sample, rolled) : r.in > 0})
      BY <1>1 DEF Loop!SampleDevice
    <3> DEFINE late == {r \in Loop!readings(d, sample, rolled) : r.in > 0}
    <3>2. late \in SUBSET Delayed /\ IsFiniteSet(late) /\ Loop!Hold(late)
      BY <3>1, ReadingsAre, FS_Subset
    <3>3. \A r \in late : r.in \in Nat
      BY ReadingsAre
    <3> HIDE DEF late
    <3>4. \A i \in 1..Len(held') : held'[i] \in late \/ \E j \in 1..Len(held) : held'[i] = held[j]
      BY <3>2, HoldKeeps
    <3>5. \A r \in late : r.in >= -AtMost
      BY <3>3, LateIs
    <3>6. QED
      BY <3>4, <3>5 DEF LoopOnTime
  <2>5. QED
    BY <2>1, <2>2, <2>3, <2>4 DEF LoopOnTime, Loop!Ended, AtMost
<1>2. CASE Loop!TickNodes
  <2>1. /\ LoopTypes' /\ Loop!Devices' = Loop!Devices /\ Loop!Nodes' = Loop!Nodes
        /\ \A n \in Loop!Nodes : node'[n] >= 0
        /\ \A i \in 1..Len(held') : \/ held'[i].device \in Loop!Nodes /\ held'[i].in > 0
                                    \/ \E j \in 1..Len(held) : held'[i] = held[j]
    BY <1>2, TickTypes
  <2>2. pc = "nodes" /\ pc' = "replay" /\ UNCHANGED <<due, replay>>
    BY <1>2 DEF Loop!TickNodes
  <2>3. \A n \in Loop!Nodes : node'[n] >= -AtMost
    BY <2>1, LateIs DEF LoopTypes
  <2>4. ASSUME NEW i \in 1..Len(held') PROVE held'[i].in >= -AtMost
    <3>1. CASE held'[i].in > 0
      <4>1. held' \in Seq(Delayed)
        BY <2>1 DEF LoopTypes
      <4>2. held'[i] \in Delayed
        BY <4>1, ElementOfSeq
      <4>3. held'[i].in \in Int
        BY <4>2 DEF Delayed
      <4>4. QED
        BY <3>1, <4>3, LateIs
    <3>2. QED
      BY <2>1, <3>1 DEF LoopOnTime
  <2>5. QED
    BY <2>1, <2>2, <2>3, <2>4 DEF LoopOnTime, Loop!Ended, AtMost
<1>3. CASE Loop!pop_due
  <2>1. LoopTypes' /\ Loop!Devices' = Loop!Devices /\ Loop!Nodes' = Loop!Nodes /\ replay'.next >= replay.next
    BY <1>3, PopTypes
  <2>2. pc = "replay" /\ UNCHANGED <<pc, due, held, node>> /\ ~Loop!Ended
    BY <1>3 DEF Loop!pop_due
  <2>3. replay'.next >= -AtMost
    BY <2>1, <2>2, LateIs DEF LoopOnTime, LoopTypes, Replaying
  <2>4. QED
    BY <2>1, <2>2, <2>3 DEF LoopOnTime, AtMost
<1>4. CASE Loop!PublishHeld
  <2>1. /\ LoopTypes' /\ Loop!Devices' = Loop!Devices /\ Loop!Nodes' = Loop!Nodes
        /\ \A i \in 1..Len(held') : i + 1 \in 1..Len(held) /\ held'[i] = held[i + 1]
    BY <1>4, PublishTypes
  <2>2. pc = "held" /\ UNCHANGED <<pc, due, node, replay>>
    BY <1>4 DEF Loop!PublishHeld
  <2>3. QED
    BY <2>1, <2>2 DEF LoopOnTime, Loop!Ended, AtMost
<1>5. CASE Loop!Wait
  BY <1>5, WaitOnTime
<1>6. ASSUME \/ UNCHANGED Loop!vars \/ Loop!DevicesDone \/ Loop!NothingDue \/ Loop!HeldDone
             \/ Loop!Finish \/ Loop!Stop \/ Loop!Tell \/ Loop!Interrupt
      PROVE  LoopTypes' /\ Loop!Devices' = Loop!Devices /\ Loop!Nodes' = Loop!Nodes /\ LoopOnTime'
  <2>1. /\ LoopTypes' /\ Loop!Devices' = Loop!Devices /\ Loop!Nodes' = Loop!Nodes
        /\ UNCHANGED <<due, silent, stuck, node, replay>> /\ held' \in {held, <<>>}
    BY <1>6, OtherTypes
  <2>2. \/ pc' = pc \/ pc' \in {"ended", "stopped"}
        \/ Loop!DevicesDone /\ pc' = "nodes"
        \/ Loop!NothingDue /\ pc' = "held"
        \/ Loop!HeldDone /\ pc = "held" /\ pc' = "wait" /\ held' = held
    BY <1>6 DEF Loop!vars, Loop!DevicesDone, Loop!NothingDue, Loop!HeldDone, Loop!Finish, Loop!Stop,
       Loop!Tell, Loop!Interrupt
  <2>3. \A d \in Loop!Devices :
            due[d] >= -AtMost /\ (pc' \in {"nodes", "replay", "held", "wait"} => due[d] > 0)
    BY <2>2 DEF LoopOnTime, Loop!DevicesDone, Loop!NothingDue
  <2>4. \A n \in Loop!Nodes : node[n] >= -AtMost /\ (pc' \in {"replay", "held", "wait"} => node[n] >= 0)
    BY <2>2 DEF LoopOnTime, Loop!DevicesDone, Loop!NothingDue
  <2>5. \A i \in 1..Len(held') : held'[i].in >= -AtMost
    <3>1. Len(<<>>) = 0
      OBVIOUS
    <3>2. QED
      BY <2>1, <3>1 DEF LoopOnTime
  <2>6. pc' = "wait" /\ held' # <<>> => held'[1].in > 0
    <3>1. pc' = "wait" /\ held' # <<>> /\ pc' = pc => held[1].in > 0 /\ held' = held
      BY <2>1 DEF LoopOnTime
    <3>2. Loop!HeldDone /\ held # <<>> => held[1].in > 0
      <4>1. held # <<>> => held[1].in \in Int
        BY HeldIs DEF Delayed
      <4>2. QED
        BY <4>1 DEF Loop!HeldDone, Loop!HeldDue
    <3>3. QED
      BY <2>1, <2>2, <3>1, <3>2
  <2>7. ~Loop!Ended => replay.next >= -AtMost /\ (pc' \in {"held", "wait"} => replay.next > 0)
    BY <2>2 DEF LoopOnTime, Loop!DevicesDone, Loop!NothingDue
  <2>8. Loop!Ended' = Loop!Ended /\ replay' = replay /\ due' = due /\ node' = node
    BY <2>1 DEF Loop!Ended
  <2>9. QED
    BY <2>1, <2>3, <2>4, <2>5, <2>6, <2>7, <2>8 DEF LoopOnTime, AtMost
<1>7. QED
  BY <1>1, <1>2, <1>3, <1>4, <1>5, <1>6 DEF Loop!Turn

LEMMA InitOnTime == ASSUME SensibleLoop, Loop!Init PROVE LoopOnTime
<1>1. PICK S \in Scenarios :
        /\ due = [d \in S.devices |-> 0] /\ node = [n \in S.nodes |-> 0]
        /\ replay = [rec |-> S.rec, speed |-> S.speed, loop |-> S.loop, index |-> 1, next |-> 0]
  BY DEF Loop!Init
<1>2. /\ \A d \in Loop!Devices : due[d] = 0
      /\ \A n \in Loop!Nodes : node[n] = 0
      /\ replay.next = 0
  BY <1>1 DEF Loop!Devices, Loop!Nodes
<1>3. pc = "devices" /\ Len(held) = 0
  BY DEF Loop!Init
<1>4. QED
  BY <1>2, <1>3, LateIs DEF LoopOnTime

LEMMA IsOnTime == ASSUME LoopTypes, LoopOnTime PROVE Loop!OnTime
BY HeldIs DEF LoopOnTime, Loop!OnTime, AtMost

(* sensor_sim.run(): the delayed readings come off the heap in the order   *)
(* they are due, and a looped recording keeps to its readings.             *)
THEOREM LoopTypeCorrect == ASSUME SensibleLoop PROVE Loop!Spec => []Loop!TypeOK
<1>1. Loop!Init => LoopTypes /\ LoopOnTime
  BY InitLoop, InitOnTime
<1>2. LoopTypes /\ LoopOnTime /\ [Loop!Next]_Loop!vars => LoopTypes' /\ LoopOnTime'
  BY StepOnTime DEF Loop!Next
<1>3. LoopTypes => Loop!TypeOK
  BY DEF LoopTypes
<1>4. QED
  BY <1>1, <1>2, <1>3, PTL DEF Loop!Spec

(* sensor_sim.run(): whatever is due, sampled, ticked, replayed or held    *)
(* back, is late by no more than a turn of the loop and a sleep.           *)
THEOREM LoopSleepsPastNothing == ASSUME SensibleLoop PROVE Loop!Spec => []Loop!OnTime
<1>1. Loop!Init => LoopTypes /\ LoopOnTime
  BY InitLoop, InitOnTime
<1>2. LoopTypes /\ LoopOnTime /\ [Loop!Next]_Loop!vars => LoopTypes' /\ LoopOnTime'
  BY StepOnTime DEF Loop!Next
<1>3. LoopTypes /\ LoopOnTime => Loop!OnTime
  BY IsOnTime
<1>4. QED
  BY <1>1, <1>2, <1>3, PTL DEF Loop!Spec

-----------------------------------------------------------------------------
(* A reading that is held back was taken in a round, and its device has    *)
(* fallen silent in a later one.                                           *)
LoopQuiet ==
    /\ Loop!SilenceHolds
    /\ \A i \in 1..Len(held) :
        LET r == held[i] IN
        r.device \in Loop!Devices =>
            /\ r.age >= Interval[r.device] - due[r.device]
            /\ Interval[r.device] > 0 =>
                \A m \in {All, r.measurement} :
                    silent[r.device][m].left > 0 => r.age > silent[r.device][m].since

(* What a round takes is of a measurement that is not silent after it. *)
LEMMA TakenIsHeard ==
    ASSUME LoopTypes, NEW d \in Loop!Devices, NEW rolled \in SUBSET Faults, NEW m \in Loop!Taken(d, rolled),
           silent' = [silent EXCEPT ![d] = Loop!Silences(d, rolled)]
    PROVE  \A k \in {All, m} : ~(silent'[d][k].left > 0)
<1>1. m \in Measurements /\ ~Loop!Dropped(d, All, rolled) /\ ~Loop!Dropped(d, m, rolled)
  BY DEF Loop!Taken
<1>2. All \in Loop!Keys /\ m \in Loop!Keys
  BY <1>1 DEF Loop!Keys
<1>3. silent'[d] = Loop!Silences(d, rolled)
  BY DEF LoopTypes
<1>4. ASSUME NEW k \in {All, m} PROVE Loop!Silences(d, rolled)[k] = silent[d][k] /\ ~Loop!IsSilent(d, k)
  BY <1>1, <1>2 DEF Loop!Dropped, Loop!Silences
<1>5. QED
  BY <1>3, <1>4 DEF Loop!IsSilent

(* A silence is an old one, or has just begun. *)
LEMMA SilencesAre ==
    ASSUME LoopTypes, NEW d \in Loop!Devices, NEW rolled \in SUBSET Faults, NEW m \in Loop!Keys
    PROVE  Loop!Silences(d, rolled)[m] = silent[d][m] \/ Loop!Silences(d, rolled)[m].since = 0
BY DEF Loop!Silences

LEMMA SampleQuiet ==
    ASSUME SensibleLoop, LoopTypes, LoopQuiet, NEW d \in Loop!Devices, Loop!SampleDevice(d)
    PROVE  LoopQuiet'
<1>1. PICK rolled \in SUBSET Faults, sample \in [Measurements -> Samples] :
        /\ out' = {r \in Loop!readings(d, sample, rolled) : r.in = 0}
        /\ Loop!Hold({r \in Loop!readings(d, sample, rolled) : r.in > 0})
        /\ silent' = [silent EXCEPT ![d] = Loop!Silences(d, rolled)]
  BY DEF Loop!SampleDevice
<1>2. due' = [due EXCEPT ![d] = Interval[d]] /\ due[d] <= 0
  BY DEF Loop!SampleDevice
<1>3. Loop!Devices' = Loop!Devices
  BY SampleTypes
<1>4. /\ \A r \in Loop!readings(d, sample, rolled) :
            r \in Delayed /\ r.device = d /\ r.age = 0 /\ r.measurement \in Loop!Taken(d, rolled)
      /\ IsFiniteSet(Loop!readings(d, sample, rolled))
  BY ReadingsAre
<1>5. ASSUME NEW r \in Loop!readings(d, sample, rolled), NEW m \in {All, r.measurement}
      PROVE  ~(silent'[r.device][m].left > 0)
  BY <1>1, <1>4, <1>5, TakenIsHeard
<1>6. Loop!SilenceHolds'
  BY <1>1, <1>5 DEF Loop!SilenceHolds, Loop!IsSilent
<1>7. \A i \in 1..Len(held') : held'[i] \in Loop!readings(d, sample, rolled)
                               \/ \E j \in 1..Len(held) : held'[i] = held[j]
  <2> DEFINE late == {r \in Loop!readings(d, sample, rolled) : r.in > 0}
  <2>1. late \in SUBSET Delayed /\ IsFiniteSet(late) /\ Loop!Hold(late)
    BY <1>1, <1>4, FS_Subset
  <2>2. late \subseteq Loop!readings(d, sample, rolled)
    OBVIOUS
  <2> HIDE DEF late
  <2>3. \A i \in 1..Len(held') : held'[i] \in late \/ \E j \in 1..Len(held) : held'[i] = held[j]
    BY <2>1, HoldKeeps
  <2>4. QED
    BY <2>2, <2>3
<1>8. ASSUME NEW i \in 1..Len(held'), held'[i].device \in Loop!Devices
      PROVE  /\ held'[i].age >= Interval[held'[i].device] - due'[held'[i].device]
             /\ Interval[held'[i].device] > 0 =>
                \A m \in {All, held'[i].measurement} :
                    silent'[held'[i].device][m].left > 0
                        => held'[i].age > silent'[held'[i].device][m].since
  <2>1. CASE held'[i] \in Loop!readings(d, sample, rolled)
    <3>1. held'[i].age = 0 /\ held'[i].device = d
      BY <1>4, <2>1
    <3>2. Interval[d] - due'[d] = 0
      BY <1>2 DEF LoopTypes
    <3>3. \A m \in {All, held'[i].measurement} : ~(silent'[held'[i].device][m].left > 0)
      BY <1>5, <2>1
    <3>4. QED
      BY <3>1, <3>2, <3>3
  <2>2. ASSUME NEW j \in 1..Len(held), held'[i] = held[j]
        PROVE  /\ held'[i].age >= Interval[held'[i].device] - due'[held'[i].device]
               /\ Interval[held'[i].device] > 0 =>
                  \A m \in {All, held'[i].measurement} :
                      silent'[held'[i].device][m].left > 0
                          => held'[i].age > silent'[held'[i].device][m].since
    <3> DEFINE r == held[j]
    <3>1. /\ r.device \in Loop!Devices /\ r.age >= Interval[r.device] - due[r.device]
          /\ Interval[r.device] > 0 =>
                \A m \in {All, r.measurement} :
                    silent[r.device][m].left > 0 => r.age > silent[r.device][m].since
      BY <1>8, <2>2 DEF LoopQuiet
    <3>2. r \in Delayed /\ r.age \in Nat /\ r.measurement \in Loop!Keys /\ All \in Loop!Keys
      BY HeldIs DEF Delayed, Loop!Keys
    <3>3. /\ \A e \in Loop!Devices : Interval[e] \in Nat /\ due[e] \in Int
      BY DEF LoopTypes
    <3> HIDE DEF r
    <3>4. r.age >= Interval[r.device] - due'[r.device]
      <4>1. CASE r.device = d
        BY <1>2, <3>1, <3>2, <3>3, <4>1 DEF LoopTypes
      <4>2. CASE r.device # d
        BY <1>2, <3>1, <4>2 DEF LoopTypes
      <4>3. QED
        BY <4>1, <4>2
    <3>5. ASSUME Interval[r.device] > 0, NEW m \in {All, r.measurement}, silent'[r.device][m].left > 0
          PROVE  r.age > silent'[r.device][m].since
      <4>1. m \in Loop!Keys
        BY <3>2, <3>5
      <4>2. CASE silent'[r.device][m] = silent[r.device][m]
        BY <3>1, <3>5, <4>2
      <4>3. CASE r.device = d /\ silent'[d][m].since = 0
        BY <1>2, <3>1, <3>2, <3>3, <3>5, <4>3
      <4>4. silent'[r.device][m] = silent[r.device][m] \/ (r.device = d /\ silent'[d][m].since = 0)
        <5>1. r.device = d => silent'[r.device] = Loop!Silences(d, rolled)
          BY <1>1, <3>1 DEF LoopTypes
        <5>2. r.device # d => silent'[r.device] = silent[r.device]
          BY <1>1, <3>1 DEF LoopTypes
        <5>3. QED
          BY <4>1, <5>1, <5>2, SilencesAre
      <4>5. QED
        BY <4>2, <4>3, <4>4
    <3>6. held'[i] = r
      BY <2>2 DEF r
    <3>7. QED
      BY <3>4, <3>5, <3>6
  <2>3. QED
    BY <1>7, <2>1, <2>2
<1>9. QED
  BY <1>3, <1>6, <1>8 DEF LoopQuiet

LEMMA QuietStays ==
    ASSUME LoopQuiet, Loop!Devices' = Loop!Devices, UNCHANGED <<due, silent>>, Loop!SilenceHolds',
           \A i \in 1..Len(held') : held'[i].device \notin Loop!Devices \/ \E j \in 1..Len(held) : held'[i] = held[j]
    PROVE  LoopQuiet'
BY DEF LoopQuiet

LEMMA NothingSaid == ASSUME out' = {} PROVE Loop!SilenceHolds'
BY DEF Loop!SilenceHolds

LEMMA WaitQuiet ==
    ASSUME SensibleLoop, LoopTypes, LoopOnTime, LoopQuiet, Loop!Wait PROVE LoopQuiet'
<1>1. pc' = "devices" /\ out' = {}
  BY DEF Loop!Wait
<1>2. PICK passed \in Nat : Loop!Pass(passed)
  BY WaitOnTime
<1>3. /\ Loop!Devices' = Loop!Devices
      /\ \A d \in Loop!Devices : due'[d] = due[d] - passed
      /\ Len(held') = Len(held)
      /\ \A i \in 1..Len(held) :
            /\ held'[i].device = held[i].device /\ held'[i].measurement = held[i].measurement
            /\ held'[i].age = held[i].age + passed
      /\ \A d \in Loop!Devices, m \in Loop!Keys :
            silent'[d][m].left > 0 => silent[d][m].left > 0
                                      /\ silent'[d][m].since = silent[d][m].since + passed
  BY <1>1, <1>2, PassIs
<1>4. ASSUME NEW i \in 1..Len(held), held[i].device \in Loop!Devices
      PROVE  /\ held'[i].age >= Interval[held'[i].device] - due'[held'[i].device]
             /\ Interval[held'[i].device] > 0 =>
                \A m \in {All, held'[i].measurement} :
                    silent'[held'[i].device][m].left > 0
                        => held'[i].age > silent'[held'[i].device][m].since
  <2> DEFINE r == held[i]
             d == held[i].device
  <2>1. /\ r.age >= Interval[d] - due[d]
        /\ Interval[d] > 0 => \A m \in {All, r.measurement} :
                silent[d][m].left > 0 => r.age > silent[d][m].since
    BY <1>4 DEF LoopQuiet
  <2>2. r.age \in Nat /\ r.measurement \in Loop!Keys /\ All \in Loop!Keys
    BY HeldIs DEF Delayed, Loop!Keys
  <2>3. Interval[d] \in Nat /\ due[d] \in Int /\ d \in Loop!Devices
        /\ \A m \in Loop!Keys : silent[d][m].since \in Nat
    BY <1>4 DEF LoopTypes
  <2>4. held'[i].device = d /\ held'[i].measurement = r.measurement /\ held'[i].age = r.age + passed
        /\ due'[d] = due[d] - passed
    BY <1>3, <1>4
  <2> HIDE DEF r, d
  <2>5. r.age + passed >= Interval[d] - (due[d] - passed)
    BY <2>1, <2>2, <2>3
  <2>6. ASSUME Interval[d] > 0, NEW m \in {All, r.measurement}, silent'[d][m].left > 0
        PROVE  r.age + passed > silent'[d][m].since
    <3>1. m \in Loop!Keys
      BY <2>2
    <3>2. silent[d][m].left > 0 /\ silent'[d][m].since = silent[d][m].since + passed
      BY <1>3, <2>3, <2>6, <3>1
    <3>3. r.age > silent[d][m].since
      BY <2>1, <2>6, <3>2
    <3>4. QED
      BY <2>2, <2>3, <3>1, <3>2, <3>3
  <2>7. QED
    BY <2>4, <2>5, <2>6
<1>5. Loop!SilenceHolds'
  BY <1>1, NothingSaid
<1>6. QED
  BY <1>3, <1>4, <1>5 DEF LoopQuiet

LEMMA StepQuiet ==
    ASSUME SensibleLoop, LoopTypes, LoopOnTime, LoopQuiet,
           Loop!Turn \/ Loop!Tell \/ Loop!Interrupt \/ UNCHANGED Loop!vars
    PROVE  LoopQuiet'
<1>1. ASSUME NEW d \in Loop!Devices, Loop!SampleDevice(d) PROVE LoopQuiet'
  BY <1>1, SampleQuiet
<1>2. CASE Loop!TickNodes
  <2>1. /\ Loop!Devices' = Loop!Devices
        /\ \A i \in 1..Len(held') : held'[i].device \in Loop!Nodes \/ \E j \in 1..Len(held) : held'[i] = held[j]
    BY <1>2, TickTypes
  <2>2. \A n \in Loop!Nodes : n \notin Loop!Devices
    BY DEF LoopTypes
  <2>3. UNCHANGED <<due, silent>> /\ out' = {}
    BY <1>2 DEF Loop!TickNodes
  <2>4. QED
    BY <2>1, <2>2, <2>3, NothingSaid, QuietStays
<1>3. CASE Loop!pop_due
  <2>1. Loop!Devices' = Loop!Devices /\ UNCHANGED <<due, silent, held>>
    BY <1>3, PopTypes DEF Loop!pop_due
  <2>2. \A r \in out' : r.device = 0
    BY <1>3 DEF Loop!pop_due
  <2>3. Loop!SilenceHolds'
    BY <2>1, <2>2 DEF Loop!SilenceHolds, LoopTypes
  <2>4. QED
    BY <2>1, <2>3, QuietStays
<1>4. CASE Loop!PublishHeld
  <2>1. /\ Loop!Devices' = Loop!Devices
        /\ \A i \in 1..Len(held') : \E j \in 1..Len(held) : held'[i] = held[j]
    BY <1>4, PublishTypes
  <2>2. UNCHANGED <<due, silent>> /\ out' = {held[1]} /\ pc = "held" /\ 1 \in 1..Len(held)
    BY <1>4, HeldIs DEF Loop!PublishHeld, Loop!HeldDue
  <2>3. ASSUME held[1].device \in Loop!Devices PROVE Interval[held[1].device] > 0
    <3>1. due[held[1].device] > 0
      BY <2>2, <2>3 DEF LoopOnTime
    <3>2. due[held[1].device] <= Interval[held[1].device] /\ due[held[1].device] \in Int
          /\ Interval[held[1].device] \in Int
      BY <2>3 DEF LoopTypes
    <3>3. QED
      BY <3>1, <3>2
  <2>4. ASSUME held[1].device \in Loop!Devices, NEW m \in {All, held[1].measurement}, Loop!IsSilent(held[1].device, m)
        PROVE  held[1].age > silent[held[1].device][m].since
    BY <2>2, <2>3, <2>4 DEF LoopQuiet, Loop!IsSilent
  <2>5. Loop!SilenceHolds'
    BY <2>1, <2>2, <2>4 DEF Loop!SilenceHolds, Loop!IsSilent
  <2>6. QED
    BY <2>1, <2>2, <2>5, QuietStays
<1>5. CASE Loop!Wait
  BY <1>5, WaitQuiet
<1>6. ASSUME \/ UNCHANGED Loop!vars \/ Loop!DevicesDone \/ Loop!NothingDue \/ Loop!HeldDone
             \/ Loop!Finish \/ Loop!Stop \/ Loop!Tell \/ Loop!Interrupt
      PROVE  LoopQuiet'
  <2>1. /\ Loop!Devices' = Loop!Devices /\ UNCHANGED <<due, silent>> /\ held' \in {held, <<>>}
    BY <1>6, OtherTypes
  <2>2. out' = out \/ out' = {}
    BY <1>6 DEF Loop!vars, Loop!DevicesDone, Loop!NothingDue, Loop!HeldDone, Loop!Finish, Loop!Stop,
       Loop!Tell, Loop!Interrupt
  <2>3. Loop!SilenceHolds'
    <3>1. CASE out' = out
      BY <2>1, <3>1 DEF LoopQuiet, Loop!SilenceHolds, Loop!IsSilent
    <3>2. QED
      BY <2>2, <3>1, NothingSaid
  <2>4. \A i \in 1..Len(held') : \E j \in 1..Len(held) : held'[i] = held[j]
    <3>1. Len(<<>>) = 0
      OBVIOUS
    <3>2. QED
      BY <2>1, <3>1
  <2>5. QED
    BY <2>1, <2>3, <2>4, QuietStays
<1>7. QED
  BY <1>1, <1>2, <1>3, <1>4, <1>5, <1>6 DEF Loop!Turn

(* faults.py: while a device or a measurement is silent, nothing is        *)
(* published of it but delayed readings that were taken before, whatever   *)
(* faults the rounds roll.                                                 *)
THEOREM LoopKeepsSilence == ASSUME SensibleLoop PROVE Loop!Spec => []Loop!SilenceHolds
<1>1. Loop!Init => LoopTypes /\ LoopOnTime /\ LoopQuiet
  <2>1. Loop!Init => Len(held) = 0 /\ out = {}
    BY DEF Loop!Init
  <2>2. Loop!Init => LoopQuiet
    BY <2>1 DEF LoopQuiet, Loop!SilenceHolds
  <2>3. QED
    BY <2>2, InitLoop, InitOnTime
<1>2. LoopTypes /\ LoopOnTime /\ LoopQuiet /\ [Loop!Next]_Loop!vars => LoopTypes' /\ LoopOnTime' /\ LoopQuiet'
  BY StepOnTime, StepQuiet DEF Loop!Next
<1>3. LoopQuiet => Loop!SilenceHolds
  BY DEF LoopQuiet
<1>4. QED
  BY <1>1, <1>2, <1>3, PTL DEF Loop!Spec

-----------------------------------------------------------------------------
(* sensor_sim.run(): the loop ends of itself only when no device, node,    *)
(* recording or delayed reading is left.                                   *)
THEOREM LoopEndsWhenDone == Loop!Spec => []Loop!EndsWhenDone
<1>1. Loop!Init => Loop!EndsWhenDone
  BY DEF Loop!Init, Loop!EndsWhenDone
<1>2. Loop!EndsWhenDone /\ [Loop!Next]_Loop!vars => Loop!EndsWhenDone'
  <2>1. CASE Loop!Finish
    <3>1. Loop!times = {} /\ UNCHANGED <<due, held, node, replay>>
      BY <2>1 DEF Loop!Finish
    <3>2. held = <<>> /\ Loop!Devices = {} /\ Loop!Nodes = {} /\ Loop!Ended
      BY <3>1 DEF Loop!times
    <3>3. QED
      BY <3>1, <3>2 DEF Loop!EndsWhenDone, Loop!Devices, Loop!Nodes, Loop!Ended
  <2>2. CASE UNCHANGED Loop!vars \/ Loop!Tell
    BY <2>2 DEF Loop!vars, Loop!Tell, Loop!EndsWhenDone, Loop!Devices, Loop!Nodes, Loop!Ended
  <2>3. ASSUME \/ \E d \in Loop!Devices : Loop!SampleDevice(d)
               \/ Loop!DevicesDone \/ Loop!TickNodes \/ Loop!pop_due \/ Loop!NothingDue
               \/ Loop!PublishHeld \/ Loop!HeldDone \/ Loop!Wait
               \/ Loop!Stop \/ Loop!Interrupt
        PROVE  pc' # "ended"
    BY <2>3 DEF Loop!SampleDevice, Loop!DevicesDone, Loop!TickNodes, Loop!pop_due, Loop!NothingDue,
       Loop!PublishHeld, Loop!HeldDone, Loop!Wait, Loop!Stop, Loop!Interrupt
  <2>4. ASSUME Loop!EndsWhenDone, [Loop!Next]_Loop!vars PROVE Loop!EndsWhenDone'
    BY <2>1, <2>2, <2>3, <2>4 DEF Loop!Next, Loop!Turn, Loop!EndsWhenDone
  <2>5. QED
    BY <2>4
<1>3. QED
  BY <1>1, <1>2, PTL DEF Loop!Spec

-----------------------------------------------------------------------------
(* What a board's services get together (Budget).                          *)

Chosen(s) == CHOOSE x \in s : TRUE

(* How MapThenSumSet adds up f: for each subset, an element and the rest.  *)
IsSum(sum, S, f) ==
    sum = [s \in SUBSET S |-> IF s = {} THEN 0 ELSE f[Chosen(s)] + sum[s \ {Chosen(s)}]]

LEMMA Smaller ==
    ASSUME NEW s, IsFiniteSet(s), NEW x \in s
    PROVE  /\ IsFiniteSet(s \ {x}) /\ Cardinality(s) \in Nat \ {0} /\ Cardinality(s \ {x}) \in Nat
           /\ Cardinality(s) = Cardinality(s \ {x}) + 1
<1>1. IsFiniteSet(s \ {x}) /\ Cardinality(s \ {x}) = Cardinality(s) - 1
  BY FS_RemoveElement
<1>2. Cardinality(s) \in Nat /\ Cardinality(s \ {x}) \in Nat
  BY <1>1, FS_CardinalityType
<1>3. QED
  BY <1>1, <1>2

LEMMA OneLess ==
    ASSUME NEW s, IsFiniteSet(s), NEW n \in Nat, Cardinality(s) = n + 1
    PROVE  s # {} /\ \A x \in s : Cardinality(s \ {x}) = n
<1>1. Cardinality({}) = 0
  BY FS_EmptySet
<1>2. ASSUME NEW x \in s PROVE Cardinality(s \ {x}) = n
  <2>1. Cardinality(s) = Cardinality(s \ {x}) + 1 /\ Cardinality(s \ {x}) \in Nat
    BY Smaller
  <2>2. QED
    BY <2>1
<1>3. QED
  BY <1>1, <1>2

LEMMA SumsExist == ASSUME NEW S, IsFiniteSet(S), NEW f PROVE \E sum : IsSum(sum, S, f)
<1> DEFINE Upto(n) == {s \in SUBSET S : Cardinality(s) <= n}
           Sums(sum, n) == sum = [s \in Upto(n) |-> IF s = {} THEN 0 ELSE f[Chosen(s)] + sum[s \ {Chosen(s)}]]
           I == {n \in Nat : \E sum : Sums(sum, n)}
<1>1. \A s \in SUBSET S : IsFiniteSet(s) /\ Cardinality(s) \in Nat /\ (s # {} => Chosen(s) \in s)
  BY FS_Subset, FS_CardinalityType DEF Chosen
<1>2. 0 \in I
  <2>1. \A s \in Upto(0) : s = {}
    BY <1>1, FS_EmptySet
  <2>2. Sums([s \in Upto(0) |-> 0], 0)
    BY <2>1
  <2>3. QED
    BY <2>2
<1>3. ASSUME NEW n \in Nat, n \in I PROVE n + 1 \in I
  <2>1. PICK sum : Sums(sum, n)
    BY <1>3
  <2> DEFINE more == [s \in Upto(n + 1) |-> IF s = {} THEN 0 ELSE f[Chosen(s)] + sum[s \ {Chosen(s)}]]
  <2>2. \A s \in Upto(n) : s \in Upto(n + 1) /\ more[s] = sum[s]
    <3>1. Upto(n) \subseteq Upto(n + 1)
      BY <1>1
    <3>2. QED
      BY <2>1, <3>1
  <2>3. ASSUME NEW s \in Upto(n + 1), s # {} PROVE s \ {Chosen(s)} \in Upto(n)
    <3>1. s \in SUBSET S /\ s \ {Chosen(s)} \in SUBSET S /\ Chosen(s) \in s /\ IsFiniteSet(s)
      BY <1>1, <2>3
    <3>2. Cardinality(s) = Cardinality(s \ {Chosen(s)}) + 1 /\ Cardinality(s \ {Chosen(s)}) \in Nat
      BY <3>1, Smaller
    <3>3. Cardinality(s \ {Chosen(s)}) <= n
      BY <2>3, <3>2
    <3>4. QED
      BY <3>1, <3>3
  <2>4. Sums(more, n + 1)
    <3>1. ASSUME NEW s \in Upto(n + 1)
          PROVE  more[s] = IF s = {} THEN 0 ELSE f[Chosen(s)] + more[s \ {Chosen(s)}]
      <4>1. more[s] = IF s = {} THEN 0 ELSE f[Chosen(s)] + sum[s \ {Chosen(s)}]
        OBVIOUS
      <4> HIDE DEF more, Upto
      <4>2. s # {} => more[s \ {Chosen(s)}] = sum[s \ {Chosen(s)}]
        BY <2>2, <2>3
      <4>3. QED
        BY <4>1, <4>2
    <3>2. more = [s \in Upto(n + 1) |-> more[s]]
      OBVIOUS
    <3> HIDE DEF Upto, more
    <3>3. QED
      BY <3>1, <3>2
  <2> HIDE DEF more, Sums
  <2>5. QED
    BY <1>3, <2>4
<1>4. Cardinality(S) \in I
  <2> HIDE DEF I
  <2>1. QED
    BY <1>1, <1>2, <1>3, SetInduction
<1>5. PICK sum : Sums(sum, Cardinality(S))
  BY <1>4
<1>6. Upto(Cardinality(S)) = SUBSET S
  BY <1>1, FS_Subset
<1>7. QED
  BY <1>5, <1>6 DEF IsSum

(* The order in which elements are taken does not matter. *)
AddsUp(sum, S, f) ==
    /\ sum[{}] = 0
    /\ \A s \in SUBSET S : sum[s] \in Nat /\ \A x \in s : sum[s] = f[x] + sum[s \ {x}]

LEMMA Adds ==
    ASSUME NEW S, IsFiniteSet(S), NEW f, \A x \in S : f[x] \in Nat, NEW sum, IsSum(sum, S, f)
    PROVE  AddsUp(sum, S, f)
<1> DEFINE Good(s) == sum[s] \in Nat /\ \A x \in s : sum[s] = f[x] + sum[s \ {x}]
           I == {n \in Nat : \A s \in SUBSET S : Cardinality(s) <= n => Good(s)}
<1>1. \A s \in SUBSET S : IsFiniteSet(s) /\ Cardinality(s) \in Nat /\ (s # {} => Chosen(s) \in s)
  BY FS_Subset, FS_CardinalityType DEF Chosen
<1>2. sum[{}] = 0 /\ \A s \in SUBSET S : s # {} => sum[s] = f[Chosen(s)] + sum[s \ {Chosen(s)}]
  BY DEF IsSum
<1>3. 0 \in I
  <2>1. \A s \in SUBSET S : Cardinality(s) <= 0 => s = {}
    BY <1>1, FS_EmptySet
  <2>2. Good({})
    BY <1>2
  <2> HIDE DEF Good
  <2>3. QED
    BY <2>1, <2>2
<1>4. ASSUME NEW n \in Nat, n \in I PROVE n + 1 \in I
  <2>1. ASSUME NEW s \in SUBSET S, Cardinality(s) <= n + 1, s # {} PROVE Good(s)
    <3> DEFINE a == Chosen(s)
    <3>1. a \in s /\ sum[s] = f[a] + sum[s \ {a}] /\ f[a] \in Nat
      BY <1>1, <1>2, <2>1
    <3> HIDE DEF a
    <3>2. ASSUME NEW x \in s PROVE Good(s \ {x}) /\ s \ {x} \in SUBSET S
      <4>1. Cardinality(s) = Cardinality(s \ {x}) + 1 /\ Cardinality(s \ {x}) \in Nat
        BY <1>1, Smaller
      <4>2. s \ {x} \in SUBSET S /\ Cardinality(s \ {x}) <= n
        BY <2>1, <4>1
      <4>3. QED
        BY <1>4, <4>2
    <3>3. sum[s] \in Nat
      <4>1. sum[s \ {a}] \in Nat
        BY <3>1, <3>2
      <4>2. QED
        BY <3>1, <4>1
    <3>4. ASSUME NEW x \in s, x # a PROVE sum[s] = f[x] + sum[s \ {x}]
      <4>1. sum[s \ {a}] = f[x] + sum[(s \ {a}) \ {x}]
        BY <3>1, <3>2, <3>4
      <4>2. sum[s \ {x}] = f[a] + sum[(s \ {x}) \ {a}]
        BY <3>1, <3>2, <3>4
      <4>3. (s \ {a}) \ {x} = (s \ {x}) \ {a}
        OBVIOUS
      <4>4. PICK y \in Nat : y = sum[(s \ {a}) \ {x}]
        <5>1. (s \ {a}) \ {x} \in SUBSET S
          OBVIOUS
        <5>2. Cardinality((s \ {a}) \ {x}) <= n
          <6>1. IsFiniteSet(s \ {a}) /\ Cardinality(s) = Cardinality(s \ {a}) + 1 /\ Cardinality(s \ {a}) \in Nat
            BY <1>1, <3>1, Smaller
          <6>2. x \in s \ {a}
            BY <3>4
          <6>3. Cardinality(s \ {a}) = Cardinality((s \ {a}) \ {x}) + 1 /\ Cardinality((s \ {a}) \ {x}) \in Nat
            BY <6>1, <6>2, Smaller
          <6>4. QED
            BY <2>1, <6>1, <6>3
        <5>3. QED
          BY <1>4, <5>1, <5>2
      <4>5. f[x] \in Nat /\ f[a] \in Nat
        BY <3>1
      <4>6. sum[s \ {x}] = f[a] + y /\ sum[s \ {a}] = f[x] + y
        BY <4>1, <4>2, <4>3, <4>4
      <4>7. QED
        BY <3>1, <4>5, <4>6
    <3>5. QED
      BY <3>1, <3>3, <3>4
  <2>2. Good({})
    BY <1>2
  <2> HIDE DEF Good
  <2>3. QED
    BY <2>1, <2>2
<1>5. Nat \subseteq I
  <2> HIDE DEF I
  <2>1. QED
    BY <1>3, <1>4, SetInduction
<1>6. \A s \in SUBSET S : Good(s)
  <2> HIDE DEF Good
  <2>1. \A s \in SUBSET S : Cardinality(s) \in I
    BY <1>1, <1>5
  <2>2. QED
    BY <1>1, <2>1
<1>7. QED
  BY <1>2, <1>6 DEF AddsUp

LEMMA SumIs ==
    ASSUME NEW lims, NEW field, NEW S, S = DOMAIN lims, IsFiniteSet(S),
           NEW f, \A x \in S : f[x] = lims[x][field]
    PROVE  \E sum : IsSum(sum, S, f) /\ SumOf(lims, field) = sum[S]
<1> DEFINE As(sum) == sum = [s \in SUBSET S |->
                            IF s = {} THEN 0 ELSE lims[Chosen(s)][field] + sum[s \ {Chosen(s)}]]
<1>1. \A s \in SUBSET S : s # {} => Chosen(s) \in s
  BY DEF Chosen
<1>2. PICK sum : IsSum(sum, S, f)
  BY SumsExist
<1>3. \A s \in SUBSET S : s # {} => f[Chosen(s)] = lims[Chosen(s)][field]
  BY <1>1
<1>4. \A it : As(it) <=> IsSum(it, S, f)
  BY <1>3 DEF IsSum
<1>5. SumOf(lims, field) = (CHOOSE it : As(it))[S]
  BY DEF SumOf, MapThenSumSet, MapThenFoldSet, Chosen
<1>6. As(CHOOSE it : As(it))
  <2> HIDE DEF As
  <2>1. QED
    BY <1>2, <1>4
<1> HIDE DEF As
<1>7. QED
  BY <1>4, <1>5, <1>6

LEMMA TotalIs ==
    ASSUME NEW shares, NEW field, NEW fixed, NEW S, IsFiniteSet(S),
           \A x : x \in S <=> x \in DOMAIN shares /\ shares[x].fixed = fixed,
           NEW f, \A x \in S : f[x] = shares[x][field]
    PROVE  \E sum : IsSum(sum, S, f) /\ Total(shares, field, fixed) = sum[S]
<1> DEFINE As(sum) == sum = [s \in SUBSET S |->
                            IF s = {} THEN 0 ELSE shares[Chosen(s)][field] + sum[s \ {Chosen(s)}]]
<1>1. \A s \in SUBSET S : s # {} => Chosen(s) \in s
  BY DEF Chosen
<1>2. PICK sum : IsSum(sum, S, f)
  BY SumsExist
<1>3. \A s \in SUBSET S : s # {} => f[Chosen(s)] = shares[Chosen(s)][field]
  BY <1>1
<1>4. \A it : As(it) <=> IsSum(it, S, f)
  BY <1>3 DEF IsSum
<1>5. Total(shares, field, fixed) = (CHOOSE it : As(it))[S]
  <2>1. {x \in DOMAIN shares : shares[x].fixed = fixed} = S
    OBVIOUS
  <2>2. QED
    BY <2>1 DEF Total, MapThenSumSet, MapThenFoldSet, Chosen
<1>6. As(CHOOSE it : As(it))
  <2> HIDE DEF As
  <2>1. QED
    BY <1>2, <1>4
<1> HIDE DEF As
<1>7. QED
  BY <1>4, <1>5, <1>6

LEMMA Grows ==
    ASSUME NEW S, IsFiniteSet(S), NEW f, \A x \in S : f[x] \in Nat,
           NEW sum, IsSum(sum, S, f), NEW s \in SUBSET S
    PROVE  sum[s] <= sum[S]
<1> DEFINE I == {n \in Nat : \A t \in SUBSET S : Cardinality(t) = n => sum[S \ t] <= sum[S]}
<1>1. \A t \in SUBSET S : IsFiniteSet(t) /\ Cardinality(t) \in Nat /\ sum[t] \in Nat
  <2>1. AddsUp(sum, S, f)
    BY Adds
  <2>2. QED
    BY <2>1, FS_Subset, FS_CardinalityType DEF AddsUp
<1>2. 0 \in I
  <2>1. \A t \in SUBSET S : Cardinality(t) = 0 => S \ t = S
    BY <1>1, FS_EmptySet
  <2>2. sum[S] <= sum[S]
    BY <1>1
  <2>3. QED
    BY <2>1, <2>2
<1>3. ASSUME NEW n \in Nat, n \in I PROVE n + 1 \in I
  <2>1. ASSUME NEW t \in SUBSET S, Cardinality(t) = n + 1 PROVE sum[S \ t] <= sum[S]
    <3>1. PICK x \in t : TRUE
      BY <2>1, FS_EmptySet
    <3>2. Cardinality(t \ {x}) = n /\ t \ {x} \in SUBSET S
      BY <1>1, <2>1, <3>1, Smaller
    <3>3. sum[S \ (t \ {x})] <= sum[S]
      BY <1>3, <3>2
    <3>4. (S \ (t \ {x})) \ {x} = S \ t /\ x \in S \ (t \ {x}) /\ S \ (t \ {x}) \in SUBSET S /\ S \ t \in SUBSET S
      BY <3>1
    <3>5. sum[S \ (t \ {x})] = f[x] + sum[S \ t]
      <4>1. AddsUp(sum, S, f)
        BY Adds
      <4>2. PICK w \in SUBSET S : w = S \ (t \ {x})
        OBVIOUS
      <4>3. x \in w
        BY <3>4, <4>2
      <4>4. sum[w] = f[x] + sum[w \ {x}]
        BY <4>1, <4>3 DEF AddsUp
      <4>5. QED
        BY <3>4, <4>2, <4>4
    <3>6. f[x] \in Nat /\ sum[S \ t] \in Nat /\ sum[S \ (t \ {x})] \in Nat /\ sum[S] \in Nat
      BY <1>1, <3>1, <3>4
    <3>7. QED
      BY <3>3, <3>5, <3>6
  <2>2. n + 1 \in Nat
    OBVIOUS
  <2>3. \A t \in SUBSET S : Cardinality(t) = n + 1 => sum[S \ t] <= sum[S]
    BY <2>1, Zenon
  <2>4. QED
    BY <2>2, <2>3
<1>4. Cardinality(S \ s) \in I
  <2> HIDE DEF I
  <2>1. QED
    BY <1>1, <1>2, <1>3, SetInduction
<1>5. S \ (S \ s) = s /\ S \ s \in SUBSET S
  OBVIOUS
<1>6. QED
  BY <1>4, <1>5

LEMMA Step ==
    ASSUME NEW K \in Nat, NEW m \in Nat, NEW u \in Nat, NEW v \in Nat, NEW r \in Nat,
           NEW a \in Nat, NEW h \in Nat, NEW A \in Nat, NEW B \in Nat, NEW c \in Nat, NEW S \in Nat,
           K * S <= m * (u * A + v * B) + (K * r) * c
    PROVE  /\ K * a <= m * (u * h) => K * (a + S) <= m * (u * (h + A) + v * B) + (K * r) * c
           /\ K * a <= m * (v * h) => K * (a + S) <= m * (u * A + v * (h + B)) + (K * r) * c
           /\ K * a <= m * (u * h) + K * r => K * (a + S) <= m * (u * (h + A) + v * B) + (K * r) * (c + 1)
           /\ K * a <= m * (v * h) + K * r => K * (a + S) <= m * (u * A + v * (h + B)) + (K * r) * (c + 1)
<1>1. K * (a + S) = K * a + K * S
  OBVIOUS
<1>2. m * (u * (h + A) + v * B) = m * (u * h) + m * (u * A + v * B)
  OBVIOUS
<1>3. m * (u * A + v * (h + B)) = m * (v * h) + m * (u * A + v * B)
  OBVIOUS
<1>4. (K * r) * (c + 1) = (K * r) * c + K * r
  OBVIOUS
<1> DEFINE x1 == K * (a + S)
           x2 == K * a
           x3 == K * S
           x4 == m * (u * (h + A) + v * B)
           x5 == m * (u * A + v * (h + B))
           x6 == m * (u * h)
           x7 == m * (v * h)
           x8 == m * (u * A + v * B)
           x9 == (K * r) * c
           y1 == (K * r) * (c + 1)
           y2 == K * r
<1>5. x1 \in Nat /\ x2 \in Nat /\ x3 \in Nat /\ x4 \in Nat /\ x5 \in Nat /\ x6 \in Nat /\ x7 \in Nat
      /\ x8 \in Nat /\ x9 \in Nat /\ y1 \in Nat /\ y2 \in Nat
  OBVIOUS
<1>6. x1 = x2 + x3 /\ x4 = x6 + x8 /\ x5 = x7 + x8 /\ y1 = x9 + y2 /\ x3 <= x8 + x9
  BY <1>1, <1>2, <1>3, <1>4
<1> HIDE DEF x1, x2, x3, x4, x5, x6, x7, x8, x9, y1, y2
<1>7. /\ x2 <= x6 => x1 <= x4 + x9
      /\ x2 <= x7 => x1 <= x5 + x9
      /\ x2 <= x6 + y2 => x1 <= x4 + y1
      /\ x2 <= x7 + y2 => x1 <= x5 + y1
  BY <1>5, <1>6
<1>8. QED
  BY <1>7 DEF x1, x2, x3, x4, x5, x6, x7, x8, x9, y1, y2

(* Who gets at most a share of m, scaled by u / v unless it is fixed, or r *)
(* more, gets at most m together, and r more for each of them.             *)
LEMMA Shared ==
    ASSUME NEW Y, IsFiniteSet(Y), NEW X \in SUBSET Y, NEW F \in SUBSET Y, NEW M \in SUBSET X,
           NEW sh, \A x \in Y : sh[x] \in Nat, NEW f, \A x \in X : f[x] \in Nat, NEW sum, IsSum(sum, X, f),
           NEW free, IsSum(free, Y \ F, sh), NEW fixed, IsSum(fixed, F, sh),
           NEW m \in Nat, NEW u \in Nat, NEW v \in Nat \ {0}, NEW r \in Nat,
           u * free[Y \ F] + v * fixed[F] <= 100 * v,
           \A x \in X : (100 * v) * f[x] <= m * ((IF x \in F THEN v ELSE u) * sh[x])
                                                + (IF x \in M THEN (100 * v) * r ELSE 0)
    PROVE  sum[X] <= m + r * Cardinality(M)
<1> DEFINE K == 100 * v
           Bound(s) == K * sum[s] <= m * (u * free[s \ F] + v * fixed[s \cap F]) + (K * r) * Cardinality(s \cap M)
           I == {n \in Nat : \A s \in SUBSET X : Cardinality(s) = n => Bound(s)}
<1>1. IsFiniteSet(X) /\ IsFiniteSet(F) /\ IsFiniteSet(Y \ F) /\ IsFiniteSet(M)
  BY FS_Subset
<1>2. (\A x \in F : sh[x] \in Nat) /\ (\A x \in Y \ F : sh[x] \in Nat)
  OBVIOUS
<1>3. /\ sum[{}] = 0
      /\ \A s \in SUBSET X : sum[s] \in Nat /\ \A x \in s : sum[s] = f[x] + sum[s \ {x}]
  <2>1. AddsUp(sum, X, f)
    BY <1>1, Adds
  <2>2. QED
    BY <2>1 DEF AddsUp
<1>4. /\ free[{}] = 0
      /\ \A s \in SUBSET (Y \ F) : free[s] \in Nat /\ \A x \in s : free[s] = sh[x] + free[s \ {x}]
  <2>1. AddsUp(free, Y \ F, sh)
    BY <1>1, <1>2, Adds
  <2>2. QED
    BY <2>1 DEF AddsUp
<1>5. /\ fixed[{}] = 0
      /\ \A s \in SUBSET F : fixed[s] \in Nat /\ \A x \in s : fixed[s] = sh[x] + fixed[s \ {x}]
  <2>1. AddsUp(fixed, F, sh)
    BY <1>1, <1>2, Adds
  <2>2. QED
    BY <2>1 DEF AddsUp
<1>6. \A s \in SUBSET X : IsFiniteSet(s) /\ Cardinality(s) \in Nat
                          /\ IsFiniteSet(s \cap M) /\ Cardinality(s \cap M) \in Nat
  <2>1. \A s \in SUBSET X : s \cap M \in SUBSET M
    OBVIOUS
  <2>2. QED
    BY <1>1, <2>1, FS_Subset, FS_CardinalityType
<1> K \in Nat /\ K > 0
  OBVIOUS
<1> HIDE DEF K
<1>7. 0 \in I
  <2>1. \A s \in SUBSET X : Cardinality(s) = 0 => s = {}
    BY <1>6, FS_EmptySet
  <2>2. {} \ F = {} /\ {} \cap F = {} /\ {} \cap M = {}
    OBVIOUS
  <2>3. Cardinality({}) = 0
    BY FS_EmptySet
  <2>4. K * 0 <= m * (u * 0 + v * 0) + (K * r) * 0
    OBVIOUS
  <2>5. Bound({})
    BY <1>3, <1>4, <1>5, <2>2, <2>3, <2>4
  <2> HIDE DEF Bound
  <2>6. QED
    BY <2>1, <2>5
<1>8. ASSUME NEW n \in Nat, n \in I PROVE n + 1 \in I
  <2>1. ASSUME NEW s \in SUBSET X, Cardinality(s) = n + 1 PROVE Bound(s)
    <3>1. PICK x \in s : TRUE
      <4>1. IsFiniteSet(s) /\ n \in Nat
        BY <1>6
      <4>2. s # {}
        BY <2>1, <4>1, OneLess
      <4>3. QED
        BY <4>2
    <3>2. PICK t \in SUBSET X : t = s \ {x}
      OBVIOUS
    <3>3. Cardinality(t) = n
      BY <1>6, <2>1, <3>1, <3>2, OneLess
    <3>4. Bound(t)
      BY <1>8, <3>3
    <3>5. PICK a \in Nat, h \in Nat, A \in Nat, B \in Nat, c \in Nat, S \in Nat :
              a = f[x] /\ h = sh[x] /\ A = free[t \ F] /\ B = fixed[t \cap F]
              /\ c = Cardinality(t \cap M) /\ S = sum[t]
      <4>1. f[x] \in Nat /\ sh[x] \in Nat
        BY <3>1
      <4>2. free[t \ F] \in Nat /\ fixed[t \cap F] \in Nat
        <5>1. t \ F \in SUBSET (Y \ F) /\ t \cap F \in SUBSET F
          OBVIOUS
        <5>2. QED
          BY <1>4, <1>5, <5>1
      <4>3. Cardinality(t \cap M) \in Nat /\ sum[t] \in Nat
        BY <1>3, <1>6
      <4>4. QED
        BY <4>1, <4>2, <4>3
    <3>6. K * S <= m * (u * A + v * B) + (K * r) * c
      BY <3>4, <3>5
    <3>7. sum[s] = a + S
      BY <1>3, <3>1, <3>2, <3>5
    <3>8. IF x \in F THEN free[s \ F] = A /\ fixed[s \cap F] = h + B
          ELSE free[s \ F] = h + A /\ fixed[s \cap F] = B
      <4>1. CASE x \in F
        <5>1. s \ F = t \ F /\ s \cap F \in SUBSET F /\ x \in s \cap F /\ (s \cap F) \ {x} = t \cap F
          BY <3>1, <3>2, <4>1
        <5>2. QED
          BY <1>5, <3>5, <4>1, <5>1
      <4>2. CASE x \notin F
        <5>1. s \cap F = t \cap F /\ s \ F \in SUBSET (Y \ F) /\ x \in s \ F /\ (s \ F) \ {x} = t \ F
          BY <3>1, <3>2, <4>2
        <5>2. QED
          BY <1>4, <3>5, <4>2, <5>1
      <4>3. QED
        BY <4>1, <4>2
    <3>9. Cardinality(s \cap M) = IF x \in M THEN c + 1 ELSE c
      <4>1. CASE x \in M
        <5>1. x \in s \cap M /\ (s \cap M) \ {x} = t \cap M
          BY <3>1, <3>2, <4>1
        <5>2. Cardinality(s \cap M) = Cardinality((s \cap M) \ {x}) + 1
          BY <1>6, <5>1, Smaller
        <5>3. QED
          BY <3>5, <4>1, <5>1, <5>2
      <4>2. CASE x \notin M
        <5>1. s \cap M = t \cap M
          BY <3>1, <3>2, <4>2
        <5>2. QED
          BY <3>5, <4>2, <5>1
      <4>3. QED
        BY <4>1, <4>2
    <3>10. K * a <= m * ((IF x \in F THEN v ELSE u) * h) + (IF x \in M THEN K * r ELSE 0)
      BY <3>1, <3>5 DEF K
    <3>11. /\ K * a <= m * (u * h) => K * (a + S) <= m * (u * (h + A) + v * B) + (K * r) * c
           /\ K * a <= m * (v * h) => K * (a + S) <= m * (u * A + v * (h + B)) + (K * r) * c
           /\ K * a <= m * (u * h) + K * r => K * (a + S) <= m * (u * (h + A) + v * B) + (K * r) * (c + 1)
           /\ K * a <= m * (v * h) + K * r => K * (a + S) <= m * (u * A + v * (h + B)) + (K * r) * (c + 1)
      BY <3>6, Step
    <3>12. K * sum[s] <= m * (u * free[s \ F] + v * fixed[s \cap F]) + (K * r) * Cardinality(s \cap M)
      <4>1. m * (u * h) + 0 = m * (u * h) /\ m * (v * h) + 0 = m * (v * h)
        OBVIOUS
      <4>2. CASE x \in F /\ x \in M
        BY <3>7, <3>8, <3>9, <3>10, <3>11, <4>2
      <4>3. CASE x \in F /\ x \notin M
        BY <3>7, <3>8, <3>9, <3>10, <3>11, <4>1, <4>3
      <4>4. CASE x \notin F /\ x \in M
        BY <3>7, <3>8, <3>9, <3>10, <3>11, <4>4
      <4>5. CASE x \notin F /\ x \notin M
        BY <3>7, <3>8, <3>9, <3>10, <3>11, <4>1, <4>5
      <4>6. QED
        BY <4>2, <4>3, <4>4, <4>5
    <3>13. QED
      BY <3>12
  <2> HIDE DEF Bound
  <2>2. QED
    BY <2>1
<1>9. Cardinality(X) \in I
  <2> HIDE DEF I
  <2>1. QED
    BY <1>6, <1>7, <1>8, SetInduction
<1>10. Bound(X)
  BY <1>9
<1>11. PICK A \in Nat, B \in Nat, S \in Nat, c \in Nat :
          A = free[X \ F] /\ B = fixed[X \cap F] /\ S = sum[X] /\ c = Cardinality(M)
  <2>1. X \ F \in SUBSET (Y \ F) /\ X \cap F \in SUBSET F
    OBVIOUS
  <2>2. free[X \ F] \in Nat /\ fixed[X \cap F] \in Nat /\ sum[X] \in Nat /\ Cardinality(M) \in Nat
    BY <1>1, <1>3, <1>4, <1>5, <2>1, FS_CardinalityType
  <2>3. QED
    BY <2>2
<1>12. PICK A1 \in Nat, B1 \in Nat : A1 = free[Y \ F] /\ B1 = fixed[F] /\ A <= A1 /\ B <= B1
  <2>1. X \ F \in SUBSET (Y \ F) /\ X \cap F \in SUBSET F
    OBVIOUS
  <2>2. free[X \ F] <= free[Y \ F]
    BY <1>1, <1>2, <2>1, Grows
  <2>3. fixed[X \cap F] <= fixed[F]
    BY <1>1, <1>2, <2>1, Grows
  <2>4. free[Y \ F] \in Nat /\ fixed[F] \in Nat
    BY <1>4, <1>5
  <2>5. QED
    BY <1>11, <2>2, <2>3, <2>4
<1>13. X \cap M = M
  OBVIOUS
<1>14. K * S <= m * (u * A + v * B) + (K * r) * c
  BY <1>10, <1>11, <1>13
<1>15. u * A1 + v * B1 <= K
  BY <1>12 DEF K
<1>16. u * A + v * B <= K
  <2>1. u * A <= u * A1 /\ v * B <= v * B1
    BY <1>12
  <2>2. u * A \in Nat /\ v * B \in Nat /\ u * A1 \in Nat /\ v * B1 \in Nat /\ K \in Nat
    OBVIOUS
  <2>3. \A p, q, p1, q1, k \in Nat : p <= p1 /\ q <= q1 /\ p1 + q1 <= k => p + q <= k
    OBVIOUS
  <2>4. QED
    BY <1>15, <2>1, <2>2, <2>3
<1>17. m * (u * A + v * B) <= m * K
  BY <1>16
<1>18. K * S <= K * (m + r * c)
  <2>1. K * (m + r * c) = m * K + (K * r) * c
    OBVIOUS
  <2>2. QED
    BY <1>14, <1>17, <2>1
<1>19. S <= m + r * c
  BY <1>18
<1>20. QED
  BY <1>11, <1>19

LEMMA Larger ==
    ASSUME NEW a \in Int, NEW b \in Int
    PROVE  Max({a, b}) \in {a, b} /\ a <= Max({a, b}) /\ b <= Max({a, b})
BY DEF Max

LEMMA Lesser ==
    ASSUME NEW a \in Int, NEW b \in Int
    PROVE  Min({a, b}) \in {a, b} /\ Min({a, b}) <= a /\ Min({a, b}) <= b
BY DEF Min

LEMMA DividedIs ==
    ASSUME NEW a \in Nat, NEW b \in Nat \ {0} PROVE a \div b \in Nat /\ b * (a \div b) <= a
OBVIOUS

-----------------------------------------------------------------------------
(* What the loaders of profiles and of shares let pass: sizes that are not *)
(* negative, a swap that includes the memory, shares of at most the board. *)
SensibleProfile(p) ==
    /\ p.cpus \in Nat \ {0} /\ p.pids \in Nat
    /\ p.memory \in Nat /\ p.memory >= _MIN_MEMORY_MB
    /\ p.swap \in Nat /\ p.swap >= p.memory
    /\ p.score = None \/ p.score \in Nat

SensibleShares(overrides) ==
    \A n \in DOMAIN overrides : \A field \in DOMAIN overrides[n] : overrides[n][field] \in 0..100

Share100(share) == DOMAIN share = {"cpu", "memory", "fixed"} /\ share.cpu \in 0..100 /\ share.memory \in 0..100

LEMMA TableOf ==
    ASSUME NEW rows, \A row \in rows : row[2] \in 0..100 /\ row[3] \in 0..100,
           NEW name \in DOMAIN Table(rows)
    PROVE  Share100(Table(rows)[name]) /\ Table(rows)[name].fixed = FALSE
<1>1. name \in {row[1] : row \in rows}
  BY DEF Table
<1> DEFINE r == CHOOSE row \in rows : row[1] = name
<1>2. r \in rows
  BY <1>1
<1>3. Table(rows)[name] = Share(r[2], r[3])
  BY <1>1 DEF Table
<1> HIDE DEF r
<1>4. QED
  BY <1>2, <1>3 DEF Share, Share100

LEMMA KnownShares ==
    ASSUME NEW s \in DOMAIN SERVICE_SHARES, NEW name \in DOMAIN SERVICE_SHARES[s]
    PROVE  Share100(SERVICE_SHARES[s][name]) /\ SERVICE_SHARES[s][name].fixed = FALSE
<1> DEFINE iot == {<<"mqtt", 10, 5>>, <<"influxdb", 40, 35>>, <<"node-red", 30, 15>>, <<"grafana", 15, 10>>}
           ai == {<<"ollama", 60, 55>>, <<"letta", 20, 20>>, <<"n8n", 20, 15>>,
                   <<"ei-runner", 25, 10>>, <<"agent", 10, 4>>}
           edge == {<<"ei-runner", 25, 10>>}
           dashboard == {<<"dashboard", 5, 1>>}
<1>1. \A rows \in {iot, ai, edge, dashboard, {}} : \A row \in rows : row[2] \in 0..100 /\ row[3] \in 0..100
  OBVIOUS
<1>2. \E rows \in {iot, ai, edge, dashboard, {}} : SERVICE_SHARES[s] = Table(rows)
  BY DEF SERVICE_SHARES
<1> HIDE DEF iot, ai, edge, dashboard
<1>3. QED
  BY <1>1, <1>2, TableOf

LEMMA Applied ==
    ASSUME NEW share, Share100(share), NEW overrides, SensibleShares(overrides), NEW name
    PROVE  Share100(_apply(share, overrides, name)) /\ _apply(share, overrides, name).fixed = share.fixed
<1> DEFINE fields == IF name \in DOMAIN overrides THEN overrides[name] ELSE <<>>
<1>1. \A field \in DOMAIN fields : fields[field] \in 0..100
  <2>1. CASE name \in DOMAIN overrides
    BY <2>1 DEF SensibleShares
  <2>2. CASE name \notin DOMAIN overrides
    <3>1. fields = <<>> /\ DOMAIN fields = {}
      BY <2>2
    <3>2. QED
      BY <3>1
  <2>3. QED
    BY <2>1, <2>2
<1>2. _apply(share, overrides, name) =
        [share EXCEPT !.cpu = IF "cpu" \in DOMAIN fields THEN fields.cpu ELSE @,
                      !.memory = IF "memory" \in DOMAIN fields THEN fields.memory ELSE @]
  BY DEF _apply
<1> HIDE DEF fields
<1>3. QED
  BY <1>1, <1>2 DEF Share100

LEMMA FixedIs ==
    ASSUME NEW prof, SensibleProfile(prof) PROVE Share100(FixedShare(prof)) /\ FixedShare(prof).fixed = TRUE
<1>1. (100 * 200) \div prof.cpus \in Nat /\ (100 * 2048) \div prof.memory \in Nat
  BY DividedIs DEF SensibleProfile, _MIN_MEMORY_MB
<1>2. Min({100, (100 * 200) \div prof.cpus}) \in 0..100 /\ Min({100, (100 * 2048) \div prof.memory}) \in 0..100
  <2>1. ASSUME NEW a \in Nat PROVE Min({100, a}) \in 0..100
    <3>1. Min({100, a}) \in {100, a} /\ Min({100, a}) <= 100
      BY Lesser
    <3>2. QED
      BY <3>1
  <2>2. QED
    BY <1>1, <2>1
<1>3. QED
  BY <1>2 DEF FixedShare, Fixed, Share100

LEMMA ShareIs ==
    ASSUME NEW s \in DOMAIN SERVICE_SHARES, NEW services, NEW name \in services,
           NEW overrides, SensibleShares(overrides), NEW prof, SensibleProfile(prof)
    PROVE  /\ Share100(service_shares(s, services, overrides, prof)[name])
           /\ service_shares(s, services, overrides, prof)[name].fixed = (name \in FIXED_LIMITS[s])
<1> DEFINE known == SERVICE_SHARES[s]
           base == CASE name \in FIXED_LIMITS[s] -> FixedShare(prof)
                     [] name \in DOMAIN known    -> known[name]
                     [] OTHER -> _apply(FALLBACK_SHARE, overrides, "*")
<1>1. service_shares(s, services, overrides, prof)[name] = _apply(base, overrides, name)
  BY DEF service_shares
<1>2. FIXED_LIMITS[s] \cap DOMAIN known = {}
  BY DEF FIXED_LIMITS, SERVICE_SHARES, Table
<1>3. Share100(base) /\ base.fixed = (name \in FIXED_LIMITS[s])
  <2>1. CASE name \in FIXED_LIMITS[s]
    <3>1. base = FixedShare(prof)
      BY <1>2, <2>1
    <3>2. QED
      BY <2>1, <3>1, FixedIs
  <2>2. CASE name \notin FIXED_LIMITS[s] /\ name \in DOMAIN known
    <3>1. base = known[name]
      BY <2>2
    <3>2. Share100(base) /\ base.fixed = FALSE
      BY <2>2, <3>1, KnownShares
    <3>3. (name \in FIXED_LIMITS[s]) = FALSE
      BY <2>2
    <3> HIDE DEF base
    <3>4. QED
      BY <3>2, <3>3
  <2>3. CASE name \notin FIXED_LIMITS[s] /\ name \notin DOMAIN known
    <3>1. base = _apply(FALLBACK_SHARE, overrides, "*")
      BY <2>3
    <3>2. Share100(FALLBACK_SHARE) /\ FALLBACK_SHARE.fixed = FALSE
      BY DEF FALLBACK_SHARE, Share, Share100
    <3>3. Share100(base) /\ base.fixed = FALSE
      BY <3>1, <3>2, Applied
    <3>4. (name \in FIXED_LIMITS[s]) = FALSE
      BY <2>3
    <3> HIDE DEF base
    <3>5. QED
      BY <3>3, <3>4
  <2>4. QED
    BY <2>1, <2>2, <2>3
<1> HIDE DEF base
<1>4. QED
  BY <1>1, <1>3, Applied

-----------------------------------------------------------------------------
Places(services, stacks) == UNION {{s} \X services[s] : s \in stacks}

LEMMA SharesAre ==
    ASSUME NEW services, NEW stacks \in SUBSET DOMAIN SERVICE_SHARES,
           NEW overrides, SensibleShares(overrides), NEW prof, SensibleProfile(prof)
    PROVE  /\ DOMAIN Shares(services, stacks, overrides, prof) = Places(services, stacks)
           /\ \A x \in Places(services, stacks) :
                /\ Share100(Shares(services, stacks, overrides, prof)[x])
                /\ Shares(services, stacks, overrides, prof)[x].fixed \in BOOLEAN
                /\ Shares(services, stacks, overrides, prof)[x].fixed => x = <<"ai", "system1">>
<1> DEFINE sh == Shares(services, stacks, overrides, prof)
<1>1. DOMAIN sh = Places(services, stacks)
      /\ \A x \in Places(services, stacks) :
            sh[x] = service_shares(x[1], services[x[1]], overrides, prof)[x[2]]
  BY DEF Shares, Places
<1>2. ASSUME NEW x \in Places(services, stacks)
      PROVE  /\ Share100(sh[x]) /\ sh[x].fixed \in BOOLEAN
             /\ sh[x].fixed => x = <<"ai", "system1">>
  <2>1. PICK s, c : s \in stacks /\ c \in services[s] /\ x = <<s, c>>
    BY DEF Places
  <2>2. sh[x] = service_shares(s, services[s], overrides, prof)[c]
    BY <1>1, <2>1
  <2> HIDE DEF sh
  <2>3. Share100(sh[x]) /\ sh[x].fixed = (c \in FIXED_LIMITS[s])
    <3>1. s \in DOMAIN SERVICE_SHARES /\ c \in services[s]
      BY <2>1
    <3>2. PICK S : S = services[s]
      OBVIOUS
    <3>3. /\ Share100(service_shares(s, S, overrides, prof)[c])
          /\ service_shares(s, S, overrides, prof)[c].fixed = (c \in FIXED_LIMITS[s])
      BY <3>1, <3>2, ShareIs
    <3>4. QED
      BY <2>2, <3>2, <3>3
  <2>4. c \in FIXED_LIMITS[s] => s = "ai" /\ c = "system1"
    <3>1. s \in {"iot", "ai", "edge", "dashboard", "extras"}
      BY <2>1 DEF SERVICE_SHARES
    <3>2. QED
      BY <3>1 DEF FIXED_LIMITS
  <2>5. sh[x].fixed \in BOOLEAN
    BY <2>3
  <2>6. ASSUME sh[x].fixed PROVE x = <<"ai", "system1">>
    <3>1. c \in FIXED_LIMITS[s]
      BY <2>3, <2>6
    <3>2. QED
      BY <2>1, <2>4, <3>1
  <2>7. QED
    BY <2>3, <2>5, <2>6
<1> HIDE DEF sh
<1>3. QED
  BY <1>1, <1>2 DEF sh

(* The scale of a board leaves room for what is fixed. *)
Within(shares, field, Y, F, h, u, v, free, fixed) ==
    /\ budget_scale(shares, field) = <<u, v>>
    /\ IsSum(free, Y \ F, h) /\ IsSum(fixed, F, h)
    /\ u * free[Y \ F] + v * fixed[F] <= 100 * v

LEMMA Scaled ==
    ASSUME NEW services, NEW stacks \in SUBSET DOMAIN SERVICE_SHARES,
           NEW overrides, SensibleShares(overrides), NEW prof, SensibleProfile(prof),
           NEW sh, sh = Shares(services, stacks, overrides, prof),
           NEW Y, Y = Places(services, stacks), IsFiniteSet(Y),
           NEW F \in SUBSET Y, \A x \in Y : x \in F <=> sh[x].fixed,
           NEW field \in {"cpu", "memory"}, NEW h, \A x \in Y : h[x] = sh[x][field]
    PROVE  /\ \A x \in Y : h[x] \in 0..100
           /\ \E u \in Nat, v \in Nat \ {0} : \E free, fixed : Within(sh, field, Y, F, h, u, v, free, fixed)
<1>1. DOMAIN sh = Y /\ \A x \in Y : /\ Share100(sh[x]) /\ sh[x].fixed \in BOOLEAN
                                    /\ sh[x].fixed => x = <<"ai", "system1">>
  BY SharesAre
<1>2. IsFiniteSet(Y) /\ IsFiniteSet(F) /\ IsFiniteSet(Y \ F)
  BY FS_Subset
<1>3. \A x \in Y : h[x] \in 0..100
  BY <1>1 DEF Share100
<1>4. (\A x \in F : h[x] \in Nat) /\ (\A x \in Y \ F : h[x] \in Nat)
  BY <1>3
<1>5. /\ \A x : x \in F <=> x \in DOMAIN sh /\ sh[x].fixed = TRUE
      /\ \A x : x \in Y \ F <=> x \in DOMAIN sh /\ sh[x].fixed = FALSE
  BY <1>1
<1>6. PICK fixed : IsSum(fixed, F, h) /\ Total(sh, field, TRUE) = fixed[F]
  <2>1. \A x \in F : h[x] = sh[x][field]
    OBVIOUS
  <2>2. PICK b : b = TRUE
    OBVIOUS
  <2>3. \A x : x \in F <=> x \in DOMAIN sh /\ sh[x].fixed = b
    BY <1>5, <2>2
  <2>4. \E sum : IsSum(sum, F, h) /\ Total(sh, field, b) = sum[F]
    BY <1>2, <2>1, <2>3, TotalIs
  <2>5. QED
    BY <2>2, <2>4
<1>7. PICK free : IsSum(free, Y \ F, h) /\ Total(sh, field, FALSE) = free[Y \ F]
  <2>1. \A x \in Y \ F : h[x] = sh[x][field]
    OBVIOUS
  <2>2. PICK b, S : b = FALSE /\ S = Y \ F
    OBVIOUS
  <2>3. \A x : x \in S <=> x \in DOMAIN sh /\ sh[x].fixed = b
    BY <1>5, <2>2
  <2>4. \E sum : IsSum(sum, S, h) /\ Total(sh, field, b) = sum[S]
    BY <1>2, <2>1, <2>2, <2>3, TotalIs
  <2>5. QED
    BY <2>2, <2>4
<1>8. free[Y \ F] \in Nat
  <2>1. AddsUp(free, Y \ F, h)
    BY <1>2, <1>4, <1>7, Adds
  <2>2. QED
    BY <2>1 DEF AddsUp
<1>9. fixed[F] \in 0..100
  <2>1. AddsUp(fixed, F, h)
    BY <1>2, <1>4, <1>6, Adds
  <2>2. CASE F = {}
    <3>1. fixed[F] = 0
      BY <2>1, <2>2 DEF AddsUp
    <3>2. QED
      BY <3>1
  <2>3. CASE F # {}
    <3>1. PICK x \in F : TRUE
      BY <2>3
    <3>2. F \ {x} = {}
      BY <1>1
    <3>3. fixed[F] = h[x] + fixed[F \ {x}] /\ fixed[{}] = 0 /\ h[x] \in 0..100
      <4>1. F \in SUBSET F
        OBVIOUS
      <4>2. h[x] \in 0..100
        BY <1>3
      <4>3. QED
        BY <2>1, <4>1, <4>2 DEF AddsUp
    <3>4. fixed[F] = h[x] + 0
      BY <3>2, <3>3
    <3>5. QED
      BY <3>3, <3>4
  <2>4. QED
    BY <2>2, <2>3
<1>10. PICK T \in Nat, A \in 0..100 : T = free[Y \ F] /\ A = fixed[F]
  BY <1>8, <1>9
<1>11. Max({0, 100 - A}) = 100 - A
  <2>1. 100 - A \in Int /\ 0 \in Int /\ 0 <= 100 - A
    OBVIOUS
  <2>2. Max({0, 100 - A}) \in {0, 100 - A} /\ 100 - A <= Max({0, 100 - A})
    BY <2>1, Larger
  <2>3. QED
    BY <2>1, <2>2
<1>12. budget_scale(sh, field) = IF T > 100 - A THEN <<100 - A, T>> ELSE <<1, 1>>
  BY <1>6, <1>7, <1>10, <1>11 DEF budget_scale
<1>13. PICK u \in Nat, v \in Nat \ {0} : budget_scale(sh, field) = <<u, v>> /\ u * T + v * A <= 100 * v
  <2>1. CASE T > 100 - A
    <3>1. 100 - A \in Nat /\ T \in Nat \ {0}
      BY <2>1
    <3>2. (100 - A) * T + T * A <= 100 * T
      OBVIOUS
    <3>3. QED
      BY <1>12, <2>1, <3>1, <3>2
  <2>2. CASE ~(T > 100 - A)
    <3>1. 1 * T + 1 * A <= 100 * 1
      BY <2>2
    <3>2. QED
      BY <1>12, <2>2, <3>1
  <2>3. QED
    BY <2>1, <2>2
<1>14. Within(sh, field, Y, F, h, u, v, free, fixed)
  BY <1>6, <1>7, <1>10, <1>13 DEF Within
<1>15. QED
  BY <1>3, <1>14

-----------------------------------------------------------------------------
(* A size of a service: its share of m, scaled unless the share is fixed. *)
LEMMA Portion ==
    ASSUME NEW m \in Nat, NEW h \in Nat, NEW u \in Nat, NEW v \in Nat \ {0}
    PROVE  /\ (m * h * 1) \div (100 * 1) \in Nat
           /\ (100 * v) * ((m * h * 1) \div (100 * 1)) <= m * (v * h)
           /\ (m * h * u) \div (100 * v) \in Nat
           /\ (100 * v) * ((m * h * u) \div (100 * v)) <= m * (u * h)
<1>1. PICK q \in Nat : q = (m * h * u) \div (100 * v) /\ (100 * v) * q <= m * h * u
  <2>1. m * h * u \in Nat /\ 100 * v \in Nat \ {0}
    OBVIOUS
  <2>2. QED
    BY <2>1, DividedIs
<1>2. PICK p \in Nat : p = (m * h * 1) \div (100 * 1) /\ 100 * p <= m * h
  <2>1. m * h * 1 \in Nat /\ 100 * 1 \in Nat \ {0} /\ m * h * 1 = m * h /\ 100 * 1 = 100
    OBVIOUS
  <2>2. QED
    BY <2>1, DividedIs
<1>3. (100 * v) * p <= m * (v * h)
  <2>1. (100 * p) * v <= (m * h) * v
    BY <1>2
  <2>2. QED
    BY <2>1
<1>4. (100 * v) * q <= m * (u * h)
  BY <1>1
<1>5. QED
  BY <1>1, <1>2, <1>3, <1>4

CpuPart(num, den, m, k, h, u, v) == num = m * k * h * u /\ den = 10000 * v

LEMMA CpuPortion ==
    ASSUME NEW m \in Nat, NEW k \in 0..100, NEW h \in Nat, NEW u \in Nat, NEW v \in Nat \ {0},
           NEW num, NEW den, CpuPart(num, den, m, k, h, u, v)
    PROVE  /\ Rounded(num, den) \in Nat
           /\ (100 * v) * Rounded(num, den) <= m * (u * h) + 100 * v
<1>0. Rounded(num, den) = (2 * (m * k * h * u) + 10000 * v) \div (2 * (10000 * v))
  BY DEF CpuPart, Rounded
<1>1. PICK q \in Nat : q = Rounded(num, den)
                       /\ (2 * (10000 * v)) * q <= 2 * (m * k * h * u) + 10000 * v
  <2>1. 2 * (m * k * h * u) + 10000 * v \in Nat /\ 2 * (10000 * v) \in Nat \ {0}
    OBVIOUS
  <2>2. QED
    BY <1>0, <2>1, DividedIs
<1>2. m * k * h * u <= 100 * (m * (u * h))
  <2>1. PICK w \in Nat : w = m * (u * h)
    OBVIOUS
  <2>2. m * k * h * u = k * w
    BY <2>1
  <2>3. k * w <= 100 * w
    OBVIOUS
  <2>4. QED
    BY <2>1, <2>2, <2>3
<1>3. (100 * v) * q <= m * (u * h) + 100 * v
  <2>1. PICK x \in Nat, y \in Nat, z \in Nat : x = v * q /\ y = m * (u * h) /\ z = m * k * h * u
    OBVIOUS
  <2>2. (2 * (10000 * v)) * q = 20000 * x /\ (100 * v) * q = 100 * x
    BY <2>1
  <2>3. 20000 * x <= 2 * z + 10000 * v /\ z <= 100 * y
    BY <1>1, <1>2, <2>1, <2>2
  <2>4. 100 * x <= y + 100 * v
    BY <2>3
  <2>5. QED
    BY <2>1, <2>2, <2>4
<1>4. QED
  BY <1>1, <1>3

Weight(share, u, v) == IF share.fixed THEN v ELSE u

Scaling(own, share, u, v) == own = IF share.fixed THEN <<1, 1>> ELSE <<u, v>>

(* A size of at most a share, and one with what everybody gets at least.   *)
OfShare(q, m, w, h, v) == (100 * v) * q <= m * (w * h)

Gets(a, m, w, h, v, r) == (100 * v) * a <= m * (w * h) + (100 * v) * r

IsSize(q, m, h, own) == q = (m * h * own[1]) \div (100 * own[2])

IsCpus(c, m, k, h, own) == c = Rounded(m * k * h * own[1], 10000 * own[2])

LEMMA SizeIs ==
    ASSUME NEW m \in Nat, NEW share, NEW h \in Nat, NEW u \in Nat, NEW v \in Nat \ {0},
           NEW own, Scaling(own, share, u, v)
    PROVE  \E q \in Nat : IsSize(q, m, h, own) /\ OfShare(q, m, Weight(share, u, v), h, v)
<1>0. /\ (m * h * 1) \div (100 * 1) \in Nat
      /\ (100 * v) * ((m * h * 1) \div (100 * 1)) <= m * (v * h)
      /\ (m * h * u) \div (100 * v) \in Nat
      /\ (100 * v) * ((m * h * u) \div (100 * v)) <= m * (u * h)
  BY Portion
<1>1. CASE share.fixed
  <2>1. own[1] = 1 /\ own[2] = 1 /\ Weight(share, u, v) = v
    BY <1>1 DEF Weight, Scaling
  <2>2. PICK q \in Nat : q = (m * h * 1) \div (100 * 1)
    BY <1>0
  <2>3. IsSize(q, m, h, own) /\ OfShare(q, m, v, h, v)
    BY <1>0, <2>1, <2>2 DEF IsSize, OfShare
  <2>4. QED
    BY <2>1, <2>3
<1>2. CASE ~share.fixed
  <2>1. own[1] = u /\ own[2] = v /\ Weight(share, u, v) = u
    BY <1>2 DEF Weight, Scaling
  <2>2. PICK q \in Nat : q = (m * h * u) \div (100 * v)
    BY <1>0
  <2>3. IsSize(q, m, h, own) /\ OfShare(q, m, u, h, v)
    BY <1>0, <2>1, <2>2 DEF IsSize, OfShare
  <2>4. QED
    BY <2>1, <2>3
<1>3. QED
  BY <1>1, <1>2

LEMMA CpusIs ==
    ASSUME NEW m \in Nat, NEW k \in 0..100, NEW share, NEW h \in Nat,
           NEW u \in Nat, NEW v \in Nat \ {0}, NEW own, Scaling(own, share, u, v)
    PROVE  \E c \in Nat : IsCpus(c, m, k, h, own) /\ Gets(c, m, Weight(share, u, v), h, v, 1)
<1>0. PICK num, den : num = m * k * h * own[1] /\ den = 10000 * own[2]
  OBVIOUS
<1>1. CASE share.fixed
  <2>1. own[1] = 1 /\ own[2] = 1 /\ Weight(share, u, v) = v
    BY <1>1 DEF Weight, Scaling
  <2>2. PICK q : q = Rounded(num, den)
    OBVIOUS
  <2>3. q \in Nat /\ (100 * 1) * q <= m * (1 * h) + 100 * 1
    <3>1. PICK e \in Nat \ {0} : e = 1
      OBVIOUS
    <3>2. CpuPart(num, den, m, k, h, e, e)
      BY <1>0, <2>1, <3>1 DEF CpuPart
    <3>3. Rounded(num, den) \in Nat /\ (100 * e) * Rounded(num, den) <= m * (e * h) + 100 * e
      BY <3>2, CpuPortion
    <3>4. QED
      BY <2>2, <3>1, <3>3
  <2>4. (100 * v) * q <= m * (v * h) + 100 * v
    <3>1. ((100 * 1) * q) * v <= (m * (1 * h) + 100 * 1) * v
      BY <2>3
    <3>2. ((100 * 1) * q) * v = (100 * v) * q /\ (m * (1 * h) + 100 * 1) * v = m * (v * h) + 100 * v
      BY <2>3
    <3>3. QED
      BY <3>1, <3>2
  <2>5. IsCpus(q, m, k, h, own) /\ Gets(q, m, v, h, v, 1)
    <3>1. (100 * v) * 1 = 100 * v
      OBVIOUS
    <3>2. QED
      BY <1>0, <2>2, <2>4, <3>1 DEF IsCpus, Gets
  <2>6. QED
    BY <2>1, <2>3, <2>5
<1>2. CASE ~share.fixed
  <2>1. own[1] = u /\ own[2] = v /\ Weight(share, u, v) = u
    BY <1>2 DEF Weight, Scaling
  <2>2. CpuPart(num, den, m, k, h, u, v)
    BY <1>0, <2>1 DEF CpuPart
  <2>3. PICK q \in Nat : q = Rounded(num, den) /\ (100 * v) * q <= m * (u * h) + 100 * v
    BY <2>2, CpuPortion
  <2>4. IsCpus(q, m, k, h, own) /\ Gets(q, m, u, h, v, 1)
    <3>1. (100 * v) * 1 = 100 * v
      OBVIOUS
    <3>2. QED
      BY <1>0, <2>3, <3>1 DEF IsCpus, Gets
  <2>5. QED
    BY <2>1, <2>4
<1>3. QED
  BY <1>1, <1>2

Packs(lims, field, shares, h, X, M, m, r, u, v) ==
    \A x \in X : lims[x][field] \in Nat
               /\ Gets(lims[x][field], m, Weight(shares[x], u, v), h[x], v, IF x \in M THEN r ELSE 0)

LEMMA FieldFits ==
    ASSUME NEW shares, NEW Y, IsFiniteSet(Y), NEW F \in SUBSET Y, \A x \in Y : x \in F <=> shares[x].fixed,
           NEW h, \A x \in Y : h[x] \in Nat,
           NEW lims, NEW X \in SUBSET Y, X = DOMAIN lims, NEW M \in SUBSET X,
           NEW field, NEW m \in Nat, NEW r \in Nat, NEW u \in Nat, NEW v \in Nat \ {0},
           NEW key, NEW free, NEW fixed, Within(shares, key, Y, F, h, u, v, free, fixed),
           Packs(lims, field, shares, h, X, M, m, r, u, v)
    PROVE  SumOf(lims, field) <= m + r * Cardinality(M)
<1>1. PICK f : f = [x \in X |-> lims[x][field]]
  OBVIOUS
<1>2. (\A x \in X : f[x] = lims[x][field]) /\ \A x \in X : f[x] \in Nat
  BY <1>1 DEF Packs
<1>3. IsFiniteSet(X)
  BY FS_Subset
<1>4. PICK sum : IsSum(sum, X, f) /\ SumOf(lims, field) = sum[X]
  BY <1>2, <1>3, SumIs
<1>5. IsSum(free, Y \ F, h) /\ IsSum(fixed, F, h) /\ u * free[Y \ F] + v * fixed[F] <= 100 * v
  BY DEF Within
<1>6. ASSUME NEW x \in X
      PROVE  (100 * v) * f[x] <= m * ((IF x \in F THEN v ELSE u) * h[x])
                                    + (IF x \in M THEN (100 * v) * r ELSE 0)
  <2>1. Weight(shares[x], u, v) = IF x \in F THEN v ELSE u
    BY DEF Weight
  <2>2. Gets(f[x], m, IF x \in F THEN v ELSE u, h[x], v, IF x \in M THEN r ELSE 0)
    BY <1>2, <2>1 DEF Packs
  <2>3. CASE x \in M
    BY <2>2, <2>3 DEF Gets
  <2>4. CASE x \notin M
    BY <2>2, <2>4 DEF Gets
  <2>5. QED
    BY <2>3, <2>4
<1>7. sum[X] <= m + r * Cardinality(M)
  BY <1>2, <1>4, <1>5, <1>6, Shared
<1>8. QED
  BY <1>4, <1>7

(* What a size is over its share, if it is the least that there is. *)
Extra(a, least, more) == IF a = least THEN more ELSE 0

(* The sizes of a service, by the share that it has and its scales. *)
Sized(lim, prof, share, um, vm, uc, vc) ==
    /\ lim.memory \in Nat /\ lim.memswap \in Nat /\ lim.pids \in Nat /\ lim.cpus \in Nat
    /\ lim.memswap >= lim.memory
    /\ Gets(lim.memory, prof.memory, Weight(share, um, vm), share.memory, vm,
            Extra(lim.memory, _MIN_MEMORY_MB, _MIN_MEMORY_MB))
    /\ Gets(lim.memswap, prof.swap, Weight(share, um, vm), share.memory, vm,
            Extra(lim.memory, _MIN_MEMORY_MB, (_MIN_MEMORY_MB * prof.swap) \div prof.memory))
    /\ Gets(lim.pids, prof.pids, Weight(share, um, vm), share.memory, vm,
            Extra(lim.pids, _MIN_PIDS, _MIN_PIDS))
    /\ Gets(lim.cpus, prof.cpus, Weight(share, uc, vc), share.cpu, vc, 1)

LEMMA Floored ==
    ASSUME NEW q \in Nat, NEW least \in Nat, NEW m \in Nat, NEW w \in Nat, NEW h \in Nat, NEW v \in Nat \ {0},
           (100 * v) * q <= m * (w * h)
    PROVE  /\ Max({least, q}) \in Nat
           /\ Gets(Max({least, q}), m, w, h, v, IF Max({least, q}) = least THEN least ELSE 0)
<1>1. PICK a \in Nat : a = Max({least, q}) /\ a \in {least, q}
  BY Larger
<1>2. CASE a = least
  BY <1>1, <1>2 DEF Gets
<1>3. CASE a # least
  BY <1>1, <1>3 DEF Gets
<1>4. QED
  BY <1>2, <1>3, <1>1

LEMMA Swapped ==
    ASSUME NEW a \in Nat, NEW m \in Nat \ {0}, NEW swap \in Nat, swap >= m
    PROVE  (a * swap) \div m \in Nat /\ Max({a, (a * swap) \div m}) = (a * swap) \div m
<1>1. PICK s \in Nat : s = (a * swap) \div m /\ m * s <= a * swap /\ a * swap < m * (s + 1)
  OBVIOUS
<1>2. a * m <= a * swap
  OBVIOUS
<1>3. m * a < m * (s + 1)
  BY <1>1, <1>2
<1>4. a < s + 1
  BY <1>3
<1>5. Max({a, s}) \in {a, s} /\ s <= Max({a, s})
  BY Larger
<1>6. QED
  BY <1>1, <1>4, <1>5

LEMMA SwapPortion ==
    ASSUME NEW a \in Nat, NEW m \in Nat \ {0}, NEW swap \in Nat, NEW w \in Nat, NEW h \in Nat, NEW v \in Nat \ {0},
           (100 * v) * a <= m * (w * h)
    PROVE  (100 * v) * ((a * swap) \div m) <= swap * (w * h)
<1>1. PICK s \in Nat : s = (a * swap) \div m /\ m * s <= a * swap
  OBVIOUS
<1>2. PICK K \in Nat, W \in Nat : K = 100 * v /\ W = w * h
  OBVIOUS
<1>3. K * a <= m * W
  BY <1>2
<1>4. (K * a) * swap <= (m * W) * swap
  BY <1>3
<1>5. K * (m * s) <= K * (a * swap)
  BY <1>1
<1>6. m * (K * s) <= m * (W * swap)
  <2>1. K * (m * s) = m * (K * s) /\ K * (a * swap) = (K * a) * swap /\ (m * W) * swap = m * (W * swap)
    OBVIOUS
  <2>2. QED
    BY <1>4, <1>5, <2>1
<1>7. K * s <= W * swap
  <2>1. PICK x \in Nat, y \in Nat : x = K * s /\ y = W * swap
    OBVIOUS
  <2>2. m * x <= m * y
    BY <1>6, <2>1
  <2>3. x <= y
    BY <2>2
  <2>4. QED
    BY <2>1, <2>3
<1>8. QED
  BY <1>1, <1>2, <1>7

Bigger(a, b) == Max({a, b})

SwapOf(a, swap, m) == (a * swap) \div m

Floors(a, least, q, m, w, h, v) == OfShare(q, m, w, h, v) /\ a = Bigger(least, q)

Swaps(b, a, swap, least, q, m, w, h, v) ==
    OfShare(q, m, w, h, v) /\ (a = least \/ a = q) /\ swap >= m /\ b = Bigger(a, SwapOf(a, swap, m))

LEMMA FloorIs ==
    ASSUME NEW q \in Nat, NEW least \in Nat, NEW m \in Nat, NEW w \in Nat, NEW h \in Nat, NEW v \in Nat \ {0},
           NEW a, Floors(a, least, q, m, w, h, v)
    PROVE  a \in Nat /\ (a = least \/ a = q) /\ Gets(a, m, w, h, v, Extra(a, least, least))
<1>1. Max({least, q}) \in Nat /\ Gets(Max({least, q}), m, w, h, v, Extra(Max({least, q}), least, least))
  BY Floored DEF OfShare, Extra, Floors
<1>2. Max({least, q}) \in {least, q}
  BY Larger
<1>3. a = Max({least, q})
  BY DEF Bigger, Floors
<1>4. QED
  BY <1>1, <1>2, <1>3

LEMMA OneIs ==
    ASSUME NEW q \in Nat, NEW m \in Nat, NEW w \in Nat, NEW h \in Nat, NEW v \in Nat \ {0},
           Gets(q, m, w, h, v, 1), NEW a, a = Bigger(_MIN_CPUS, q)
    PROVE  a \in Nat /\ Gets(a, m, w, h, v, 1)
<1>1. _MIN_CPUS \in Nat
  BY DEF _MIN_CPUS
<1>2. Max({_MIN_CPUS, q}) \in {_MIN_CPUS, q}
  BY <1>1, Larger
<1>3. Gets(_MIN_CPUS, m, w, h, v, 1)
  <2>1. PICK x \in Nat, y \in Nat : x = m * (w * h) /\ y = (100 * v) * 1
    OBVIOUS
  <2>2. y <= x + y
    OBVIOUS
  <2>3. QED
    BY <2>1, <2>2 DEF Gets, _MIN_CPUS
<1>4. a = Max({_MIN_CPUS, q})
  BY DEF Bigger
<1>5. QED
  BY <1>1, <1>2, <1>3, <1>4

LEMMA SwapIs ==
    ASSUME NEW q \in Nat, NEW least \in Nat, NEW m \in Nat \ {0}, NEW swap \in Nat,
           NEW w \in Nat, NEW h \in Nat, NEW v \in Nat \ {0},
           NEW a, NEW b, Swaps(b, a, swap, least, q, m, w, h, v)
    PROVE  b \in Nat /\ b >= a /\ Gets(b, swap, w, h, v, Extra(a, least, SwapOf(least, swap, m)))
<1>0. OfShare(q, m, w, h, v) /\ (a = least \/ a = q) /\ swap >= m /\ b = Bigger(a, SwapOf(a, swap, m))
  BY DEF Swaps
<1>1. b \in Nat /\ b = (a * swap) \div m /\ a <= b
  <2>1. PICK c \in Nat : c = (a * swap) \div m /\ b = c
    BY <1>0, Swapped DEF Bigger, SwapOf
  <2>2. a <= b
    <3>1. c = SwapOf(a, swap, m)
      BY <2>1 DEF SwapOf
    <3>2. PICK e \in Int : e = a /\ b = Bigger(e, c)
      BY <1>0, <3>1
    <3>3. e <= Bigger(e, c)
      BY Larger DEF Bigger
    <3>4. QED
      BY <3>2, <3>3
  <2>3. QED
    BY <2>1, <2>2
<1>2. PICK x \in Nat : x = swap * (w * h)
  OBVIOUS
<1>3. CASE a = least
  <2>1. (100 * v) * b <= x + (100 * v) * b
    BY <1>1, <1>2
  <2>2. QED
    BY <1>1, <1>2, <1>3, <2>1 DEF Gets, Extra, SwapOf
<1>4. CASE a # least
  <2>1. a = q
    BY <1>0, <1>4
  <2>2. (100 * v) * ((a * swap) \div m) <= swap * (w * h)
    BY <1>0, <2>1, SwapPortion DEF OfShare
  <2>3. PICK y \in Nat : y = (100 * v) * b
    BY <1>1
  <2>4. (100 * v) * 0 = 0 /\ y <= x + 0
    BY <1>1, <1>2, <2>2, <2>3
  <2>5. QED
    BY <1>1, <1>2, <1>4, <2>3, <2>4 DEF Gets, Extra
<1>5. QED
  BY <1>1, <1>3, <1>4

LEMMA LimitSizes ==
    ASSUME NEW prof, SensibleProfile(prof), NEW share, Share100(share), share.fixed \in BOOLEAN,
           NEW um \in Nat, NEW vm \in Nat \ {0}, NEW uc \in Nat, NEW vc \in Nat \ {0},
           NEW scale, scale.cpu = <<uc, vc>>, scale.memory = <<um, vm>>,
           NEW factor \in 0..100, NEW name, NEW platform, NEW gpu, NEW cpuset,
           NEW lim, lim = Limits(prof, name, share, platform, scale, gpu, factor, cpuset)
    PROVE  Sized(lim, prof, share, um, vm, uc, vc)
<1>1. /\ prof.cpus \in Nat /\ prof.pids \in Nat /\ prof.memory \in Nat \ {0} /\ prof.swap \in Nat
      /\ prof.swap >= prof.memory /\ share.cpu \in Nat /\ share.memory \in Nat
      /\ Weight(share, um, vm) \in Nat /\ Weight(share, uc, vc) \in Nat
      /\ _MIN_MEMORY_MB \in Nat /\ _MIN_PIDS \in Nat
  BY DEF SensibleProfile, Share100, Weight, _MIN_MEMORY_MB, _MIN_PIDS
<1>2. PICK owm, owc : Scaling(owm, share, um, vm) /\ Scaling(owc, share, uc, vc)
  BY DEF Scaling
<1>3. PICK q \in Nat : IsSize(q, prof.memory, share.memory, owm)
                       /\ OfShare(q, prof.memory, Weight(share, um, vm), share.memory, vm)
  BY <1>1, <1>2, SizeIs
<1>4. PICK p \in Nat : IsSize(p, prof.pids, share.memory, owm)
                       /\ OfShare(p, prof.pids, Weight(share, um, vm), share.memory, vm)
  BY <1>1, <1>2, SizeIs
<1>5. PICK c \in Nat : IsCpus(c, prof.cpus, factor, share.cpu, owc)
                       /\ Gets(c, prof.cpus, Weight(share, uc, vc), share.cpu, vc, 1)
  BY <1>1, <1>2, CpusIs
<1> DEFINE own == OwnScale(share, scale)
<1>6. own.memory = owm /\ own.cpu = owc
  BY <1>2 DEF OwnScale, Scaling
<1> HIDE DEF own
<1>7. PICK M0 \in Nat, L0 \in Nat, W \in Nat, H \in Nat :
          M0 = prof.memory /\ L0 = _MIN_MEMORY_MB /\ W = Weight(share, um, vm) /\ H = share.memory
  BY <1>1
<1>8. PICK a, b : a = lim.memory /\ b = lim.memswap
  OBVIOUS
<1>9. a = Bigger(L0, q)
  <2>1. a = Max({_MIN_MEMORY_MB, (prof.memory * share.memory * own.memory[1]) \div (100 * own.memory[2])})
    BY <1>8 DEF Limits, own
  <2>2. q = (prof.memory * share.memory * own.memory[1]) \div (100 * own.memory[2])
    BY <1>3, <1>6 DEF IsSize
  <2>3. QED
    BY <1>7, <2>1, <2>2 DEF Bigger
<1>10. a \in Nat /\ (a = L0 \/ a = q) /\ Gets(a, M0, W, H, vm, Extra(a, L0, L0))
  <2>1. OfShare(q, M0, W, H, vm)
    BY <1>3, <1>7
  <2>2. Floors(a, L0, q, M0, W, H, vm)
    BY <1>9, <2>1 DEF Floors
  <2>3. QED
    BY <2>2, FloorIs
<1>11. b = Max({a, (a * prof.swap) \div prof.memory})
  BY <1>8 DEF Limits
<1>12. b \in Nat /\ b >= a /\ Gets(b, prof.swap, W, H, vm, Extra(a, L0, SwapOf(L0, prof.swap, prof.memory)))
  <2>1. PICK sw \in Nat, m1 \in Nat \ {0} : sw = prof.swap /\ m1 = prof.memory /\ sw >= m1 /\ m1 = M0
    BY <1>1, <1>7
  <2>2. OfShare(q, m1, W, H, vm)
    BY <1>3, <1>7, <2>1
  <2>5. b = Bigger(a, SwapOf(a, sw, m1)) /\ (a = L0 \/ a = q) /\ sw >= m1
    BY <1>10, <1>11, <2>1 DEF Bigger, SwapOf
  <2>3. b \in Nat /\ b >= a /\ Gets(b, sw, W, H, vm, Extra(a, L0, SwapOf(L0, sw, m1)))
    <3>1. Swaps(b, a, sw, L0, q, m1, W, H, vm)
      BY <2>2, <2>5 DEF Swaps
    <3>2. QED
      BY <3>1, SwapIs
  <2>4. QED
    BY <2>1, <2>3
<1>13. PICK P0 \in Nat, L1 \in Nat : P0 = prof.pids /\ L1 = _MIN_PIDS
  BY <1>1
<1>14. PICK d : d = lim.pids
  OBVIOUS
<1>15. d = Bigger(L1, p)
  <2>1. d = Max({_MIN_PIDS, (prof.pids * share.memory * own.memory[1]) \div (100 * own.memory[2])})
    BY <1>14 DEF Limits, own
  <2>2. p = (prof.pids * share.memory * own.memory[1]) \div (100 * own.memory[2])
    BY <1>4, <1>6 DEF IsSize
  <2>3. QED
    BY <1>13, <2>1, <2>2 DEF Bigger
<1>16. d \in Nat /\ Gets(d, P0, W, H, vm, Extra(d, L1, L1))
  <2>1. OfShare(p, P0, W, H, vm)
    BY <1>4, <1>7, <1>13
  <2>2. Floors(d, L1, p, P0, W, H, vm)
    BY <1>15, <2>1 DEF Floors
  <2>3. d \in Nat /\ (d = L1 \/ d = p) /\ Gets(d, P0, W, H, vm, Extra(d, L1, L1))
    BY <2>2, FloorIs
  <2>4. QED
    BY <2>3
<1>17. PICK e : e = lim.cpus
  OBVIOUS
<1>18. e = Bigger(_MIN_CPUS, c)
  <2>1. e = Max({_MIN_CPUS, Rounded(prof.cpus * factor * share.cpu * own.cpu[1], 10000 * own.cpu[2])})
    BY <1>17 DEF Limits, own
  <2>2. c = Rounded(prof.cpus * factor * share.cpu * own.cpu[1], 10000 * own.cpu[2])
    BY <1>5, <1>6 DEF IsCpus
  <2>3. QED
    BY <2>1, <2>2 DEF Bigger
<1>19. e \in Nat /\ Gets(e, prof.cpus, Weight(share, uc, vc), share.cpu, vc, 1)
  <2>1. PICK C0 \in Nat, V \in Nat, G \in Nat : C0 = prof.cpus /\ V = Weight(share, uc, vc) /\ G = share.cpu
    BY <1>1
  <2>2. e \in Nat /\ Gets(e, C0, V, G, vc, 1)
    BY <1>5, <1>18, <2>1, OneIs
  <2>3. QED
    BY <2>1, <2>2
<1>20. /\ a = lim.memory /\ b = lim.memswap /\ d = lim.pids /\ e = lim.cpus
       /\ L0 = _MIN_MEMORY_MB /\ L1 = _MIN_PIDS /\ M0 = prof.memory /\ P0 = prof.pids
       /\ W = Weight(share, um, vm) /\ H = share.memory
  BY <1>7, <1>8, <1>13, <1>14, <1>17
<1>21. QED
  BY <1>10, <1>12, <1>16, <1>19, <1>20 DEF Sized, SwapOf

-----------------------------------------------------------------------------
(* The sizes of an overlay's entry for a service with such a share. *)
SizedAs(lim, prof, share, shares) ==
    LET scale == [cpu |-> budget_scale(shares, "cpu"), memory |-> budget_scale(shares, "memory")]
    IN  \E factor \in 0..100 :
            LET made == Limits(prof, None, share, None, scale, None, factor, None)
            IN  /\ lim.cpus = made.cpus /\ lim.memory = made.memory
                /\ lim.memswap = made.memswap /\ lim.pids = made.pids

LEMMA SizesOf ==
    ASSUME NEW prof, SensibleProfile(prof), NEW shares, NEW share, Share100(share), share.fixed \in BOOLEAN,
           NEW um \in Nat, NEW vm \in Nat \ {0}, NEW uc \in Nat, NEW vc \in Nat \ {0},
           budget_scale(shares, "cpu") = <<uc, vc>>, budget_scale(shares, "memory") = <<um, vm>>,
           NEW lim, SizedAs(lim, prof, share, shares)
    PROVE  Sized(lim, prof, share, um, vm, uc, vc)
<1>1. PICK scale : scale = [cpu |-> budget_scale(shares, "cpu"), memory |-> budget_scale(shares, "memory")]
  OBVIOUS
<1>2. scale.cpu = <<uc, vc>> /\ scale.memory = <<um, vm>>
  BY <1>1
<1>3. PICK factor \in 0..100 : \E made :
          /\ made = Limits(prof, None, share, None, scale, None, factor, None)
          /\ lim.cpus = made.cpus /\ lim.memory = made.memory
          /\ lim.memswap = made.memswap /\ lim.pids = made.pids
  BY <1>1 DEF SizedAs
<1>4. PICK made :
          /\ made = Limits(prof, None, share, None, scale, None, factor, None)
          /\ lim.cpus = made.cpus /\ lim.memory = made.memory
          /\ lim.memswap = made.memswap /\ lim.pids = made.pids
  BY <1>3
<1>5. Sized(made, prof, share, um, vm, uc, vc)
  BY <1>2, <1>4, LimitSizes
<1>6. QED
  BY <1>4, <1>5 DEF Sized

LEMMA PlacesAreFinite ==
    ASSUME NEW services, NEW stacks \in SUBSET DOMAIN SERVICE_SHARES, \A s \in stacks : IsFiniteSet(services[s])
    PROVE  IsFiniteSet(Places(services, stacks))
<1> DEFINE Of(s) == IF s \in stacks THEN {s} \X services[s] ELSE {}
<1>1. ASSUME NEW s PROVE IsFiniteSet(Of(s))
  <2>1. CASE s \in stacks
    BY <2>1, FS_Singleton, FS_Product
  <2>2. CASE s \notin stacks
    BY <2>2, FS_EmptySet
  <2>3. QED
    BY <2>1, <2>2
<1>2. Places(services, stacks) = ((Of("iot") \cup Of("ai")) \cup (Of("edge") \cup Of("dashboard"))) \cup Of("extras")
  <2>1. DOMAIN SERVICE_SHARES = {"iot", "ai", "edge", "dashboard", "extras"}
    BY DEF SERVICE_SHARES
  <2>2. \A x : x \in Places(services, stacks) <=> \E s \in DOMAIN SERVICE_SHARES : x \in Of(s)
    BY DEF Places
  <2> HIDE DEF Of
  <2>3. QED
    BY <2>1, <2>2
<1> HIDE DEF Of
<1>3. IsFiniteSet(Of("iot") \cup Of("ai")) /\ IsFiniteSet(Of("edge") \cup Of("dashboard"))
  BY <1>1, FS_Union
<1>4. IsFiniteSet((Of("iot") \cup Of("ai")) \cup (Of("edge") \cup Of("dashboard")))
  BY <1>3, FS_Union
<1>5. QED
  BY <1>1, <1>2, <1>4, FS_Union

(* The limits of some of the services that share a board fit into it. *)
LEMMA BoardFits ==
    ASSUME NEW services, NEW stacks \in SUBSET DOMAIN SERVICE_SHARES, \A s \in stacks : IsFiniteSet(services[s]),
           NEW overrides, SensibleShares(overrides), NEW prof, SensibleProfile(prof),
           NEW shares, shares = Shares(services, stacks, overrides, prof),
           NEW lims, NEW X, X = DOMAIN lims, X \subseteq Places(services, stacks),
           \A x \in X : SizedAs(lims[x], prof, shares[x], shares)
    PROVE  Fits(lims, prof)
<1>1. PICK Y : Y = Places(services, stacks) /\ IsFiniteSet(Y) /\ X \in SUBSET Y
  BY PlacesAreFinite
<1>2. \A x \in Y : Share100(shares[x]) /\ shares[x].fixed \in BOOLEAN
  BY <1>1, SharesAre
<1>3. PICK F \in SUBSET Y : \A x \in Y : x \in F <=> shares[x].fixed
  <2> WITNESS {x \in Y : shares[x].fixed} \in SUBSET Y
  <2>1. QED
    OBVIOUS
<1>4. PICK hm, hc : (\A x \in Y : hm[x] = shares[x]["memory"]) /\ \A x \in Y : hc[x] = shares[x]["cpu"]
  <2>1. PICK hm : hm = [x \in Y |-> shares[x]["memory"]]
    OBVIOUS
  <2>2. PICK hc : hc = [x \in Y |-> shares[x]["cpu"]]
    OBVIOUS
  <2>3. (\A x \in Y : hm[x] = shares[x]["memory"]) /\ \A x \in Y : hc[x] = shares[x]["cpu"]
    BY <2>1, <2>2
  <2>4. QED
    BY <2>3
<1>5. PICK um \in Nat, vm \in Nat \ {0} : \E free, fixed : Within(shares, "memory", Y, F, hm, um, vm, free, fixed)
  BY <1>1, <1>3, <1>4, Scaled
<1>6. PICK uc \in Nat, vc \in Nat \ {0} : \E free, fixed : Within(shares, "cpu", Y, F, hc, uc, vc, free, fixed)
  BY <1>1, <1>3, <1>4, Scaled
<1>7. (\A x \in Y : hm[x] \in Nat) /\ \A x \in Y : hc[x] \in Nat
  BY <1>2, <1>4 DEF Share100
<1>8. \A x \in X : Sized(lims[x], prof, shares[x], um, vm, uc, vc)
  <2>1. budget_scale(shares, "cpu") = <<uc, vc>> /\ budget_scale(shares, "memory") = <<um, vm>>
    BY <1>5, <1>6 DEF Within
  <2>2. QED
    BY <1>1, <1>2, <2>1, SizesOf
<1>9. /\ prof.cpus \in Nat /\ prof.pids \in Nat /\ prof.memory \in Nat \ {0} /\ prof.swap \in Nat
      /\ _MIN_MEMORY_MB \in Nat /\ _MIN_PIDS \in Nat
  BY DEF SensibleProfile, _MIN_MEMORY_MB, _MIN_PIDS
<1>10. PICK M, P : M = {x \in X : lims[x].memory = _MIN_MEMORY_MB} /\ P = {x \in X : lims[x].pids = _MIN_PIDS}
  OBVIOUS
<1>11. M \in SUBSET X /\ P \in SUBSET X
  BY <1>10
<1>12. SumOf(lims, "memory") <= prof.memory + _MIN_MEMORY_MB * Cardinality(M)
  <2>1. Packs(lims, "memory", shares, hm, X, M, prof.memory, _MIN_MEMORY_MB, um, vm)
    BY <1>1, <1>4, <1>8, <1>10 DEF Packs, Sized, Extra
  <2>2. QED
    BY <1>1, <1>3, <1>5, <1>7, <1>9, <1>11, <2>1, FieldFits
<1>13. SumOf(lims, "memswap") <= prof.swap + ((_MIN_MEMORY_MB * prof.swap) \div prof.memory) * Cardinality(M)
  <2>1. PICK r \in Nat : r = (_MIN_MEMORY_MB * prof.swap) \div prof.memory
    BY <1>9, DividedIs
  <2>2. Packs(lims, "memswap", shares, hm, X, M, prof.swap, r, um, vm)
    BY <1>1, <1>4, <1>8, <1>10, <2>1 DEF Packs, Sized, Extra
  <2>3. SumOf(lims, "memswap") <= prof.swap + r * Cardinality(M)
    BY <1>1, <1>3, <1>5, <1>7, <1>9, <1>11, <2>2, FieldFits
  <2>4. QED
    BY <2>1, <2>3
<1>14. SumOf(lims, "pids") <= prof.pids + _MIN_PIDS * Cardinality(P)
  <2>1. Packs(lims, "pids", shares, hm, X, P, prof.pids, _MIN_PIDS, um, vm)
    BY <1>1, <1>4, <1>8, <1>10 DEF Packs, Sized, Extra
  <2>2. QED
    BY <1>1, <1>3, <1>5, <1>7, <1>9, <1>11, <2>1, FieldFits
<1>15. SumOf(lims, "cpus") <= prof.cpus + 1 * Cardinality(X)
  <2>1. Packs(lims, "cpus", shares, hc, X, X, prof.cpus, 1, uc, vc)
    BY <1>1, <1>4, <1>8 DEF Packs, Sized
  <2>2. X \in SUBSET X /\ 1 \in Nat
    OBVIOUS
  <2>3. QED
    BY <1>1, <1>3, <1>6, <1>7, <1>9, <2>1, <2>2, FieldFits
<1>16. SumOf(lims, "cpus") <= prof.cpus + Cardinality(X)
  <2>1. Cardinality(X) \in Nat
    BY <1>1, FS_Subset, FS_CardinalityType
  <2>2. 1 * Cardinality(X) = Cardinality(X)
    BY <2>1
  <2>3. QED
    BY <1>15, <2>2
<1>17. \A x \in X : lims[x].memswap >= lims[x].memory
  BY <1>8 DEF Sized
<1>18. AtLeast(lims, "memory", _MIN_MEMORY_MB) = Cardinality(M) /\ AtLeast(lims, "pids", _MIN_PIDS) = Cardinality(P)
  BY <1>10 DEF AtLeast
<1>19. QED
  BY <1>12, <1>13, <1>14, <1>16, <1>17, <1>18 DEF Fits

-----------------------------------------------------------------------------
(* LimitsFit: what loaders let pass, and a project of the stacks known.    *)
SensibleProject ==
    /\ Sensible
    /\ Stacks \subseteq DOMAIN SERVICE_SHARES /\ Enabled \subseteq Stacks
    /\ \A s \in Stacks : IsFiniteSet(Services[s])
    /\ \A p \in Profiles : SensibleProfile(p)
    /\ \A p, q \in Profiles : p.name = q.name => p = q
    /\ \A c \in Commands : c.profile \in Profiles
    /\ SensibleShares(Overrides)
    /\ HostCpus \in Nat
    /\ \A p \in {Native, "linux/arm64"} : HostScore[p] = None \/ HostScore[p] \in Nat \ {0}

OnCores(cpuset) == cpuset # None => cpuset \subseteq 0..HostCpus - 1

LimitNames == {"cpus", "memory", "memswap", "pids", "cpuset", "profile"}

(* An entry's CPUs are the host's; its sizes are what its service gets     *)
(* when all the enabled stacks share the board of its profile.             *)
OfHost(lim) == LimitNames \subseteq DOMAIN lim /\ OnCores(lim.cpuset)

OfBoard(lim, s, c) ==
    \E prof \in Profiles :
        /\ lim.profile = prof.name
        /\ SizedAs(lim, prof, SharesOf(prof, {})[<<s, c>>], SharesOf(prof, {}))

(* As long as no stack strays from the project. *)
OfProject(lim, s, c, clean) == OfHost(lim) /\ (clean => s \in Enabled /\ OfBoard(lim, s, c))

FitOverlay(o, s, clean) ==
    /\ o.platform \in {None, "linux/arm64"} /\ OnCores(o.cpuset)
    /\ clean => s \in Enabled
    /\ \A c \in Services[s] : OfProject(o.services[c], s, c, clean)

Limited(s, c) == containers[s][c] \notin {None, Plain}

Fitting ==
    /\ \A s \in Stacks : overlay[s] # None => FitOverlay(overlay[s], s, strays = {})
    /\ \A s \in Stacks : \A c \in Services[s] : Limited(s, c) => OfProject(containers[s][c], s, c, strays = {})
    /\ \A t \in Terminals :
        /\ term[t].step \in {"update", "record"} =>
            \A s \in DOMAIN term[t].new : term[t].new[s] # None => FitOverlay(term[t].new[s], s, strays = {})
        /\ term[t].step \in Ups =>
            /\ strays = {} => ToSet(term[t].cmd.stacks) \subseteq Enabled
            /\ term[t].cmd.auto => HasCores(term[t].cmd.profile)

-----------------------------------------------------------------------------
LEMMA FactorIs ==
    ASSUME SensibleProject, NEW prof \in Profiles, NEW platform \in {None, "linux/arm64"}
    PROVE  resolve_cpu_factor(prof, platform) \in 0..100
<1>1. PICK on \in {Native, "linux/arm64"} : on = IF platform = None THEN Native ELSE platform
  OBVIOUS
<1>2. /\ HostScore[on] = None \/ HostScore[on] \in Nat \ {0}
      /\ prof.score = None \/ prof.score \in Nat
  BY DEF SensibleProject, SensibleProfile
<1>3. resolve_cpu_factor(prof, platform) =
        IF prof.score = None \/ HostScore[on] = None \/ prof.score > HostScore[on]
        THEN 100 ELSE (100 * prof.score) \div HostScore[on]
  BY <1>1 DEF resolve_cpu_factor
<1>4. CASE prof.score = None \/ HostScore[on] = None \/ prof.score > HostScore[on]
  BY <1>3, <1>4
<1>5. CASE ~(prof.score = None \/ HostScore[on] = None \/ prof.score > HostScore[on])
  <2>1. PICK a \in Nat, b \in Nat \ {0} : a = prof.score /\ b = HostScore[on] /\ a <= b
    BY <1>2, <1>5
  <2>2. 100 * a <= b * 100
    BY <2>1
  <2>3. PICK q \in Nat : q = (100 * a) \div b /\ b * q <= 100 * a
    BY DividedIs
  <2>4. b * q <= b * 100
    BY <2>2, <2>3
  <2>5. q <= 100
    BY <2>4
  <2>6. QED
    <3>1. resolve_cpu_factor(prof, platform) = (100 * prof.score) \div HostScore[on]
      BY <1>3, <1>5
    <3>2. resolve_cpu_factor(prof, platform) = q
      BY <2>1, <2>3, <3>1
    <3>3. QED
      BY <2>3, <2>5, <3>2
<1>6. QED
  BY <1>4, <1>5

LEMMA CoresAre ==
    ASSUME SensibleProject, NEW prof \in Profiles, HasCores(prof)
    PROVE  OnCores(resolve_cpuset(prof))
<1>1. Cores(prof) \in Int
  BY DEF Cores, SensibleProject, SensibleProfile
<1>2. QED
  BY <1>1 DEF HasCores, OnCores, resolve_cpuset, SensibleProject

LEMMA PlatformIs ==
    ASSUME NEW prof, NEW native PROVE resolve_platform(prof, native) \in {None, "linux/arm64"}
BY DEF resolve_platform, PlatformOf

(* The sizes of an entry do not hang on anything else that it says. *)
LEMMA LimitsAre ==
    ASSUME NEW prof, NEW name, NEW share, NEW platform, NEW scale, NEW gpu, NEW factor, NEW cpuset,
           NEW lim, lim = Limits(prof, name, share, platform, scale, gpu, factor, cpuset),
           NEW made, made = Limits(prof, None, share, None, scale, None, factor, None)
    PROVE  /\ LimitNames \subseteq DOMAIN lim
           /\ lim.profile = prof.name /\ lim.cpuset = cpuset
           /\ lim.cpus = made.cpus /\ lim.memory = made.memory
           /\ lim.memswap = made.memswap /\ lim.pids = made.pids
BY DEF Limits, LimitNames

LEMMA RenderedFits ==
    ASSUME SensibleProject, NEW clean, NEW prof \in Profiles, NEW s \in Stacks, NEW shares,
           NEW platform \in {None, "linux/arm64"}, NEW gpu, NEW cpuset, OnCores(cpuset), NEW auto,
           clean => s \in Enabled /\ shares = SharesOf(prof, {}),
           NEW o, o = render_overlay(prof, s, Services[s], shares, platform, gpu, cpuset, auto)
    PROVE  FitOverlay(o, s, clean)
<1> DEFINE scale == [cpu |-> budget_scale(shares, "cpu"), memory |-> budget_scale(shares, "memory")]
           factor == resolve_cpu_factor(prof, platform)
           limits == [name \in Services[s] |->
                         Limits(prof, name, shares[<<s, name>>], platform, scale, gpu, factor, cpuset)]
<1>1. o = [profile |-> prof.name, platform |-> platform, gpu |-> gpu, cpuset |-> cpuset, auto |-> auto,
           services |-> limits]
  BY DEF render_overlay
<1>2. factor \in 0..100
  BY FactorIs
<1>3. ASSUME NEW c \in Services[s] PROVE OfProject(limits[c], s, c, clean)
  <2> DEFINE lim == limits[c]
             made == Limits(prof, None, shares[<<s, c>>], None, scale, None, factor, None)
  <2>1. lim = Limits(prof, c, shares[<<s, c>>], platform, scale, gpu, factor, cpuset)
    OBVIOUS
  <2> HIDE DEF lim
  <2>2. /\ LimitNames \subseteq DOMAIN lim
        /\ lim.profile = prof.name /\ lim.cpuset = cpuset
        /\ lim.cpus = made.cpus /\ lim.memory = made.memory
        /\ lim.memswap = made.memswap /\ lim.pids = made.pids
    <3> HIDE DEF scale, factor
    <3>1. QED
      BY <2>1, LimitsAre
  <2>3. SizedAs(lim, prof, shares[<<s, c>>], shares)
    <3>1. /\ lim.cpus = made.cpus /\ lim.memory = made.memory
          /\ lim.memswap = made.memswap /\ lim.pids = made.pids
      BY <2>2
    <3> HIDE DEF factor
    <3>2. QED
      BY <1>2, <3>1 DEF SizedAs
  <2>4. OfHost(lim)
    BY <2>2 DEF OfHost
  <2>5. ASSUME clean PROVE s \in Enabled /\ OfBoard(lim, s, c)
    BY <2>2, <2>3, <2>5 DEF OfBoard
  <2>6. OfProject(lim, s, c, clean)
    BY <2>4, <2>5 DEF OfProject
  <2>7. QED
    BY <2>6 DEF lim
<1> HIDE DEF limits
<1>4. QED
  BY <1>1, <1>3 DEF FitOverlay

LEMMA SharedByAll == ASSUME NEW prof, NEW stacks, stacks \subseteq Enabled
                     PROVE  SharesOf(prof, stacks) = SharesOf(prof, {})
<1>1. budget_stacks(stacks) = budget_stacks({})
  BY DEF budget_stacks
<1>2. QED
  BY <1>1 DEF SharesOf

(* What an up writes, and what a switch does. *)
LEMMA UpFits ==
    ASSUME SensibleProject, NEW clean, NEW c \in Commands, c.cmd = "up", c.auto => HasCores(c.profile),
           clean => ToSet(c.stacks) \subseteq Enabled, NEW s \in ToSet(c.stacks)
    PROVE  FitOverlay(Overlays[c][s], s, clean)
<1> DEFINE platform == resolve_platform(c.profile, c.native)
           cpuset == IF c.auto THEN resolve_cpuset(c.profile) ELSE None
<1>1. Overlays[c][s] = render_overlay(c.profile, s, Services[s], SharesOf(c.profile, ToSet(c.stacks)),
                                      platform, resolve_gpu(c.profile, platform), cpuset, c.auto)
  BY DEF Overlays
<1>2. c.profile \in Profiles /\ s \in Stacks
  BY ElementsOf DEF SensibleProject, Sensible
<1>3. platform \in {None, "linux/arm64"}
  BY PlatformIs
<1>4. OnCores(cpuset)
  BY <1>2, CoresAre DEF OnCores
<1>5. clean => s \in Enabled /\ SharesOf(c.profile, ToSet(c.stacks)) = SharesOf(c.profile, {})
  BY SharedByAll
<1> HIDE DEF platform, cpuset
<1>6. QED
  BY <1>1, <1>2, <1>3, <1>4, <1>5, RenderedFits

LEMMA SwitchFits ==
    ASSUME SensibleProject, NEW clean, NEW prof \in Profiles, NEW s \in Stacks, NEW stacks,
           overlay[s] # None, FitOverlay(overlay[s], s, clean), clean => stacks \subseteq Enabled,
           Switched(prof, s, stacks) # None
    PROVE  FitOverlay(Switched(prof, s, stacks), s, clean)
<1> DEFINE old == overlay[s]
           cpuset == IF old.auto THEN resolve_cpuset(prof) ELSE old.cpuset
<1>1. /\ Switched(prof, s, stacks) = render_overlay(prof, s, Services[s], SharesOf(prof, stacks),
                                                    old.platform, old.gpu, cpuset, old.auto)
      /\ old.auto => HasCores(prof)
  BY DEF Switched
<1>2. old.platform \in {None, "linux/arm64"} /\ OnCores(old.cpuset)
  BY DEF FitOverlay
<1>3. OnCores(cpuset)
  BY <1>1, <1>2, CoresAre
<1>4. clean => s \in Enabled /\ SharesOf(prof, stacks) = SharesOf(prof, {})
  BY SharedByAll DEF FitOverlay
<1> HIDE DEF cpuset, old
<1>5. QED
  BY <1>1, <1>2, <1>3, <1>4, RenderedFits

LEMMA UpdatedFits ==
    ASSUME NEW clean, NEW s \in Stacks, NEW c \in Services[s], NEW old, old # Plain => OfProject(old, s, c, clean),
           NEW lim, OfProject(lim, s, c, clean)
    PROVE  OfProject(Updated(old, lim), s, c, clean)
<1> DEFINE new == Updated(old, lim)
<1>1. /\ DOMAIN new = DOMAIN lim /\ new.profile = lim.profile
      /\ new.cpus = lim.cpus /\ new.memory = lim.memory
      /\ new.memswap = lim.memswap /\ new.pids = lim.pids
  BY DEF Updated, OfProject, OfHost, LimitNames
<1>2. new.cpuset = lim.cpuset \/ (old # Plain /\ new.cpuset = old.cpuset)
  BY DEF Updated, OfProject, OfHost, LimitNames
<1> HIDE DEF new
<1>3. OfHost(new)
  BY <1>1, <1>2 DEF OfProject, OfHost
<1>4. OfBoard(lim, s, c) => OfBoard(new, s, c)
  BY <1>1 DEF OfBoard, SizedAs
<1>5. OfProject(new, s, c, clean)
  BY <1>3, <1>4 DEF OfProject
<1>6. QED
  BY <1>5 DEF new

(* The limits of a project's containers, of which no stack strays, fit.    *)
LEMMA FittingFits == ASSUME SensibleProject, Types, Fitting PROVE LimitsFit
<1> DEFINE C == {x \in UNION {{s} \X Services[s] : s \in Stacks} : containers[x[1]][x[2]] \notin {None, Plain}}
           X(prof) == {x \in C : containers[x[1]][x[2]].profile = prof.name}
<1>1. ASSUME NEW prof, NEW x \in X(prof)
      PROVE  /\ \E s \in Stacks : \E c \in Services[s] : x = <<s, c>> /\ Limited(s, c)
             /\ OfProject(containers[x[1]][x[2]], x[1], x[2], strays = {})
             /\ LimitsFor(prof)[x] = containers[x[1]][x[2]]
             /\ containers[x[1]][x[2]].profile = prof.name
  <2>1. PICK s, c : s \in Stacks /\ c \in Services[s] /\ x = <<s, c>>
    OBVIOUS
  <2>2. x[1] = s /\ x[2] = c /\ Limited(s, c)
    BY <2>1 DEF Limited
  <2>3. OfProject(containers[s][c], s, c, strays = {})
    BY <2>2 DEF Fitting
  <2>4. LimitsFor(prof)[x] = containers[x[1]][x[2]]
    BY DEF LimitsFor
  <2>5. QED
    BY <2>1, <2>2, <2>3, <2>4
<1>2. \A prof : DOMAIN LimitsFor(prof) = X(prof)
  BY DEF LimitsFor
<1> HIDE DEF X
<1>3. ASSUME NEW prof \in Profiles, NEW x \in DOMAIN LimitsFor(prof), LimitsFor(prof)[x].cpuset # None
      PROVE  LimitsFor(prof)[x].cpuset \subseteq 0..HostCpus - 1
  BY <1>1, <1>2, <1>3 DEF OfProject, OfHost, OnCores
<1>4. ASSUME strays = {}, NEW prof \in Profiles PROVE Fits(LimitsFor(prof), prof)
  <2>1. PICK shares : shares = Shares(Services, Enabled, Overrides, prof)
    OBVIOUS
  <2>2. SharesOf(prof, {}) = shares
    BY <2>1 DEF SharesOf, budget_stacks
  <2>3. ASSUME NEW x \in X(prof)
        PROVE  x \in Places(Services, Enabled) /\ SizedAs(LimitsFor(prof)[x], prof, shares[x], shares)
    <3>1. PICK s, c : s \in Stacks /\ c \in Services[s] /\ x = <<s, c>>
      BY <1>1, <2>3
    <3>2. OfProject(containers[s][c], s, c, strays = {}) /\ LimitsFor(prof)[x] = containers[s][c]
          /\ containers[s][c].profile = prof.name
      BY <1>1, <2>3, <3>1
    <3>3. s \in Enabled
      BY <1>4, <3>2 DEF OfProject
    <3>4. PICK p \in Profiles : /\ containers[s][c].profile = p.name
                                /\ SizedAs(containers[s][c], p, SharesOf(p, {})[<<s, c>>], SharesOf(p, {}))
      BY <1>4, <3>2 DEF OfProject, OfBoard
    <3>5. p = prof
      BY <3>2, <3>4 DEF SensibleProject
    <3>6. QED
      BY <2>2, <3>1, <3>2, <3>3, <3>4, <3>5 DEF Places
  <2>4. /\ Enabled \in SUBSET DOMAIN SERVICE_SHARES /\ SensibleProfile(prof) /\ SensibleShares(Overrides)
        /\ \A s \in Enabled : IsFiniteSet(Services[s])
    BY DEF SensibleProject
  <2>5. PICK Z : Z = DOMAIN LimitsFor(prof)
    OBVIOUS
  <2>6. Z \subseteq Places(Services, Enabled) /\ \A x \in Z : SizedAs(LimitsFor(prof)[x], prof, shares[x], shares)
    BY <1>2, <2>3, <2>5
  <2>7. QED
    BY <2>1, <2>4, <2>5, <2>6, BoardFits
<1>5. QED
  BY <1>3, <1>4 DEF LimitsFit

-----------------------------------------------------------------------------
LEMMA StraysGrow ==
    ASSUME NEW t \in Terminals, Act(t) PROVE strays \subseteq strays' /\ (~Command(t) => UNCHANGED strays)
<1>1. CASE Command(t)
  BY <1>1 DEF Command, up, down, switch, Type
<1>2. CASE ~Command(t)
  BY <1>2 DEF Act, Upping, Skip, Look, Write, ensure_network, ComposeUp, ComposeFails,
     Ending, Finish, RolledBack, Stopped, Recorded, Refuse, Interrupt,
     RollBack, DropOverlay, Stop, RemoveOverlay, PassOver, Update, Record
<1>3. QED
  BY <1>1, <1>2

(* A stray less, and all that fitted fits. *)
LEMMA Weaker ==
    ASSUME NEW clean, NEW cleaner, cleaner => clean, NEW s
    PROVE  /\ \A lim, c : OfProject(lim, s, c, clean) => OfProject(lim, s, c, cleaner)
           /\ \A o : FitOverlay(o, s, clean) => FitOverlay(o, s, cleaner)
BY DEF OfProject, FitOverlay

LEMMA OverlaysFit ==
    ASSUME SensibleProject, Types, Fitting, NEW t \in Terminals, Act(t), NEW s \in Stacks, overlay'[s] # None
    PROVE  FitOverlay(overlay'[s], s, strays = {})
<1>1. CASE overlay'[s] = overlay[s]
  BY <1>1 DEF Fitting
<1>2. CASE Write(t) /\ s = Stack(t)
  <2>1. At(t, "write") /\ overlay'[s] = Overlays[term[t].cmd][s]
    BY <1>2 DEF Write, Types
  <2>2. term[t].queue # <<>> /\ term[t].cmd \in Commands /\ term[t].cmd.cmd = "up"
        /\ ToSet(term[t].queue) \subseteq ToSet(term[t].cmd.stacks)
    BY <2>1 DEF Types, Terminal, At, OnStack, Ups
  <2>3. s \in ToSet(term[t].cmd.stacks)
    BY <1>2, <2>2, StackIs
  <2>4. /\ (strays = {}) => ToSet(term[t].cmd.stacks) \subseteq Enabled
        /\ term[t].cmd.auto => HasCores(term[t].cmd.profile)
    BY <2>1 DEF Fitting, At, Ups
  <2>5. QED
    BY <2>1, <2>2, <2>3, <2>4, UpFits
<1>3. CASE Record(t) /\ s = Stack(t)
  <2>1. At(t, "record") /\ overlay'[s] = term[t].new[s]
    BY <1>3 DEF Record, Types
  <2>2. s \in DOMAIN term[t].new /\ term[t].new[s] # None
    BY <1>3, <2>1 DEF Types, Terminal
  <2>3. QED
    BY <2>1, <2>2 DEF Fitting, At
<1>4. overlay'[s] = overlay[s] \/ ((Write(t) \/ Record(t)) /\ s = Stack(t))
  <2>1. CASE Write(t) \/ Record(t)
    BY <2>1 DEF Write, Record, Types
  <2>2. CASE ~(Write(t) \/ Record(t))
    <3>1. UNCHANGED overlay \/ \E x \in Stacks : overlay' = [overlay EXCEPT ![x] = None]
      BY <2>2, OverlaysChange DEF SensibleProject
    <3>2. QED
      BY <3>1 DEF Types
  <2>3. QED
    BY <2>1, <2>2
<1>5. QED
  BY <1>1, <1>2, <1>3, <1>4

LEMMA ContainersFit ==
    ASSUME SensibleProject, Types, Fitting, NEW t \in Terminals, Act(t),
           NEW s \in Stacks, NEW c \in Services[s], Limited(s, c)'
    PROVE  OfProject(containers'[s][c], s, c, strays = {})
<1>0. overlay[s] # None => FitOverlay(overlay[s], s, strays = {})
  BY DEF Fitting
<1>1. CASE containers'[s][c] = containers[s][c]
  BY <1>1 DEF Fitting, Limited
<1>2. CASE overlay[s] # None /\ containers'[s][c] = overlay[s].services[c]
  BY <1>0, <1>2 DEF FitOverlay
<1>3. CASE Update(t) /\ s = Stack(t) /\ containers[s][c] # None
           /\ containers'[s][c] = Updated(containers[s][c], term[t].new[s].services[c])
  <2>1. At(t, "update") /\ s \in DOMAIN term[t].new /\ term[t].new[s] # None
    BY <1>3 DEF Update
  <2>2. FitOverlay(term[t].new[s], s, strays = {})
    BY <2>1 DEF Fitting, At
  <2>3. OfProject(term[t].new[s].services[c], s, c, strays = {})
    BY <2>2 DEF FitOverlay
  <2>4. containers[s][c] # Plain => OfProject(containers[s][c], s, c, strays = {})
    BY <1>3 DEF Fitting, Limited
  <2>5. QED
    BY <1>3, <2>3, <2>4, UpdatedFits
<1>4. \/ containers'[s][c] = containers[s][c]
      \/ overlay[s] # None /\ containers'[s][c] = overlay[s].services[c]
      \/ Update(t) /\ s = Stack(t) /\ containers[s][c] # None
         /\ containers'[s][c] = Updated(containers[s][c], term[t].new[s].services[c])
  <2>1. ASSUME NEW x \in Stacks, NEW now, Become(x, now), x # s PROVE containers'[s] = containers[s]
    BY <2>1, BecomeIs
  <2>2. ASSUME NEW now, Become(s, now) PROVE containers'[s] = now
    BY <2>2, BecomeIs
  <2>3. CASE ComposeUp(t) \/ ComposeFails(t)
    <3>1. term[t].queue # <<>> /\ Stack(t) \in Stacks
      BY <2>3, StackIs DEF ComposeUp, ComposeFails, Types, Terminal, At, OnStack
    <3>2. CASE ComposeUp(t) /\ s = Stack(t)
      <4>1. Become(s, overlay[s].services) /\ overlay[s] # None
        BY <3>2 DEF ComposeUp, Composes
      <4>2. QED
        BY <2>2, <4>1
    <3>3. CASE ComposeFails(t) /\ s = Stack(t)
      <4>1. PICK made \in IF Composes(s) THEN SUBSET Services[s] ELSE {{}} :
              Become(s, [e \in Services[s] |-> IF e \in made THEN overlay[s].services[e] ELSE containers[s][e]])
        BY <3>3 DEF ComposeFails
      <4>2. containers'[s][c] = IF c \in made THEN overlay[s].services[c] ELSE containers[s][c]
        BY <2>2, <4>1
      <4>3. c \in made => overlay[s] # None
        BY <4>1 DEF Composes
      <4>4. QED
        BY <4>2, <4>3
    <3>4. CASE s # Stack(t)
      <4>1. \E now : Become(Stack(t), now)
        BY <2>3 DEF ComposeUp, ComposeFails
      <4>2. QED
        BY <2>1, <3>1, <3>4, <4>1
    <3>5. QED
      BY <2>3, <3>2, <3>3, <3>4
  <2>4. CASE Update(t)
    <3>1. Stack(t) \in Stacks
      BY <2>4, StackIs DEF Update
    <3>2. PICK ok \in SUBSET {e \in Services[Stack(t)] : containers[Stack(t)][e] # None} :
            Become(Stack(t), [e \in Services[Stack(t)] |->
                IF e \in ok THEN Updated(containers[Stack(t)][e], term[t].new[Stack(t)].services[e])
                ELSE containers[Stack(t)][e]])
      BY <2>4 DEF Update
    <3>3. CASE s = Stack(t)
      <4>1. containers'[s][c] = IF c \in ok THEN Updated(containers[s][c], term[t].new[s].services[c])
                                ELSE containers[s][c]
        BY <2>2, <3>2, <3>3
      <4>2. QED
        BY <2>4, <3>2, <3>3, <4>1
    <3>4. CASE s # Stack(t)
      BY <2>1, <3>1, <3>2, <3>4
    <3>5. QED
      BY <3>3, <3>4
  <2>5. CASE ~(ComposeUp(t) \/ ComposeFails(t) \/ Update(t))
    <3>1. \/ UNCHANGED containers
          \/ \E x \in Stacks : \E now : Become(x, now)
                                      /\ \A e \in Services[x] : now[e] \in {None, containers[x][e]}
      BY <2>5, ContainersChange DEF SensibleProject
    <3>2. ASSUME NEW x \in Stacks, NEW now, Become(x, now),
                 \A e \in Services[x] : now[e] \in {None, containers[x][e]}
          PROVE  containers'[s][c] = containers[s][c]
      <4>1. containers'[s][c] # None
        BY DEF Limited
      <4>2. CASE x = s
        BY <2>2, <3>2, <4>1, <4>2
      <4>3. CASE x # s
        BY <2>1, <3>2, <4>3
      <4>4. QED
        BY <4>2, <4>3
    <3>3. QED
      BY <3>1, <3>2
  <2>6. QED
    BY <2>3, <2>4, <2>5
<1>5. QED
  BY <1>1, <1>2, <1>3, <1>4

(* A command that is under way stays the same. *)
LEMMA CmdStays ==
    ASSUME Sensible, Types, NEW t \in Terminals, Act(t), ~Command(t), term'[t].step \in Ups
    PROVE  term[t].step \in Ups /\ term'[t].cmd = term[t].cmd
<1>1. CASE Skip(t)
  BY <1>1, NextStackTurns DEF Skip, At, Kept, Fields, Ups
<1>2. CASE Look(t)
  BY <1>2, LookIs DEF At, Kept, Fields, Ups
<1>3. CASE Write(t) \/ ensure_network(t)
  BY <1>3, GoTurns DEF Write, ensure_network, At, Kept, Fields, Ups
<1>4. CASE ComposeUp(t)
  <2>1. At(t, "compose")
    BY <1>4 DEF ComposeUp
  <2>2. QED
    BY <1>4, <2>1, ComposeTurns DEF At, Kept, Fields, Ups
<1>5. CASE ComposeFails(t)
  <2>1. term'[t].step = "rollback"
    BY <1>5, RollBackTurns DEF ComposeFails
  <2>2. QED
    BY <2>1 DEF Ups
<1>6. CASE RollBack(t) \/ DropOverlay(t)
  BY <1>6, BackLeads DEF Ups
<1>7. CASE Stop(t) \/ RemoveOverlay(t)
  BY <1>7, DownLeads DEF Ups
<1>8. CASE PassOver(t) \/ Update(t) \/ Record(t)
  BY <1>8, SwitchLeads DEF Ups
<1>9. CASE Ending(t)
  BY <1>9, EndLeads, IdleIs DEF Ups
<1>10. QED
  BY <1>1, <1>2, <1>3, <1>4, <1>5, <1>6, <1>7, <1>8, <1>9 DEF Act, Upping

LEMMA CommandFits ==
    ASSUME SensibleProject, Types, Fitting, NEW t \in Terminals, NEW c \in Commands,
           up(t, c) \/ down(t, c) \/ switch(t, c)
    PROVE  /\ term'[t].step \in {"update", "record"} =>
                \A s \in DOMAIN term'[t].new : term'[t].new[s] # None => FitOverlay(term'[t].new[s], s, strays = {})
           /\ term'[t].step \in Ups =>
                /\ (strays' = {}) => ToSet(term'[t].cmd.stacks) \subseteq Enabled
                /\ term'[t].cmd.auto => HasCores(term'[t].cmd.profile)
<1>1. CASE up(t, c)
  <2>1. term'[t].step = "look" /\ term'[t].cmd = c
    BY <1>1, UpTyped
  <2>2. /\ c.auto => HasCores(c.profile)
        /\ strays' = strays \cup (ToSet(c.stacks) \ Enabled)
    BY <1>1 DEF up, Type
  <2>3. (strays' = {}) => ToSet(c.stacks) \subseteq Enabled
    BY <2>2
  <2>4. QED
    BY <2>1, <2>2, <2>3
<1>2. CASE down(t, c)
  BY <1>2, DownTyped DEF Ups
<1>3. CASE switch(t, c)
  <2> DEFINE running == {s \in ToSet(c.stacks) : overlay[s] # None}
             new == [s \in running |-> Switched(c.profile, s, running)]
  <2>1. term'[t].step = "update" /\ term'[t].new = new
    BY <1>3, SwitchTyped
  <2>2. ASSUME NEW s \in running, Switched(c.profile, s, running) # None
        PROVE  FitOverlay(Switched(c.profile, s, running), s, strays = {})
    <3>1. running \subseteq Stacks
      BY ElementsOf DEF SensibleProject, Sensible
    <3>2. \A x \in running : overlay[x] # None /\ FitOverlay(overlay[x], x, strays = {})
      BY <3>1 DEF Fitting
    <3>3. (strays = {}) => running \subseteq Enabled
      BY <3>2 DEF FitOverlay
    <3>5. c.profile \in Profiles
      BY DEF SensibleProject
    <3>6. PICK some : some = running
      OBVIOUS
    <3>4. Switched(c.profile, s, some) # None
      BY <2>2, <3>6
    <3> HIDE DEF running
    <3>7. FitOverlay(Switched(c.profile, s, some), s, strays = {})
      BY <3>1, <3>2, <3>3, <3>4, <3>5, <3>6, SwitchFits
    <3>8. QED
      BY <3>6, <3>7
  <2>3. \A s \in running : new[s] = Switched(c.profile, s, running)
    OBVIOUS
  <2>4. DOMAIN new = running
    OBVIOUS
  <2> HIDE DEF running, new
  <2>5. QED
    BY <2>1, <2>2, <2>3, <2>4 DEF Ups
<1>4. QED
  BY <1>1, <1>2, <1>3

LEMMA NextFits == ASSUME SensibleProject, Types, Fitting, [Next]_vars PROVE Fitting'
<1>1. CASE UNCHANGED vars
  <2>1. /\ overlay' = overlay /\ containers' = containers /\ term' = term /\ strays' = strays
    BY <1>1 DEF vars
  <2>2. QED
    BY <2>1 DEF Fitting, Limited
<1>2. ASSUME NEW t \in Terminals, Act(t) PROVE Fitting'
  <2>0. Sensible
    BY DEF SensibleProject
  <2>1. PICK clean, cleaner : clean = (strays = {}) /\ cleaner = (strays' = {})
    OBVIOUS
  <2>2. cleaner => clean
    BY <1>2, <2>1, StraysGrow
  <2>3. \A s \in Stacks : overlay'[s] # None => FitOverlay(overlay'[s], s, cleaner)
    BY <1>2, <2>1, <2>2, OverlaysFit, Weaker
  <2>4. \A s \in Stacks : \A c \in Services[s] : Limited(s, c)' => OfProject(containers'[s][c], s, c, cleaner)
    BY <1>2, <2>1, <2>2, ContainersFit, Weaker
  <2>7. \A o, s : FitOverlay(o, s, clean) => FitOverlay(o, s, cleaner)
    BY <2>2, Weaker
  <2>5. ASSUME NEW u \in Terminals
        PROVE  /\ term'[u].step \in {"update", "record"} =>
                    \A s \in DOMAIN term'[u].new : term'[u].new[s] # None => FitOverlay(term'[u].new[s], s, cleaner)
               /\ term'[u].step \in Ups =>
                    /\ cleaner => ToSet(term'[u].cmd.stacks) \subseteq Enabled
                    /\ term'[u].cmd.auto => HasCores(term'[u].cmd.profile)
    <3>1. CASE term'[u] = term[u]
      <4>1. term'[u].step \in {"update", "record"} =>
                \A s \in DOMAIN term'[u].new : term'[u].new[s] # None => FitOverlay(term'[u].new[s], s, clean)
        BY <2>1, <3>1 DEF Fitting
      <4>2. term'[u].step \in Ups =>
                /\ clean => ToSet(term'[u].cmd.stacks) \subseteq Enabled
                /\ term'[u].cmd.auto => HasCores(term'[u].cmd.profile)
        BY <2>1, <3>1 DEF Fitting
      <4>3. QED
        BY <2>2, <2>7, <4>1, <4>2
    <3>2. CASE u = t /\ Command(t)
      <4>1. PICK c \in Commands : up(t, c) \/ down(t, c) \/ switch(t, c)
        BY <3>2 DEF Command
      <4>2. /\ term'[t].step \in {"update", "record"} =>
                \A s \in DOMAIN term'[t].new : term'[t].new[s] # None => FitOverlay(term'[t].new[s], s, clean)
            /\ term'[t].step \in Ups =>
                /\ cleaner => ToSet(term'[t].cmd.stacks) \subseteq Enabled
                /\ term'[t].cmd.auto => HasCores(term'[t].cmd.profile)
        BY <2>1, <4>1, CommandFits
      <4>3. QED
        BY <2>7, <3>2, <4>2
    <3>3. CASE u = t /\ ~Command(t)
      <4>1. term'[t].step \in Ups => term[t].step \in Ups /\ term'[t].cmd = term[t].cmd
        BY <1>2, <2>0, <3>3, CmdStays
      <4>2. term'[t].step \in {"update", "record"} =>
                term[t].step \in {"update", "record"} /\ term'[t].new = term[t].new
        BY <1>2, <2>0, <3>3, Leads
      <4>3. term'[u].step \in {"update", "record"} =>
                \A s \in DOMAIN term'[u].new : term'[u].new[s] # None => FitOverlay(term'[u].new[s], s, clean)
        BY <2>1, <3>3, <4>2 DEF Fitting
      <4>4. term'[u].step \in Ups =>
                /\ clean => ToSet(term'[u].cmd.stacks) \subseteq Enabled
                /\ term'[u].cmd.auto => HasCores(term'[u].cmd.profile)
        BY <2>1, <3>3, <4>1 DEF Fitting
      <4>5. QED
        BY <2>2, <2>7, <4>3, <4>4
    <3>4. QED
      BY <1>2, <2>0, <3>1, <3>2, <3>3, ActsInOrder DEF InOrder, Turned
  <2>6. QED
    BY <2>1, <2>3, <2>4, <2>5 DEF Fitting
<1>3. QED
  BY <1>1, <1>2, NextIs

(* generator.py, up.py, profile.py: whatever is typed, fails or is cut     *)
(* short, the containers that have limits of one profile get its board's   *)
(* CPUs, memory, swap and processes together at most, but for the least    *)
(* that each may have, as long as no stack runs that isn't the project's;  *)
(* and they run on cores that the host has.                                *)
THEOREM LimitsStayFit == ASSUME SensibleProject PROVE Spec => []LimitsFit
<1>1. Sensible
  BY DEF SensibleProject
<1>2. Init => Types /\ Fitting
  <2>1. ASSUME Init PROVE Fitting
    <3>1. \A s \in Stacks : overlay[s] = None
      BY <2>1 DEF Init
    <3>2. \A s \in Stacks : \A c \in Services[s] : ~Limited(s, c)
      BY <2>1 DEF Init, Limited, Gone
    <3>3. \A t \in Terminals : term[t].step = "idle"
      BY <2>1, IdleIs DEF Init
    <3>4. QED
      BY <3>1, <3>2, <3>3 DEF Fitting, Ups
  <2>2. QED
    BY <1>1, <2>1, InitTypes
<1>3. Types /\ Fitting /\ [Next]_vars => Types' /\ Fitting'
  BY <1>1, NextTypes, NextFits
<1>4. Types /\ Fitting => LimitsFit
  BY FittingFits
<1>5. QED
  BY <1>2, <1>3, <1>4, PTL DEF Spec

-----------------------------------------------------------------------------
(* A scenario's way into its container (Scenario).                         *)

(* The constants are what the module's comments say: numbers where numbers *)
(* are meant, and None no replay.                                          *)
Number(given, k) == k \in DOMAIN given => given[k] \in Int

SensibleSettings(s) ==
    /\ "given" \in DOMAIN s
    /\ \A k \in {"base", "amplitude", "noise", "period", "window", "sample_rate"} : Number(s.given, k)
    /\ \A k \in {"min", "max"} : k \in DOMAIN s.given => s.given[k] \in Int \cup {None}

SensibleReplay(r) == DOMAIN r = {"file", "speed", "loop", "devices"} /\ r.speed \in Int

SensibleDocument ==
    /\ MaxEntries \in Nat /\ "emu-sensor-" \notin NotLevels
    /\ \A e \in Entries :
        /\ e.count \in Int /\ IsFiniteSet(DOMAIN e.measurements)
        /\ \A m \in DOMAIN e.measurements : e.measurements[m].kind # "null" => SensibleSettings(e.measurements[m])
    /\ \A p \in DOMAIN Rate : Rate[p] \in Nat /\ Length[p] \in Nat \ {0}
    /\ \A r \in Replays : SensibleReplay(r)
    /\ \A o \in Options :
        /\ o.devices = None \/ o.devices \in Int
        /\ o.replay # None => /\ SensibleReplay(o.replay) /\ o.replay.speed >= 0
                              /\ None # [o.replay EXCEPT !.file = Where[@]]

-----------------------------------------------------------------------------
(* FlattenSeq: of sequences of things comes a sequence of these things.    *)
IsFlat(flat, seqs, n) ==
    flat = [i \in 1..n |-> IF i = 1 THEN seqs[i] ELSE flat[i - 1] \o seqs[i]]

LEMMA FlatsExist == ASSUME NEW seqs, NEW n \in Nat PROVE \E flat : IsFlat(flat, seqs, n)
<1> DEFINE S == {k \in Nat : \E flat : IsFlat(flat, seqs, k)}
<1>1. 0 \in S
  <2>1. IsFlat([i \in 1..0 |-> 0], seqs, 0)
    BY DEF IsFlat
  <2>2. QED
    BY <2>1
<1>2. ASSUME NEW k \in Nat, k \in S PROVE k + 1 \in S
  <2>1. PICK flat : IsFlat(flat, seqs, k)
    BY <1>2
  <2> DEFINE more == [i \in 1..k + 1 |-> IF i = 1 THEN seqs[i] ELSE flat[i - 1] \o seqs[i]]
  <2>2. \A i \in 1..k : more[i] = flat[i]
    <3>1. \A i \in 1..k : flat[i] = IF i = 1 THEN seqs[i] ELSE flat[i - 1] \o seqs[i]
      BY <2>1 DEF IsFlat
    <3>2. \A i \in 1..k : i \in 1..k + 1
      OBVIOUS
    <3>3. QED
      BY <3>1, <3>2
  <2>3. \A i \in 1..k + 1 : i # 1 => i - 1 \in 1..k
    OBVIOUS
  <2>4. \A i \in 1..k + 1 : more[i] = IF i = 1 THEN seqs[i] ELSE more[i - 1] \o seqs[i]
    BY <2>2, <2>3
  <2>5. more = [i \in 1..k + 1 |-> more[i]]
    OBVIOUS
  <2> HIDE DEF more
  <2>6. IsFlat(more, seqs, k + 1)
    BY <2>4, <2>5 DEF IsFlat
  <2>7. QED
    BY <2>6
<1>3. Nat \subseteq S
  <2> HIDE DEF S
  <2>1. QED
    BY <1>1, <1>2, SetInduction
<1>4. QED
  BY <1>3

LEMMA FlatsAre ==
    ASSUME NEW E, NEW seqs \in Seq(Seq(E)), Len(seqs) # 0,
           NEW flat, IsFlat(flat, seqs, Len(seqs)), Len(seqs[1]) # 0
    PROVE  flat[Len(seqs)] \in Seq(E) /\ flat[Len(seqs)] # <<>>
<1> DEFINE S == {k \in Nat : k + 1 \in 1..Len(seqs) => flat[k + 1] \in Seq(E) /\ Len(flat[k + 1]) # 0}
<1>1. \A i \in 1..Len(seqs) : seqs[i] \in Seq(E)
  OBVIOUS
<1>2. \A i \in 1..Len(seqs) : flat[i] = IF i = 1 THEN seqs[i] ELSE flat[i - 1] \o seqs[i]
  BY DEF IsFlat
<1>3. 0 \in S
  BY <1>1, <1>2
<1>4. ASSUME NEW k \in Nat, k \in S PROVE k + 1 \in S
  <2>1. ASSUME k + 2 \in 1..Len(seqs) PROVE flat[k + 2] \in Seq(E) /\ Len(flat[k + 2]) # 0
    <3>1. k + 1 \in 1..Len(seqs) /\ (k + 2) - 1 = k + 1 /\ k + 2 # 1
      BY <2>1
    <3>2. flat[k + 1] \in Seq(E) /\ Len(flat[k + 1]) # 0
      BY <1>4, <3>1
    <3>3. flat[k + 2] = flat[k + 1] \o seqs[k + 2]
      BY <1>2, <2>1, <3>1
    <3>4. PICK a \in Seq(E), b \in Seq(E) : a = flat[k + 1] /\ b = seqs[k + 2]
      BY <1>1, <2>1, <3>2
    <3>5. a \o b \in Seq(E) /\ Len(a \o b) = Len(a) + Len(b)
      OBVIOUS
    <3>6. flat[k + 2] = a \o b /\ Len(a) # 0 /\ Len(a) \in Nat /\ Len(b) \in Nat
      BY <3>2, <3>3, <3>4
    <3>7. QED
      BY <3>5, <3>6
  <2>2. (k + 1) + 1 = k + 2
    OBVIOUS
  <2>3. QED
    BY <2>1, <2>2
<1>5. Nat \subseteq S
  <2> HIDE DEF S
  <2>1. QED
    BY <1>3, <1>4, SetInduction
<1>6. Len(seqs) - 1 \in Nat /\ (Len(seqs) - 1) + 1 = Len(seqs) /\ Len(seqs) \in 1..Len(seqs)
  OBVIOUS
<1>7. Len(seqs) - 1 \in S
  <2> HIDE DEF S
  <2>1. QED
    BY <1>5, <1>6
<1>8. flat[Len(seqs)] \in Seq(E) /\ Len(flat[Len(seqs)]) # 0
  BY <1>6, <1>7
<1>9. QED
  BY <1>8

LEMMA FlattenedAre ==
    ASSUME NEW E, NEW seqs \in Seq(Seq(E)), seqs # <<>> => Len(seqs[1]) # 0
    PROVE  Document!FlattenSeq(seqs) \in Seq(E) /\ (seqs # <<>> => Document!FlattenSeq(seqs) # <<>>)
<1>1. CASE seqs = <<>>
  BY <1>1 DEF Document!FlattenSeq
<1>2. CASE seqs # <<>>
  <2>1. Len(seqs) \in Nat /\ Len(seqs) # 0
    BY <1>2
  <2> DEFINE Flat(f) == f = [i \in 1..Len(seqs) |-> IF i = 1 THEN seqs[i] ELSE f[i - 1] \o seqs[i]]
  <2>2. Document!FlattenSeq(seqs) = (CHOOSE f : Flat(f))[Len(seqs)]
    BY <2>1 DEF Document!FlattenSeq
  <2>3. \A f : Flat(f) <=> IsFlat(f, seqs, Len(seqs))
    BY DEF IsFlat
  <2> HIDE DEF Flat
  <2>4. Flat(CHOOSE f : Flat(f))
    BY <2>1, <2>3, FlatsExist
  <2>5. IsFlat(CHOOSE f : Flat(f), seqs, Len(seqs))
    BY <2>3, <2>4
  <2>6. QED
    BY <1>2, <2>1, <2>2, <2>5, FlatsAre
<1>3. QED
  BY <1>1, <1>2

-----------------------------------------------------------------------------
(* The files a document names are finitely many, and written one by one.   *)
LEMMA BothFinite == \A A, B : IsFiniteSet(A) /\ IsFiniteSet(B) => IsFiniteSet(A \cup B)
  BY FS_Union

LEMMA FiniteUnion ==
    ASSUME NEW n \in Nat, NEW F, \A i \in 1..n : IsFiniteSet(F[i])
    PROVE  IsFiniteSet(UNION {F[i] : i \in 1..n})
<1> DEFINE S == {k \in Nat : k <= n => IsFiniteSet(UNION {F[i] : i \in 1..k})}
<1>1. 0 \in S
  <2>1. UNION {F[i] : i \in 1..0} = {}
    OBVIOUS
  <2>2. QED
    BY <2>1, FS_EmptySet
<1>2. ASSUME NEW k \in Nat, k \in S PROVE k + 1 \in S
  <2>1. ASSUME k + 1 <= n PROVE IsFiniteSet(UNION {F[i] : i \in 1..k + 1})
    <3>1. UNION {F[i] : i \in 1..k + 1} = (UNION {F[i] : i \in 1..k}) \cup F[k + 1]
      <4>1. \A i : i \in 1..k + 1 <=> i \in 1..k \/ i = k + 1
        OBVIOUS
      <4>2. \A x : x \in UNION {F[i] : i \in 1..k + 1} <=> \E i \in 1..k + 1 : x \in F[i]
        BY Zenon
      <4>3. \A x : x \in UNION {F[i] : i \in 1..k} <=> \E i \in 1..k : x \in F[i]
        BY Zenon
      <4>4. QED
        BY <4>1, <4>2, <4>3
    <3>2. IsFiniteSet(UNION {F[i] : i \in 1..k}) /\ IsFiniteSet(F[k + 1])
      BY <1>2, <2>1
    <3> DEFINE A == UNION {F[i] : i \in 1..k}
               B == F[k + 1]
    <3>3. IsFiniteSet(A) /\ IsFiniteSet(B) /\ UNION {F[i] : i \in 1..k + 1} = A \cup B
      BY <3>1, <3>2
    <3> HIDE DEF A, B
    <3>4. QED
      BY <3>3, BothFinite
  <2>2. QED
    BY <2>1
<1>3. Nat \subseteq S
  <2> HIDE DEF S
  <2>1. QED
    BY <1>1, <1>2, SetInduction
<1>4. QED
  BY <1>3

FilesFrom(e) == UNION {Document!FilesOf(e.measurements[m]) : m \in DOMAIN e.measurements}

LEMMA FewFiles == ASSUME NEW e, IsFiniteSet(DOMAIN e.measurements) PROVE IsFiniteSet(FilesFrom(e))
<1> DEFINE M == DOMAIN e.measurements
           Filed == {m \in M : Document!FilesOf(e.measurements[m]) # {}}
           name == [m \in M |-> e.measurements[m].given.file]
<1>1. Filed \in SUBSET M
  OBVIOUS
<1>2. IsFiniteSet(Filed)
  BY <1>1, FS_Subset
<1>3. \A m \in Filed : Document!FilesOf(e.measurements[m]) = {name[m]}
  BY DEF Document!FilesOf
<1>4. FilesFrom(e) = {name[m] : m \in Filed}
  <2>1. \A m \in M : m \notin Filed => Document!FilesOf(e.measurements[m]) = {}
    OBVIOUS
  <2> HIDE DEF name, Filed
  <2>2. Filed \subseteq M
    BY <1>1
  <2>3. QED
    BY <1>3, <2>1, <2>2 DEF FilesFrom
<1> HIDE DEF name, Filed
<1>5. QED
  BY <1>2, <1>4, ImageIsFinite

IsDocument(d) == d.devices \in Seq(Entries) /\ d.replays \in Seq(Replays)

LEMMA NamedIsFinite ==
    ASSUME SensibleDocument, NEW d, IsDocument(d) PROVE IsFiniteSet(Document!Named(d))
<1> DEFINE n == Len(d.devices)
           F == [i \in 1..n |-> FilesFrom(d.devices[i])]
           file == [i \in 1..Len(d.replays) |-> d.replays[i].file]
<1>1. n \in Nat /\ DOMAIN d.devices = 1..n /\ \A i \in 1..n : d.devices[i] \in Entries
  BY DEF IsDocument
<1>2. Len(d.replays) \in Nat /\ DOMAIN d.replays = 1..Len(d.replays)
  BY DEF IsDocument
<1>3. \A e \in Entries : IsFiniteSet(FilesFrom(e))
  <2>1. TAKE e \in Entries
  <2>2. IsFiniteSet(DOMAIN e.measurements)
    BY DEF SensibleDocument
  <2>3. QED
    BY <2>2, FewFiles
<1>4. \A i \in 1..n : IsFiniteSet(F[i])
  BY <1>1, <1>3
<1>5. IsFiniteSet(UNION {F[i] : i \in 1..n})
  <2> HIDE DEF F
  <2>1. QED
    BY <1>1, <1>4, FiniteUnion
<1>6. IsFiniteSet({file[i] : i \in 1..Len(d.replays)})
  <2> HIDE DEF file
  <2>1. IsFiniteSet(1..Len(d.replays))
    BY <1>2, FS_Interval
  <2>2. QED
    BY <2>1, ImageIsFinite
<1>7. Document!Named(d) = {file[i] : i \in 1..Len(d.replays)} \cup UNION {F[i] : i \in 1..n}
  <2>1. {file[i] : i \in 1..Len(d.replays)} = {d.replays[i].file : i \in DOMAIN d.replays}
    BY <1>2
  <2>2. {F[i] : i \in 1..n} = {FilesFrom(d.devices[i]) : i \in DOMAIN d.devices}
    BY <1>1
  <2>3. QED
    BY Zenon, <2>1, <2>2 DEF Document!Named, FilesFrom
<1> DEFINE A == {file[i] : i \in 1..Len(d.replays)}
           B == UNION {F[i] : i \in 1..n}
<1>8. IsFiniteSet(A) /\ IsFiniteSet(B) /\ Document!Named(d) = A \cup B
  BY <1>5, <1>6, <1>7
<1> HIDE DEF A, B
<1>9. QED
  BY <1>8, BothFinite

(* SetToSeq: the elements of a finite set, each once. *)
OnceEach(q, S) ==
    /\ q \in Seq(S) /\ {q[i] : i \in DOMAIN q} = S
    /\ \A i, j \in DOMAIN q : q[i] = q[j] => i = j

LEMMA SetToSeqIs == ASSUME NEW S, IsFiniteSet(S) PROVE OnceEach(Document!SetToSeq(S), S)
<1> DEFINE n == Cardinality(S)
           Once(f) == \A i, j \in DOMAIN f : f[i] = f[j] => i = j
<1>1. n \in Nat /\ ExistsBijection(1..n, S)
  BY FS_CardinalityType
<1>2. PICK b : b \in [1..n -> S] /\ Once(b)
  BY <1>1 DEF ExistsBijection, Bijection, Injection, IsInjective
<1>3. Document!SetToSeq(S) = CHOOSE f \in [1..n -> S] : Once(f)
  <2>1. Document!Cardinality(S) = Cardinality(S)
    BY Zenon DEF Document!Cardinality, Cardinality
  <2>2. QED
    BY <2>1 DEF Document!SetToSeq, Document!IsInjective
<1> DEFINE q == CHOOSE f \in [1..n -> S] : Once(f)
<1>4. q \in [1..n -> S] /\ Once(q)
  BY <1>2
<1> HIDE DEF q
<1>5. q \in Injection(1..n, S)
  BY <1>4 DEF Injection, IsInjective
<1>6. IsFiniteSet(1..n) /\ Cardinality(1..n) = n
  BY <1>1, FS_Interval
<1>7. q \in Surjection(1..n, S)
  BY <1>5, <1>6, FS_Injection
<1>8. {q[i] : i \in DOMAIN q} = S
  BY <1>4, <1>7 DEF Surjection
<1>9. q \in Seq(S)
  BY <1>1, <1>4
<1>10. Document!SetToSeq(S) = q
  BY <1>3 DEF q
<1>11. QED
  BY <1>4, <1>8, <1>9, <1>10 DEF OnceEach

-----------------------------------------------------------------------------
(* Where the container finds the files: each name has a mount of its own,  *)
(* so that the file that is there is the one that the name means here.     *)
LEMMA MountsApart ==
    ASSUME NEW names, NEW i, NEW j, Document!Mounted(names, i) = Document!Mounted(names, j) PROVE i = j
  BY DEF Document!Mounted

LEMMA MountedThere ==
    ASSUME NEW S, NEW names, OnceEach(names, S), NEW i \in DOMAIN names
    PROVE  /\ Document!Mounted(names, i) \in DOMAIN Document!Mounts(names)
           /\ Document!Mounts(names)[Document!Mounted(names, i)] = Where[names[i]]
<1> DEFINE p == Document!Mounted(names, i)
           Newest(k) == Document!Mounted(names, k) = p /\ \A j \in k + 1..Len(names) : Document!Mounted(names, j) # p
           P == {Document!Mounted(names, k) : k \in DOMAIN names}
<1>1. i \in Nat /\ DOMAIN names = 1..Len(names)
  BY DEF OnceEach
<1>2. Newest(i)
  <2>1. \A j \in i + 1..Len(names) : j # i
    BY <1>1
  <2>2. QED
    BY <2>1, MountsApart
<1>3. \A k \in DOMAIN names : Newest(k) => k = i
  BY MountsApart
<1>4. p \in P
  OBVIOUS
<1> HIDE DEF Newest
<1>5. (CHOOSE k \in DOMAIN names : Newest(k)) = i
  BY <1>2, <1>3
<1>6. Document!Mounts(names)[p] = Where[names[CHOOSE k \in DOMAIN names : Newest(k)]]
  BY Zenon, <1>4 DEF Document!Mounts, Newest
<1>7. DOMAIN Document!Mounts(names) = P
  BY DEF Document!Mounts
<1>8. QED
  BY <1>4, <1>5, <1>6, <1>7

Agrees(path, S) == DOMAIN path = S /\ \A n \in S : path[n] = Where[n]

LEMMA InsideAgrees ==
    ASSUME SensibleDocument, doc # None, IsDocument(doc), NEW o
    PROVE  Agrees(Document!Inside(Document!_run_options(o)), Document!Named(doc))
<1> DEFINE S == Document!Named(doc)
           names == Document!SetToSeq(S)
           e == Document!_run_options(o)
           at(n) == CHOOSE i \in DOMAIN names : names[i] = n
<1>1. OnceEach(names, S)
  BY NamedIsFinite, SetToSeqIs
<1>2. Document!Range(names) = S
  BY <1>1 DEF Document!Range, OnceEach
<1>3. e.files = [n \in Document!Range(names) |-> Document!Mounted(names, at(n))] /\ e.mounts = Document!Mounts(names)
  BY DEF Document!_run_options
<1> HIDE DEF names, e, S
<1>4. \A n \in S : at(n) \in DOMAIN names /\ names[at(n)] = n
  BY <1>1 DEF OnceEach
<1>5. DOMAIN e.files = S /\ \A n \in S : e.files[n] = Document!Mounted(names, at(n))
  BY <1>2, <1>3
<1>6. DOMAIN Document!Inside(e) = S /\ \A n \in S : Document!Inside(e)[n] = e.mounts[e.files[n]]
  BY <1>5 DEF Document!Inside
<1> HIDE DEF at
<1>7. \A n \in S : Document!Mounts(names)[Document!Mounted(names, at(n))] = Where[n]
  <2>1. \A i \in DOMAIN names : Document!Mounts(names)[Document!Mounted(names, i)] = Where[names[i]]
    BY <1>1, MountedThere
  <2>2. QED
    BY <1>4, <2>1
<1>8. QED
  BY <1>3, <1>5, <1>6, <1>7 DEF Agrees, S, e

-----------------------------------------------------------------------------
(* A document says the same where its files are in the container.          *)
Finds(path, s) == \A n \in Document!FilesOf(s) : n \in DOMAIN path /\ path[n] = Where[n]

LEMMA SameFeed ==
    ASSUME NEW path, NEW s, "given" \in DOMAIN s, Finds(path, s)
    PROVE  Document!FeedOf(s.kind, s.given, path) = Document!FeedOf(s.kind, s.given, Where)
<1> DEFINE f == Document!replace([Document!Feed EXCEPT !.encoding = IF s.kind = "image" THEN "packed" ELSE "int16"], s.given)
<1>1. CASE "file" \in DOMAIN s.given
  <2>1. f.file = s.given.file
    BY <1>1 DEF Document!replace
  <2>2. path[s.given.file] = Where[s.given.file]
    BY <1>1 DEF Finds, Document!FilesOf
  <2> HIDE DEF f
  <2>3. QED
    BY <2>1, <2>2 DEF Document!FeedOf, f
<1>2. CASE "file" \notin DOMAIN s.given
  <2>1. f.file = None
    BY <1>2 DEF Document!replace, Document!Feed
  <2> HIDE DEF f
  <2>2. QED
    BY <2>1 DEF Document!FeedOf, f
<1>3. QED
  BY <1>1, <1>2

LEMMA SameMeasurement ==
    ASSUME NEW path, NEW name, NEW s, s.kind # "null" => "given" \in DOMAIN s, Finds(path, s),
           Document!IsMeasurement(name, s, Where)
    PROVE  /\ Document!IsMeasurement(name, s, path)
           /\ Document!MeasurementOf(name, s, path) = Document!MeasurementOf(name, s, Where)
<1>1. CASE name = "raw"
  BY <1>1 DEF Document!IsMeasurement, Document!MeasurementOf
<1>2. CASE name # "raw" /\ s.kind \in {"null", "wave"}
  BY <1>2 DEF Document!IsMeasurement, Document!MeasurementOf
<1>3. CASE name # "raw" /\ s.kind \notin {"null", "wave"}
  <2>1. Document!FeedOf(s.kind, s.given, path) = Document!FeedOf(s.kind, s.given, Where)
    BY <1>3, SameFeed
  <2>2. Document!IsFeed(s, Where)
    BY <1>3 DEF Document!IsMeasurement
  <2>3. "file" \in DOMAIN s.given => s.given.file \in DOMAIN path /\ path[s.given.file] = Where[s.given.file]
    BY <1>3 DEF Finds, Document!FilesOf
  <2>4. Document!IsFeed(s, path)
    BY <2>1, <2>2, <2>3 DEF Document!IsFeed
  <2>5. QED
    BY <1>3, <2>1, <2>4 DEF Document!IsMeasurement, Document!MeasurementOf
<1>4. QED
  BY <1>1, <1>2, <1>3

LEMMA SameDevice ==
    ASSUME SensibleDocument, NEW path, NEW e \in Entries, Document!IsDevice(e, Where),
           \A n \in FilesFrom(e) : n \in DOMAIN path /\ path[n] = Where[n]
    PROVE  Document!IsDevice(e, path) /\ Document!_devices(e, path) = Document!_devices(e, Where)
<1> DEFINE M == DOMAIN e.measurements
<1>1. \A m \in M : e.measurements[m].kind # "null" => "given" \in DOMAIN e.measurements[m]
  BY DEF SensibleDocument, SensibleSettings
<1>2. \A m \in M : Finds(path, e.measurements[m])
  BY DEF FilesFrom, Finds
<1>3. \A m \in M : Document!IsMeasurement(m, e.measurements[m], Where)
  BY DEF Document!IsDevice
<1>4. \A m \in M : /\ Document!IsMeasurement(m, e.measurements[m], path)
                   /\ Document!MeasurementOf(m, e.measurements[m], path) = Document!MeasurementOf(m, e.measurements[m], Where)
  BY <1>1, <1>2, <1>3, SameMeasurement
<1>5. Document!MeasurementsOf(e, path) = Document!MeasurementsOf(e, Where)
  BY <1>4 DEF Document!MeasurementsOf
<1>6. Document!IsDevice(e, path)
  BY <1>4, <1>5 DEF Document!IsDevice
<1>7. Document!_devices(e, path) = Document!_devices(e, Where)
  BY <1>5 DEF Document!_devices
<1>8. QED
  BY <1>6, <1>7

LEMMA SameDocument ==
    ASSUME SensibleDocument, NEW d, IsDocument(d), NEW path, Agrees(path, Document!Named(d)), Document!IsScenario(d, Where)
    PROVE  Document!IsScenario(d, path) /\ Document!parse_scenario(d, path) = Document!parse_scenario(d, Where)
<1>1. \A i \in DOMAIN d.devices : d.devices[i] \in Entries /\ Document!IsDevice(d.devices[i], Where)
  BY DEF IsDocument, Document!IsScenario
<1>2. \A i \in DOMAIN d.devices : \A n \in FilesFrom(d.devices[i]) : n \in Document!Named(d)
  BY DEF Document!Named, FilesFrom
<1>3. \A i \in DOMAIN d.replays : d.replays[i].file \in Document!Named(d)
  BY DEF Document!Named
<1>4. \A i \in DOMAIN d.devices : /\ Document!IsDevice(d.devices[i], path)
                                 /\ Document!_devices(d.devices[i], path) = Document!_devices(d.devices[i], Where)
  BY <1>1, <1>2, SameDevice DEF Agrees
<1>5. Document!Devices(d, path) = Document!Devices(d, Where)
  <2>1. [i \in DOMAIN d.devices |-> Document!_devices(d.devices[i], path)]
          = [i \in DOMAIN d.devices |-> Document!_devices(d.devices[i], Where)]
    BY <1>4
  <2>2. QED
    BY Zenon, <2>1 DEF Document!Devices
<1>6. \A i \in DOMAIN d.replays : path[d.replays[i].file] = Where[d.replays[i].file] /\ d.replays[i].file \in DOMAIN path
  BY <1>3 DEF Agrees
<1>7. \A i \in DOMAIN d.replays : Document!IsReplay(d.replays[i], path)
  BY <1>6 DEF Document!IsScenario, Document!IsReplay
<1>8. Document!IsScenario(d, path)
  BY <1>4, <1>5, <1>7 DEF Document!IsScenario, Document!UsedTwice
<1>9. Document!parse_scenario(d, path) = Document!parse_scenario(d, Where)
  <2>1. [i \in DOMAIN d.replays |-> [d.replays[i] EXCEPT !.file = path[@]]]
          = [i \in DOMAIN d.replays |-> [d.replays[i] EXCEPT !.file = Where[@]]]
    BY <1>6
  <2>2. QED
    BY Zenon, <1>5, <2>1 DEF Document!parse_scenario
<1>10. QED
  BY <1>8, <1>9

-----------------------------------------------------------------------------
(* What a device that the document may have does when it runs.             *)
LEMMA Remainder ==
    ASSUME NEW x \in Int, NEW p \in Nat \ {0}
    PROVE  \E q \in Int : x % p \in 0..p - 1 /\ x = p * q + (x % p)
<1>1. x % p = x - p * (x \div p)
  BY SMT
<1>2. x % p \in 0..p - 1 /\ x \div p \in Int
  BY SMT
<1> DEFINE q == x \div p
           m == x % p
<1>3. m = x - p * q /\ m \in 0..p - 1 /\ q \in Int
  BY <1>1, <1>2
<1> HIDE DEF q, m
<1>4. x = p * q + m
  BY <1>3
<1>5. QED
  BY <1>3, <1>4 DEF m

LEMMA RemainderIs ==
    ASSUME NEW q \in Int, NEW r \in Int, NEW p \in Nat \ {0}, 0 <= r, r < p PROVE (p * q + r) % p = r
  BY SMT

LEMMA RemainderAdds ==
    ASSUME NEW x \in Int, NEW y \in Int, NEW p \in Nat \ {0} PROVE ((x % p) + y) % p = (x + y) % p
<1>1. PICK d \in Int : x % p \in 0..p - 1 /\ x = p * d + (x % p)
  BY Remainder
<1>2. PICK e \in Int : (x + y) % p \in 0..p - 1 /\ x + y = p * e + ((x + y) % p)
  <2>1. x + y \in Int
    OBVIOUS
  <2>2. QED
    BY <2>1, Remainder
<1> DEFINE m == x % p
           n == (x + y) % p
<1>3. m \in Int /\ n \in Int /\ 0 <= n /\ n < p /\ x = p * d + m /\ x + y = p * e + n
  BY <1>1, <1>2
<1> HIDE DEF m, n
<1>4. m + y = p * (e - d) + n /\ e - d \in Int
  BY <1>3
<1>5. (p * (e - d) + n) % p = n
  BY <1>3, <1>4, RemainderIs
<1>6. QED
  BY <1>4, <1>5 DEF m, n

LEMMA WindowsFollow ==
    ASSUME NEW f, NEW k \in 0..3, Document!features("audio", f) \in Int, Length[f.file] \in Nat \ {0}
    PROVE  Document!wav_windows(f, k) = (k * Document!features("audio", f)) % Length[f.file]
<1> DEFINE F == Document!features("audio", f)
           L == Length[f.file]
           Pos(p) == p = [i \in 0..k |-> IF i = 0 THEN 0 ELSE (p[i - 1] + F) % L]
           w == [i \in 0..k |-> (i * F) % L]
<1>1. Document!wav_windows(f, k) = (CHOOSE p : Pos(p))[k]
  BY DEF Document!wav_windows
<1> HIDE DEF F, L
<1>2. F \in Int /\ L \in Nat \ {0}
  BY DEF F, L
<1>3. \A a \in Int : ((a % L) + F) % L = (a + F) % L
  BY <1>2, RemainderAdds
<1>4. 0 % L = 0
  BY <1>2
<1>5. \A i \in 0..k : w[i] = IF i = 0 THEN 0 ELSE (w[i - 1] + F) % L
  <2>1. \A i \in 0..k : w[i] = (i * F) % L
    OBVIOUS
  <2> HIDE DEF w
  <2>2. 0 * F = 0 /\ 1 * F = F /\ 2 * F = F + F /\ 3 * F = (F + F) + F
    BY <1>2
  <2>3. w[0] = 0
    BY <1>4, <2>1, <2>2
  <2>4. 1 <= k => w[1] = (w[0] + F) % L
    <3>1. 0 + F = F
      BY <1>2
    <3>2. QED
      BY <2>1, <2>2, <2>3, <3>1
  <2>5. 2 <= k => w[2] = (w[1] + F) % L
    <3>1. ((F % L) + F) % L = (F + F) % L
      BY <1>2, <1>3
    <3>2. QED
      BY <2>1, <2>2, <3>1
  <2>6. 3 <= k => w[3] = (w[2] + F) % L
    <3>1. F + F \in Int
      BY <1>2
    <3>2. (((F + F) % L) + F) % L = ((F + F) + F) % L
      BY <3>1, <1>3
    <3>3. QED
      BY <2>1, <2>2, <3>2
  <2>7. \A i \in 0..k : i = 0 \/ (i = 1 /\ 1 <= k) \/ (i = 2 /\ 2 <= k) \/ (i = 3 /\ 3 <= k)
    OBVIOUS
  <2>8. QED
    BY <2>3, <2>4, <2>5, <2>6, <2>7
<1>6. Pos(w)
  BY <1>5
<1>7. \A p : Pos(p) => \A i \in 0..k : p[i] = IF i = 0 THEN 0 ELSE (p[i - 1] + F) % L
  OBVIOUS
<1> HIDE DEF Pos
<1> DEFINE p == CHOOSE p : Pos(p)
<1>8. \A i \in 0..k : p[i] = IF i = 0 THEN 0 ELSE (p[i - 1] + F) % L
  BY <1>6, <1>7
<1>9. p[k] = w[k]
  <2> HIDE DEF w, p
  <2>1. k \in {0, 1, 2, 3}
    OBVIOUS
  <2>2. p[0] = 0 /\ w[0] = 0
    BY <1>5, <1>8
  <2>3. 1 <= k => p[1] = w[1]
    BY <1>5, <1>8, <2>2
  <2>4. 2 <= k => p[2] = w[2]
    BY <1>5, <1>8, <2>3
  <2>5. 3 <= k => p[3] = w[3]
    BY <1>5, <1>8, <2>4
  <2>6. QED
    BY <2>1, <2>2, <2>3, <2>4, <2>5
<1>10. QED
  BY <1>1, <1>9 DEF F, L

(* Clamped lies within the bounds that there are. *)
LEMMA ClampedWithin ==
    ASSUME NEW w, NEW x \in Int, w.min \in Int \cup {None}, w.max \in Int \cup {None}, Document!InOrder(w)
    PROVE  /\ w.min # None => Document!Clamped(w, x) >= w.min
           /\ w.max # None => Document!Clamped(w, x) <= w.max
  BY DEF Document!Clamped, Document!InOrder

WaveRuns(w) ==
    \A x \in {w.base - w.amplitude, w.base, w.base + w.amplitude} :
        /\ w.min # None => Document!Clamped(w, x) >= w.min
        /\ w.max # None => Document!Clamped(w, x) <= w.max

IsCalm(w) == /\ w.base \in Int /\ w.amplitude \in Int
             /\ w.min \in Int \cup {None} /\ w.max \in Int \cup {None} /\ Document!InOrder(w)

LEMMA CalmWavesRun == ASSUME NEW w, IsCalm(w) PROVE WaveRuns(w)
<1>1. \A x \in Int : /\ w.min # None => Document!Clamped(w, x) >= w.min
                     /\ w.max # None => Document!Clamped(w, x) <= w.max
  BY ClampedWithin DEF IsCalm
<1>2. w.base - w.amplitude \in Int /\ w.base \in Int /\ w.base + w.amplitude \in Int
  BY DEF IsCalm
<1>3. QED
  BY <1>1, <1>2 DEF WaveRuns

LEMMA BuiltinsAreCalm ==
    ASSUME NEW name, Document!Builtin(name)
    PROVE  /\ IsCalm(Document!BUILTIN_WAVES[name])
           /\ {"base", "amplitude", "min", "max"} \subseteq DOMAIN Document!BUILTIN_WAVES[name]
<1> DEFINE W == Document!Wave
<1>1. W = [base |-> 0, amplitude |-> 0, noise |-> 0, period |-> 30000, min |-> None, max |-> None]
  BY DEF Document!Wave
<1>2. name \in {"temperature", "humidity", "pressure"}
  BY DEF Document!Builtin, Document!BUILTIN_WAVES
<1>3. CASE name = "temperature"
  <2>1. Document!BUILTIN_WAVES[name] = [W EXCEPT !.base = 2200, !.amplitude = 300, !.noise = 10]
    BY <1>3 DEF Document!BUILTIN_WAVES
  <2>2. QED
    BY <1>1, <2>1 DEF IsCalm, Document!InOrder
<1>4. CASE name = "humidity"
  <2>1. Document!BUILTIN_WAVES[name] = [W EXCEPT !.base = 5500, !.amplitude = 1000, !.noise = 50, !.min = 1000, !.max = 9500]
    BY <1>4 DEF Document!BUILTIN_WAVES
  <2>2. QED
    BY <1>1, <2>1 DEF IsCalm, Document!InOrder
<1>5. CASE name = "pressure"
  <2>1. Document!BUILTIN_WAVES[name] = [W EXCEPT !.base = 101325, !.amplitude = 200, !.noise = 5]
    BY <1>5 DEF Document!BUILTIN_WAVES
  <2>2. QED
    BY <1>1, <2>1 DEF IsCalm, Document!InOrder
<1>6. QED
  BY <1>2, <1>3, <1>4, <1>5

LEMMA GivenWavesRun ==
    ASSUME NEW name, NEW s, SensibleSettings(s), Document!IsWave(name, s) PROVE WaveRuns(Document!WaveOf(name, s.given))
<1> DEFINE b == IF Document!Builtin(name) THEN Document!BUILTIN_WAVES[name] ELSE Document!Wave
           w == Document!WaveOf(name, s.given)
<1>1. {"base", "amplitude", "min", "max"} \subseteq DOMAIN b
  <2>1. CASE Document!Builtin(name)
    BY <2>1, BuiltinsAreCalm
  <2>2. CASE ~Document!Builtin(name)
    BY <2>2 DEF Document!Wave
  <2>3. QED
    BY <2>1, <2>2
<1>2. /\ b.base \in Int /\ b.amplitude \in Int
      /\ b.min \in Int \cup {None} /\ b.max \in Int \cup {None}
  <2>1. CASE Document!Builtin(name)
    BY <2>1, BuiltinsAreCalm DEF IsCalm
  <2>2. CASE ~Document!Builtin(name)
    BY <2>2 DEF Document!Wave
  <2>3. QED
    BY <2>1, <2>2
<1> HIDE DEF b
<1>3. w = Document!replace(b, s.given)
  BY DEF Document!WaveOf, b
<1>4. \A k \in {"base", "amplitude", "min", "max"} : w[k] = IF k \in DOMAIN s.given THEN s.given[k] ELSE b[k]
  BY <1>1, <1>3 DEF Document!replace
<1>5. Document!InOrder(w)
  BY DEF Document!IsWave
<1> HIDE DEF w
<1>6. w.base \in Int /\ w.amplitude \in Int
  BY <1>2, <1>4 DEF SensibleSettings, Number
<1>7. w.min \in Int \cup {None} /\ w.max \in Int \cup {None}
  BY <1>2, <1>4 DEF SensibleSettings
<1>8. IsCalm(w)
  BY <1>5, <1>6, <1>7 DEF IsCalm
<1>9. QED
  BY <1>8, CalmWavesRun DEF w

FeedRuns(f) == \A k \in 0..3 : Document!wav_windows(f, k) = (k * Document!features("audio", f)) % Length[f.file]

LEMMA FeedsRun ==
    ASSUME SensibleDocument, NEW s, SensibleSettings(s), s.kind = "audio", Document!IsFeed(s, Where),
           Document!FeedOf(s.kind, s.given, Where).file # None
    PROVE  FeedRuns(Document!FeedOf(s.kind, s.given, Where))
<1> DEFINE f == Document!replace([Document!Feed EXCEPT !.encoding = IF s.kind = "image" THEN "packed" ELSE "int16"], s.given)
           g == Document!FeedOf(s.kind, s.given, Where)
<1>1. DOMAIN f = DOMAIN Document!Feed \cup DOMAIN s.given
  BY DEF Document!replace, Document!Feed
<1>2. "file" \notin DOMAIN s.given => f.file = None
  BY DEF Document!replace, Document!Feed
<1>3. /\ f.window = IF "window" \in DOMAIN s.given THEN s.given.window ELSE 100
      /\ "file" \in DOMAIN s.given => f.file = s.given.file
  BY DEF Document!replace, Document!Feed
<1>4. {"window", "file", "sample_rate"} \subseteq DOMAIN f
  BY <1>1 DEF Document!Feed
<1> HIDE DEF f
<1>5. g = IF f.file = None THEN f ELSE [f EXCEPT !.file = Where[@], !.sample_rate = Rate[Where[f.file]]]
  BY DEF Document!FeedOf, f
<1>6. f.file # None
  BY <1>5
<1>7. g.window = f.window /\ g.file = Where[f.file] /\ g.sample_rate = Rate[Where[f.file]]
  BY <1>4, <1>5, <1>6
<1>8. Where[f.file] \in DOMAIN Rate
  BY <1>2, <1>3, <1>6 DEF Document!IsFeed
<1>9. f.window \in Int
  BY <1>3 DEF SensibleSettings, Number
<1> HIDE DEF g
<1>10. g.sample_rate \in Int /\ g.window \in Int /\ Length[g.file] \in Nat \ {0}
  BY <1>7, <1>8, <1>9 DEF SensibleDocument
<1>11. Document!features("audio", g) \in Int
  <2>1. g.sample_rate * g.window \in Int
    BY <1>10
  <2>2. \A x \in Int : x \div 100 \in Int
    OBVIOUS
  <2>3. QED
    BY <2>1, <2>2 DEF Document!features
<1>12. \A k \in 0..3 : Document!wav_windows(g, k) = (k * Document!features("audio", g)) % Length[g.file]
  BY <1>10, <1>11, WindowsFollow
<1>13. QED
  BY <1>12 DEF FeedRuns, g

MeasurementRuns(m) ==
    /\ m.kind = "wave" => WaveRuns(m.wave)
    /\ m.kind = "audio" /\ m.feed.file # None => FeedRuns(m.feed)

LEMMA MeasurementsRun ==
    ASSUME SensibleDocument, NEW name, NEW s, s.kind # "null" => SensibleSettings(s), Document!IsMeasurement(name, s, Where)
    PROVE  MeasurementRuns(Document!MeasurementOf(name, s, Where))
<1>1. CASE name = "raw"
  BY <1>1 DEF Document!MeasurementOf, MeasurementRuns
<1>2. CASE name # "raw" /\ s.kind = "null"
  BY <1>2, BuiltinsAreCalm, CalmWavesRun DEF Document!IsMeasurement, Document!MeasurementOf, MeasurementRuns
<1>3. CASE name # "raw" /\ s.kind = "wave"
  <2>1. WaveRuns(Document!WaveOf(name, s.given))
    BY <1>3, GivenWavesRun DEF Document!IsMeasurement
  <2>2. QED
    BY <1>3, <2>1 DEF Document!MeasurementOf, MeasurementRuns
<1>4. CASE name # "raw" /\ s.kind \notin {"null", "wave"}
  <2>1. SensibleSettings(s) /\ Document!IsFeed(s, Where)
    BY <1>4 DEF Document!IsMeasurement
  <2> DEFINE f == Document!FeedOf(s.kind, s.given, Where)
  <2>2. Document!MeasurementOf(name, s, Where) = [kind |-> s.kind, feed |-> f]
    BY <1>4 DEF Document!MeasurementOf
  <2>3. s.kind = "audio" /\ f.file # None => FeedRuns(f)
    BY <2>1, FeedsRun
  <2> HIDE DEF f
  <2>4. QED
    BY <1>4, <2>2, <2>3 DEF MeasurementRuns
<1>5. QED
  BY <1>1, <1>2, <1>3, <1>4

DeviceRuns(d) ==
    /\ d.id[1] \notin NotLevels /\ DOMAIN d.measurements # {}
    /\ \A f \in d.faults : f.measurement # None /\ f.type \in Document!VALUE_FAULTS =>
            d.measurements[f.measurement].kind = "wave"
    /\ \A m \in DOMAIN d.measurements : MeasurementRuns(d.measurements[m])

LEMMA DevicesRun ==
    ASSUME SensibleDocument, NEW e \in Entries, Document!IsDevice(e, Where), NEW i \in 1..e.count
    PROVE  DeviceRuns(Document!_devices(e, Where)[i])
<1> DEFINE d == Document!_devices(e, Where)[i]
           M == Document!MeasurementsOf(e, Where)
<1>1. d.id = Document!Ids(e)[i] /\ d.measurements = M /\ d.faults = e.faults
  BY DEF Document!_devices
<1>2. Document!Ids(e)[i][1] = e.stem
  BY DEF Document!Ids
<1> HIDE DEF d
<1>3. DOMAIN M = DOMAIN e.measurements
  BY DEF Document!MeasurementsOf
<1>4. \A m \in DOMAIN M : MeasurementRuns(M[m])
  <2>1. TAKE m \in DOMAIN M
  <2>2. M[m] = Document!MeasurementOf(m, e.measurements[m], Where)
    BY <1>3 DEF Document!MeasurementsOf
  <2>3. Document!IsMeasurement(m, e.measurements[m], Where)
    BY <1>3 DEF Document!IsDevice
  <2>4. e.measurements[m].kind # "null" => SensibleSettings(e.measurements[m])
    BY <1>3 DEF SensibleDocument
  <2>5. QED
    BY <2>2, <2>3, <2>4, MeasurementsRun
<1>5. \A f \in e.faults : f.measurement # None /\ f.type \in Document!VALUE_FAULTS => M[f.measurement].kind = "wave"
  BY DEF Document!IsDevice, Document!IsFault
<1> HIDE DEF M
<1>6. e.stem \notin NotLevels /\ DOMAIN M # {}
  BY <1>3 DEF Document!IsDevice
<1>7. QED
  BY <1>1, <1>2, <1>4, <1>5, <1>6 DEF DeviceRuns, d

LEMMA DocumentsRun ==
    ASSUME SensibleDocument, NEW d, IsDocument(d), Document!IsScenario(d, Where)
    PROVE  /\ \A i \in DOMAIN Document!Devices(d, Where) : DeviceRuns(Document!Devices(d, Where)[i])
           /\ Document!Devices(d, Where) # <<>> \/ d.replays # <<>>
           /\ \A i, j \in DOMAIN Document!Devices(d, Where) :
                  i # j => Document!Devices(d, Where)[i].id # Document!Devices(d, Where)[j].id
<1> DEFINE seqs == [i \in DOMAIN d.devices |-> Document!_devices(d.devices[i], Where)]
           Written == UNION {{Document!_devices(e, Where)[k] : k \in 1..e.count} : e \in Entries}
           E == {x \in Written : DeviceRuns(x)}
<1>1. DOMAIN d.devices = 1..Len(d.devices) /\ Len(d.devices) \in Nat
  BY DEF IsDocument
<1>2. \A i \in DOMAIN d.devices : d.devices[i] \in Entries /\ Document!IsDevice(d.devices[i], Where)
  BY DEF IsDocument, Document!IsScenario
<1>3. \A e \in Entries : Document!IsDevice(e, Where) =>
          Document!_devices(e, Where) \in Seq(E) /\ Len(Document!_devices(e, Where)) # 0
  <2>1. SUFFICES ASSUME NEW e \in Entries, Document!IsDevice(e, Where)
                 PROVE  Document!_devices(e, Where) \in Seq(E) /\ Len(Document!_devices(e, Where)) # 0
    OBVIOUS
  <2> DEFINE s == Document!_devices(e, Where)
  <2>2. e.count \in Nat /\ e.count # 0
    <3>1. e.count \in Int
      BY DEF SensibleDocument
    <3>2. e.count >= 1
      BY <2>1 DEF Document!IsDevice
    <3>3. QED
      BY <3>1, <3>2
  <2>3. \A k \in 1..e.count : s[k] \in Written /\ DeviceRuns(s[k])
    BY <2>1, DevicesRun
  <2>4. s = [k \in 1..e.count |-> s[k]]
    BY DEF Document!_devices
  <2> HIDE DEF s, Written
  <2>5. s \in [1..e.count -> E]
    BY <2>3, <2>4
  <2> HIDE DEF E
  <2>6. s \in Seq(E) /\ Len(s) = e.count
    BY <2>2, <2>5
  <2>7. QED
    BY <2>2, <2>6 DEF s
<1> HIDE DEF E
<1>4. \A i \in 1..Len(d.devices) : seqs[i] \in Seq(E) /\ Len(seqs[i]) # 0
  BY <1>1, <1>2, <1>3
<1>5. seqs = [i \in 1..Len(d.devices) |-> seqs[i]]
  BY <1>1
<1>6. Document!Devices(d, Where) = Document!FlattenSeq(seqs)
  BY DEF Document!Devices
<1> HIDE DEF seqs
<1>7. seqs \in Seq(Seq(E)) /\ Len(seqs) = Len(d.devices)
  <2>1. seqs \in [1..Len(d.devices) -> Seq(E)]
    BY <1>4, <1>5
  <2> DEFINE T == Seq(E)
  <2>2. seqs \in [1..Len(d.devices) -> T]
    BY <2>1
  <2> HIDE DEF T
  <2>3. seqs \in Seq(T) /\ Len(seqs) = Len(d.devices)
    BY <1>1, <2>2
  <2>4. QED
    BY <2>3 DEF T
<1>8. seqs # <<>> => Len(seqs[1]) # 0
  BY <1>4, <1>7
<1>9. Document!Devices(d, Where) \in Seq(E) /\ (seqs # <<>> => Document!Devices(d, Where) # <<>>)
  BY <1>6, <1>7, <1>8, FlattenedAre
<1>10. \A i \in DOMAIN Document!Devices(d, Where) : Document!Devices(d, Where)[i] \in E
  BY <1>9
<1>11. \A x \in E : DeviceRuns(x)
  BY DEF E
<1>12. Document!Devices(d, Where) # <<>> \/ d.replays # <<>>
  BY <1>1, <1>7, <1>9 DEF Document!IsScenario, IsDocument
<1>13. QED
  BY <1>10, <1>11, <1>12 DEF Document!IsScenario, Document!UsedTwice

LEMMA DefaultsRun ==
    ASSUME SensibleDocument, NEW n \in Int
    PROVE  /\ Len(Document!default_scenario(n).devices) = IF n > 0 THEN n ELSE 0
           /\ \A i \in DOMAIN Document!default_scenario(n).devices : DeviceRuns(Document!default_scenario(n).devices[i])
           /\ \A i, j \in DOMAIN Document!default_scenario(n).devices :
                  i # j => Document!default_scenario(n).devices[i].id # Document!default_scenario(n).devices[j].id
<1> DEFINE Ms == [m \in DOMAIN Document!BUILTIN_WAVES \cup {"raw"} |->
                     IF m = "raw" THEN [kind |-> "raw"] ELSE [kind |-> "wave", wave |-> Document!BUILTIN_WAVES[m]]]
           dev(i) == [id |-> <<"emu-sensor-", i - 1>>, faults |-> {}, interval |-> None, mcu |-> None,
                      measurements |-> Ms]
           D == [i \in 1..n |-> dev(i)]
<1>1. Document!default_scenario(n).devices = D
  BY DEF Document!default_scenario
<1>2. \A m \in DOMAIN Ms : MeasurementRuns(Ms[m])
  <2>1. TAKE m \in DOMAIN Ms
  <2>2. CASE m = "raw"
    BY <2>2 DEF MeasurementRuns
  <2>3. CASE m # "raw"
    <3>1. Document!Builtin(m) /\ Ms[m] = [kind |-> "wave", wave |-> Document!BUILTIN_WAVES[m]]
      BY <2>3 DEF Document!Builtin
    <3>2. WaveRuns(Document!BUILTIN_WAVES[m])
      BY <3>1, BuiltinsAreCalm, CalmWavesRun
    <3> HIDE DEF Ms
    <3>3. QED
      BY <3>1, <3>2 DEF MeasurementRuns
  <2>4. QED
    BY <2>2, <2>3
<1>3. "raw" \in DOMAIN Ms
  OBVIOUS
<1> HIDE DEF Ms
<1>4. \A i \in 1..n : DeviceRuns(dev(i))
  BY <1>2, <1>3 DEF DeviceRuns, SensibleDocument
<1>5. \A i \in 1..n : \A j \in 1..n : dev(i).id = dev(j).id => i = j
  OBVIOUS
<1>6. DOMAIN D = 1..n /\ \A i \in 1..n : D[i] = dev(i)
  OBVIOUS
<1>7. Len(D) = IF n > 0 THEN n ELSE 0
  <2>1. CASE n > 0
    BY <2>1
  <2>2. CASE ~n > 0
    <3>1. 1..n = {}
      BY <2>2
    <3>2. D = <<>>
      BY <3>1
    <3>3. QED
      BY <2>2, <3>2
  <2>3. QED
    BY <2>1, <2>2
<1> HIDE DEF dev, D
<1>8. QED
  BY <1>1, <1>4, <1>5, <1>6, <1>7

-----------------------------------------------------------------------------
(* What the container makes of what the command line hands it.             *)
IsMade(s) == DOMAIN s = {"devices", "interval", "qos", "retain", "replays"}

LEMMA OverrideKeeps ==
    ASSUME NEW s, IsMade(s), NEW e
    PROVE  /\ Document!Override(s, e).devices = s.devices
           /\ Document!Override(s, e).replays = IF e.replay # None THEN Append(s.replays, e.replay) ELSE s.replays
           /\ Document!Override(s, e).interval = IF e.interval # None THEN e.interval ELSE s.interval
           /\ e.qos # None => Document!Override(s, e).qos = e.qos
           /\ e.retain # None => Document!Override(s, e).retain = e.retain
  BY DEF Document!Override, IsMade

LEMMA WhatRuns ==
    ASSUME NEW s, \A i \in DOMAIN s.devices : DeviceRuns(s.devices[i]),
           \A i, j \in DOMAIN s.devices : i # j => s.devices[i].id # s.devices[j].id,
           \A i \in DOMAIN s.replays : s.replays[i].loop => s.replays[i].speed > 0
    PROVE  Document!Runs(s)
  BY DEF Document!Runs, DeviceRuns, MeasurementRuns, WaveRuns, FeedRuns

LEMMA OptionRuns ==
    ASSUME SensibleDocument, NEW o \in Options, ~Document!Refuses(o), o.replay # None
    PROVE  LET r == Document!_run_options(o).replay
           IN  r # None /\ r = [o.replay EXCEPT !.file = Where[@]] /\ (r.loop => r.speed > 0)
<1>1. SensibleReplay(o.replay) /\ o.replay.speed >= 0 /\ None # [o.replay EXCEPT !.file = Where[@]]
  BY DEF SensibleDocument
<1>2. Document!_run_options(o).replay = [o.replay EXCEPT !.file = Where[@]]
  BY DEF Document!_run_options
<1>3. o.replay.loop => o.replay.speed # 0
  BY DEF Document!Refuses
<1> DEFINE r == [o.replay EXCEPT !.file = Where[@]]
<1>4. r.loop = o.replay.loop /\ r.speed = o.replay.speed
  BY <1>1 DEF SensibleReplay
<1> HIDE DEF r
<1>5. r.loop => r.speed > 0
  BY <1>1, <1>3, <1>4 DEF SensibleReplay
<1>6. QED
  BY <1>1, <1>2, <1>5 DEF r

(* With the option's replay, or without one, after the scenario's own. *)
Own == IF doc = None THEN <<>> ELSE Document!parse_scenario(doc, Where).replays

LEMMA ReplaysRun ==
    ASSUME SensibleDocument, doc # None => IsDocument(doc) /\ Document!IsScenario(doc, Where)
    PROVE  /\ \E S : Own \in Seq(S)
           /\ \A i \in DOMAIN Own : Own[i].loop => Own[i].speed > 0
           /\ doc # None /\ doc.replays # <<>> => Own # <<>>
<1>1. CASE doc = None
  <2>1. Own = <<>>
    BY <1>1 DEF Own
  <2>2. QED
    BY <1>1, <2>1
<1>2. CASE doc # None
  <2> DEFINE n == Len(doc.replays)
             file(r) == [r EXCEPT !.file = Where[@]]
             S == {file(r) : r \in Replays}
  <2>1. n \in Nat /\ DOMAIN doc.replays = 1..n /\ \A i \in 1..n : doc.replays[i] \in Replays
    BY <1>2 DEF IsDocument
  <2>2. Own = [i \in 1..n |-> file(doc.replays[i])]
    BY <1>2, <2>1 DEF Own, Document!parse_scenario
  <2>3. \A i \in 1..n : file(doc.replays[i]) \in S
    BY <2>1
  <2>4. \A i \in 1..n : /\ file(doc.replays[i]).loop = doc.replays[i].loop
                        /\ file(doc.replays[i]).speed = doc.replays[i].speed
    BY <2>1 DEF SensibleDocument, SensibleReplay
  <2>5. \A i \in 1..n : /\ doc.replays[i].speed \in Int /\ doc.replays[i].speed >= 0
                        /\ doc.replays[i].loop => doc.replays[i].speed # 0
    <3>1. TAKE i \in 1..n
    <3>2. Document!IsReplay(doc.replays[i], Where)
      BY <1>2, <2>1 DEF Document!IsScenario
    <3>3. doc.replays[i].speed \in Int
      BY <2>1 DEF SensibleDocument, SensibleReplay
    <3>4. QED
      BY <3>2, <3>3 DEF Document!IsReplay
  <2> HIDE DEF file, S
  <2>6. Own \in Seq(S) /\ Len(Own) = n
    BY <2>1, <2>2, <2>3
  <2>7. \A i \in 1..n : Own[i] = file(doc.replays[i])
    BY <2>2
  <2>8. \A i \in 1..n : Own[i].loop => Own[i].speed > 0
    BY <2>4, <2>5, <2>7
  <2>9. doc.replays # <<>> => Own # <<>>
    BY <1>2, <2>6 DEF IsDocument
  <2>10. QED
    BY <2>1, <2>2, <2>6, <2>8, <2>9
<1>3. QED
  BY <1>1, <1>2

(* The scenario of the container: its devices are the document's, or the   *)
(* default ones.                                                           *)
DevicesThere(o, D) ==
    IF doc # None THEN D = Document!Devices(doc, Where)
    ELSE Len(D) = CASE o.devices # None -> IF o.devices > 0 THEN o.devices ELSE 0
                    [] o.devices = None /\ o.replay # None -> 0
                    [] OTHER -> 1

BaseOf(e) ==
    CASE e.scenario # None -> Document!parse_scenario(e.scenario, Document!Inside(e))
      [] e.scenario = None /\ e.devices = None /\ e.replay # None -> Document!default_scenario(0)
      [] OTHER -> Document!default_scenario(IF e.devices = None THEN 1 ELSE e.devices)

LEMMA BaseRuns ==
    ASSUME SensibleDocument, NEW o \in Options, ~Document!Refuses(o), doc # None => IsDocument(doc)
    PROVE  LET s == BaseOf(Document!_run_options(o))
           IN  /\ IsMade(s) /\ DevicesThere(o, s.devices) /\ s.interval = 200 /\ s.replays = Own
               /\ \A i \in DOMAIN s.devices : DeviceRuns(s.devices[i])
               /\ \A i, j \in DOMAIN s.devices : i # j => s.devices[i].id # s.devices[j].id
               /\ doc # None => s.devices # <<>> \/ doc.replays # <<>>
<1> DEFINE e == Document!_run_options(o)
           s == BaseOf(e)
<1>1. /\ e.scenario = doc /\ e.devices = o.devices
      /\ e.replay = IF o.replay = None THEN None ELSE [o.replay EXCEPT !.file = Where[@]]
  BY DEF Document!_run_options
<1>2. o.replay # None <=> e.replay # None
  BY <1>1, OptionRuns
<1>3. CASE doc # None
  <2>1. IsDocument(doc) /\ Document!IsScenario(doc, Where)
    BY <1>3 DEF Document!Refuses
  <2>2. Agrees(Document!Inside(e), Document!Named(doc))
    BY <1>3, <2>1, InsideAgrees
  <2> HIDE DEF e
  <2>3. s = Document!parse_scenario(doc, Where)
    BY <1>1, <1>3, <2>1, <2>2, SameDocument DEF BaseOf
  <2>4. IsMade(s) /\ s.devices = Document!Devices(doc, Where) /\ s.interval = 200
    BY <2>3 DEF Document!parse_scenario, IsMade
  <2>5. s.replays = Own
    BY <1>3, <2>3 DEF Own
  <2> HIDE DEF s
  <2>6. QED
    BY <1>3, <2>1, <2>4, <2>5, DocumentsRun DEF DevicesThere, s, e
<1>4. CASE doc = None
  <2> DEFINE n == IF o.devices # None THEN o.devices ELSE IF o.replay # None THEN 0 ELSE 1
  <2>1. n \in Int
    BY DEF SensibleDocument
  <2> HIDE DEF e
  <2>2. s = Document!default_scenario(n)
    BY <1>1, <1>2, <1>4 DEF BaseOf
  <2>3. IsMade(s) /\ s.interval = 200 /\ s.replays = <<>>
    BY <2>2 DEF Document!default_scenario, IsMade
  <2>4. Own = <<>>
    BY <1>4 DEF Own
  <2> HIDE DEF s
  <2>5. Len(s.devices) = IF n > 0 THEN n ELSE 0
    BY <2>1, <2>2, DefaultsRun
  <2>6. DevicesThere(o, s.devices)
    BY <1>4, <2>5 DEF DevicesThere
  <2> HIDE DEF n
  <2>7. QED
    BY <1>4, <2>1, <2>2, <2>3, <2>4, <2>6, DefaultsRun DEF s, e
<1>5. QED
  BY <1>3, <1>4

LEMMA StartedRuns ==
    ASSUME SensibleDocument, NEW o \in Options, ~Document!Refuses(o), doc # None => IsDocument(doc),
           started = [args |-> o, env |-> Document!_run_options(o)]
    PROVE  LET s == Document!resolve_scenario(started.env)
           IN  Document!SameInside /\ Document!Runs(s) /\ (Document!Publishes(s) \/ Document!AsksForNone(started.args))
<1> DEFINE e == Document!_run_options(o)
           b == BaseOf(e)
           s == Document!resolve_scenario(e)
           option == [o.replay EXCEPT !.file = Where[@]]
<1>1. started.args = o /\ started.env = e
  OBVIOUS
<1>2. /\ e.scenario = doc /\ e.interval = o.interval /\ e.qos = o.qos /\ e.retain = o.retain
      /\ o.replay = None => e.replay = None
      /\ o.replay # None => e.replay # None /\ e.replay = option /\ (option.loop => option.speed > 0)
  BY OptionRuns DEF Document!_run_options
<1>3. /\ IsMade(b) /\ DevicesThere(o, b.devices) /\ b.interval = 200 /\ b.replays = Own
      /\ \A i \in DOMAIN b.devices : DeviceRuns(b.devices[i])
      /\ \A i, j \in DOMAIN b.devices : i # j => b.devices[i].id # b.devices[j].id
      /\ doc # None => b.devices # <<>> \/ doc.replays # <<>>
  BY BaseRuns
<1>4. s = Document!Override(b, e)
  BY DEF Document!resolve_scenario, BaseOf
<1>5. doc # None => IsDocument(doc) /\ Document!IsScenario(doc, Where)
  BY DEF Document!Refuses
<1>6. doc # None => Document!IsScenario(doc, Document!Inside(e))
  BY <1>5, InsideAgrees, SameDocument
<1> HIDE DEF e, b, s, option
<1>7. /\ s.devices = b.devices
      /\ s.replays = IF e.replay # None THEN Append(b.replays, e.replay) ELSE b.replays
      /\ s.interval = IF e.interval # None THEN e.interval ELSE b.interval
      /\ e.qos # None => s.qos = e.qos
      /\ e.retain # None => s.retain = e.retain
  BY <1>3, <1>4, OverrideKeeps
<1>8. PICK S : Own \in Seq(S)
  BY <1>5, ReplaysRun
<1>9. Own \o <<>> = Own /\ Own \o <<option>> = Append(Own, option)
  <2> DEFINE T == S \cup {option}
  <2>1. Own \in Seq(T) /\ option \in T
    BY <1>8
  <2> HIDE DEF T
  <2>2. QED
    BY <2>1
<1>10. s.replays = Own \o (IF o.replay = None THEN <<>> ELSE <<option>>)
  BY <1>2, <1>3, <1>7, <1>9
<1>11. Document!SameInside
  <2>1. IF doc # None THEN s.devices = Document!Devices(doc, Where) /\ Document!IsScenario(doc, Document!Inside(e))
        ELSE Len(s.devices) = CASE o.devices # None -> IF o.devices > 0 THEN o.devices ELSE 0
                                [] o.devices = None /\ o.replay # None -> 0
                                [] OTHER -> 1
    BY <1>3, <1>6, <1>7 DEF DevicesThere
  <2>2. s.interval = IF o.interval = None THEN 200 ELSE o.interval
    BY <1>2, <1>3, <1>7
  <2>3. QED
    BY <1>1, <1>2, <1>7, <1>10, <2>1, <2>2 DEF Document!SameInside, s, option, Own
<1>12. \A i \in DOMAIN s.replays : s.replays[i].loop => s.replays[i].speed > 0
  <2>1. \A i \in DOMAIN Own : Own[i].loop => Own[i].speed > 0
    BY <1>5, ReplaysRun
  <2>2. CASE o.replay = None
    BY <1>9, <1>10, <2>1, <2>2
  <2>3. CASE o.replay # None
    <3>1. s.replays = Append(Own, option) /\ Len(Own) \in Nat /\ DOMAIN Own = 1..Len(Own)
      BY <1>8, <1>9, <1>10, <2>3
    <3>2. /\ DOMAIN s.replays = 1..Len(Own) + 1
          /\ \A i \in 1..Len(Own) + 1 : s.replays[i] = IF i \in 1..Len(Own) THEN Own[i] ELSE option
      <4> DEFINE T == S \cup {option}
      <4>1. Own \in Seq(T) /\ option \in T
        BY <1>8
      <4> HIDE DEF T
      <4>2. QED
        BY <3>1, <4>1, AppendProperties
    <3>3. QED
      BY <1>2, <2>1, <2>3, <3>1, <3>2
  <2>4. QED
    BY <2>2, <2>3
<1>13. Document!Runs(s)
  <2>1. \A i \in DOMAIN s.devices : DeviceRuns(s.devices[i])
    BY <1>3, <1>7
  <2>2. \A i, j \in DOMAIN s.devices : i # j => s.devices[i].id # s.devices[j].id
    BY <1>3, <1>7
  <2>3. QED
    BY <1>12, <2>1, <2>2, WhatRuns
<1>14. Document!Publishes(s) \/ Document!AsksForNone(o)
  <2>1. CASE o.replay # None
    <3>1. s.replays = Append(Own, option)
      BY <1>9, <1>10, <2>1
    <3>2. s.replays # <<>>
      BY <1>8, <3>1
    <3>3. QED
      BY <3>2 DEF Document!Publishes
  <2>2. CASE o.replay = None /\ doc # None
    <3>1. s.replays = Own
      BY <1>9, <1>10, <2>2
    <3>2. QED
      BY <1>3, <1>5, <1>7, <2>2, <3>1, ReplaysRun DEF Document!Publishes
  <2>3. CASE o.replay = None /\ doc = None
    <3>1. o.devices = None => Len(s.devices) = 1
      BY <1>3, <1>7, <2>3 DEF DevicesThere
    <3>2. o.devices # None /\ o.devices > 0 => Len(s.devices) > 0
      BY <1>3, <1>7, <2>3 DEF DevicesThere
    <3>3. o.devices = None \/ o.devices \in Int
      BY DEF SensibleDocument
    <3>4. QED
      BY <3>1, <3>2, <3>3 DEF Document!Publishes, Document!AsksForNone
  <2>4. QED
    BY <2>1, <2>2, <2>3
<1>15. QED
  BY <1>1, <1>11, <1>13, <1>14 DEF s

ScenInv ==
    /\ doc # None => IsDocument(doc)
    /\ Document!TypeOK
    /\ Document!IsStarted => \E o \in Options : ~Document!Refuses(o) /\ started = [args |-> o, env |-> Document!_run_options(o)]

(* The container runs what the host has checked, and what it runs is well  *)
(* defined: for every document, file system and command line.              *)
THEOREM AcceptedScenariosRun ==
    ASSUME SensibleDocument PROVE Document!Spec => []Document!TypeOK /\ []Document!AcceptedRuns
<1>1. Document!Init => ScenInv
  <2> SUFFICES ASSUME Document!Init PROVE ScenInv
    OBVIOUS
  <2>1. started = None
    BY DEF Document!Init
  <2>2. doc # None => doc.devices = <<>> /\ doc.replays = <<>>
    BY DEF Document!Init
  <2>3. MaxEntries \in Nat
    BY DEF SensibleDocument
  <2>4. doc # None => IsDocument(doc) /\ Len(doc.devices) <= MaxEntries /\ Len(doc.replays) <= 1
    <3>1. \A S : <<>> \in Seq(S)
      BY EmptySeq
    <3>2. Len(<<>>) = 0
      OBVIOUS
    <3>3. 0 <= MaxEntries
      BY <2>3
    <3>4. doc # None => IsDocument(doc)
      BY <2>2, <3>1 DEF IsDocument
    <3>5. doc # None => Len(doc.devices) = 0 /\ Len(doc.replays) = 0
      BY <2>2, <3>2
    <3>6. doc # None => Len(doc.devices) <= MaxEntries /\ Len(doc.replays) <= 1
      BY <2>3, <3>5
    <3>7. QED
      BY <3>4, <3>6
  <2>5. ~Document!IsStarted
    BY <2>1 DEF Document!IsStarted
  <2>6. QED
    BY <2>4, <2>5 DEF ScenInv, Document!TypeOK
<1>2. ScenInv /\ [Document!Next]_Document!vars => ScenInv'
  <2> SUFFICES ASSUME ScenInv, [Document!Next]_Document!vars PROVE ScenInv'
    OBVIOUS
  <2>1. ASSUME NEW e \in Entries, Document!WriteDevice(e) PROVE ScenInv'
    <3>1. doc # None /\ started = None /\ started' = None /\ IsDocument(doc) /\ Len(doc.devices) < MaxEntries
      BY <2>1 DEF ScenInv, Document!WriteDevice
    <3>2. doc' = [doc EXCEPT !.devices = Append(@, e)]
      BY <2>1 DEF Document!WriteDevice
    <3>3. QED
      BY <3>1, <3>2 DEF ScenInv, IsDocument, Document!TypeOK, Document!IsStarted, SensibleDocument
  <2>2. ASSUME NEW r \in Replays, Document!WriteReplay(r) PROVE ScenInv'
    <3>1. doc # None /\ started = None /\ started' = None /\ IsDocument(doc) /\ Len(doc.replays) < 1
      BY <2>2 DEF ScenInv, Document!WriteReplay
    <3>2. doc' = [doc EXCEPT !.replays = Append(@, r)]
      BY <2>2 DEF Document!WriteReplay
    <3>3. QED
      BY <3>1, <3>2 DEF ScenInv, IsDocument, Document!TypeOK, Document!IsStarted, SensibleDocument
  <2>3. ASSUME NEW o \in Options, Document!start_simulator(o) PROVE ScenInv'
    <3>1. doc' = doc
      BY <2>3 DEF Document!start_simulator
    <3>2. CASE Document!Refuses(o)
      BY <2>3, <3>1, <3>2 DEF ScenInv, IsDocument, Document!start_simulator, Document!IsStarted, Document!TypeOK
    <3>3. CASE ~Document!Refuses(o)
      <4>1. started' = [args |-> o, env |-> Document!_run_options(o)]
        BY <2>3, <3>3 DEF Document!start_simulator
      <4>2. Document!_run_options(o).scenario = doc
        BY DEF Document!_run_options
      <4>3. (~Document!Refuses(o))'
        BY <3>1, <3>3 DEF Document!Refuses
      <4>4. Document!_run_options(o)' = Document!_run_options(o)
        BY <3>1 DEF Document!_run_options
      <4>5. QED
        BY <3>1, <4>1, <4>2, <4>3, <4>4 DEF ScenInv, IsDocument, Document!TypeOK
    <3>4. QED
      BY <3>2, <3>3
  <2>4. CASE UNCHANGED Document!vars
    <3>1. doc' = doc /\ started' = started
      BY <2>4 DEF Document!vars
    <3>2. \A o \in Options : (Document!Refuses(o))' = Document!Refuses(o) /\ Document!_run_options(o)' = Document!_run_options(o)
      BY <3>1 DEF Document!Refuses, Document!_run_options
    <3>3. QED
      BY <3>1, <3>2 DEF ScenInv, IsDocument, Document!TypeOK, Document!IsStarted
  <2>5. QED
    BY <2>1, <2>2, <2>3, <2>4 DEF Document!Next
<1>3. ScenInv => Document!TypeOK /\ Document!AcceptedRuns
  BY StartedRuns DEF ScenInv, Document!AcceptedRuns
<1>4. QED
  BY <1>1, <1>2, <1>3, PTL DEF Document!Spec

-----------------------------------------------------------------------------
(* A deployment: its parts keep to themselves what each of them does.      *)
LEMMA PartsOfDeployment == DeploymentSpec => Spec /\ Loop!Spec /\ Document!Spec
<1>1. DeploymentInit => Init /\ Loop!Init /\ Document!Init
  BY DEF DeploymentInit
<1>2. [DeploymentNext]_<<vars, loopVars, documentVars>> => [Next]_vars
  BY DEF DeploymentNext, StacksStep, LoopStep, DocumentStep
<1>3. [DeploymentNext]_<<vars, loopVars, documentVars>> => [Loop!Next]_Loop!vars
  BY DEF DeploymentNext, StacksStep, LoopStep, DocumentStep, loopVars, Loop!vars
<1>4. [DeploymentNext]_<<vars, loopVars, documentVars>> => [Document!Next]_Document!vars
  BY DEF DeploymentNext, StacksStep, LoopStep, DocumentStep, documentVars, Document!vars
<1>5. QED
  BY <1>1, <1>2, <1>3, <1>4, PTL DEF DeploymentSpec, Spec, Loop!Spec, Document!Spec

(* The heap of delayed readings is in order and the recording's index in   *)
(* range, a terminal that waits for a command is at work on none, a        *)
(* container's scenario is the document that the host has.                 *)
THEOREM DeploymentTypeCorrect ==
    ASSUME Sensible, SensibleLoop, SensibleDocument PROVE DeploymentSpec => []DeploymentTypeOK
<1>1. Spec => []TypeOK
  BY LifecycleTypeCorrect
<1>2. Loop!Spec => []Loop!TypeOK
  BY LoopTypeCorrect
<1>3. Document!Spec => []Document!TypeOK
  BY AcceptedScenariosRun, PTL
<1>4. TypeOK /\ Loop!TypeOK /\ Document!TypeOK => DeploymentTypeOK
  BY DEF DeploymentTypeOK
<1>5. QED
  BY <1>1, <1>2, <1>3, <1>4, PartsOfDeployment, PTL

(* sensor_sim.run(), beside whatever the terminals do: nothing is late by  *)
(* more than a turn and a sleep, what is silent is not taken, and it ends  *)
(* only once there is nothing to publish.                                  *)
THEOREM SimulatorsKeepTime == ASSUME SensibleLoop PROVE DeploymentSpec => []SimulatorKeepsTime
<1>1. Loop!Spec => []Loop!OnTime
  BY LoopSleepsPastNothing
<1>2. Loop!Spec => []Loop!SilenceHolds
  BY LoopKeepsSilence
<1>3. Loop!Spec => []Loop!EndsWhenDone
  BY LoopEndsWhenDone
<1>4. Loop!OnTime /\ Loop!SilenceHolds /\ Loop!EndsWhenDone => SimulatorKeepsTime
  BY DEF SimulatorKeepsTime
<1>5. QED
  BY <1>1, <1>2, <1>3, <1>4, PartsOfDeployment, PTL

(* start_cmd() and resolve_scenario(): a scenario that the host accepts is *)
(* the one that the container runs, and it runs.                           *)
THEOREM WhatIsAcceptedRuns == ASSUME SensibleDocument PROVE DeploymentSpec => []AcceptedRuns
<1>1. Document!Spec => []Document!AcceptedRuns
  BY AcceptedScenariosRun, PTL
<1>2. Document!AcceptedRuns => AcceptedRuns
  BY DEF AcceptedRuns
<1>3. QED
  BY <1>1, <1>2, PartsOfDeployment, PTL

(* _roll_back() and the overlays: a command undoes what it did, and of     *)
(* what it did not do only stacks that Docker told it nothing about; and   *)
(* it leaves no limits that no file tells of.                              *)
THEOREM CommandsUndoTheirOwn == ASSUME Sensible PROVE DeploymentSpec => []UndoesOnlyItsOwn
<1>1. Spec => []RollBackSpares
  BY RollBacksSpare
<1>2. Spec => []LimitsAreKnown
  BY LimitsStayKnown
<1>3. RollBackSpares /\ LimitsAreKnown => UndoesOnlyItsOwn
  BY DEF UndoesOnlyItsOwn
<1>4. QED
  BY <1>1, <1>2, <1>3, PartsOfDeployment, PTL
=============================================================================
