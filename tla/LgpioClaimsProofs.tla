-------------------------- MODULE LgpioClaimsProofs --------------------------
(* What holds of LgpioClaims for any lines, handles, threads and programs. *)
EXTENDS LgpioClaims, SequenceTheorems, TLAPS

(* Every line of a call is a line of the chip. *)
LEMMA LineType ==
    ASSUME TypeOK, NEW t \in Threads, pc[t] # "idle"
    PROVE  /\ call[t] \in Call
           /\ Line(t) \in GPIO
           /\ Leader(t) \in GPIO
           /\ call[t].op \in SingleOps \cup GroupOps
<1>1. call[t] \in Call /\ call[t].gpios # <<>> /\ call[t].todo # <<>>
  BY DEF TypeOK
<1>2. call[t].gpios \in Seq(GPIO) /\ call[t].todo \in Seq(GPIO)
  BY <1>1 DEF Call
<1>3. QED
  BY <1>1, <1>2 DEF Line, Leader, Call

(* A step of one call leaves the others alone. *)
LEMMA ReturnType ==
    ASSUME TypeOK, NEW t \in Threads, NEW how \in {"status", "exception"}, Return(t, how)
    PROVE  /\ pc' \in [Threads -> Places]
           /\ DOMAIN call' = Threads
           /\ answer' \in [Threads -> {"status", "exception"}]
           /\ pc'[t] = "idle"
           /\ \A u \in Threads : u # t => pc'[u] = pc[u] /\ call'[u] = call[u] /\ answer'[u] = answer[u]
BY DEF Return, TypeOK, Places

LEMMA GotoType ==
    ASSUME TypeOK, NEW t \in Threads, NEW place \in Places, Goto(t, place)
    PROVE  /\ pc' \in [Threads -> Places]
           /\ pc'[t] = place
           /\ call' = call /\ answer' = answer
           /\ \A u \in Threads : u # t => pc'[u] = pc[u]
BY DEF Goto, TypeOK

LEMMA TailType ==
    ASSUME NEW s \in Seq(GPIO), Len(s) > 1
    PROVE  Tail(s) \in Seq(GPIO) /\ Tail(s) # <<>>
<1>1. s # <<>>
  BY EmptySeq
<1>2. Tail(s) \in Seq(GPIO) /\ Len(Tail(s)) = Len(s) - 1
  BY <1>1, HeadTailProperties
<1>3. Len(s) \in Nat
  OBVIOUS
<1>4. Len(Tail(s)) # 0
  BY <1>2, <1>3
<1>5. Len(<<>>) = 0
  OBVIOUS
<1>6. Tail(s) # <<>>
  BY <1>4, <1>5, Zenon
<1>7. QED
  BY <1>2, <1>6

(* The next line of a call, when it has one. *)
LEMMA NextLineType ==
    ASSUME TypeOK, NEW t \in Threads, pc[t] # "idle", Len(call[t].todo) > 1,
           call' = [call EXCEPT ![t].todo = Tail(@)]
    PROVE  /\ DOMAIN call' = Threads
           /\ call'[t] \in Call /\ call'[t].gpios # <<>> /\ call'[t].todo # <<>>
           /\ call'[t].op = call[t].op /\ call'[t].handle = call[t].handle
           /\ \A u \in Threads : u # t => call'[u] = call[u]
<1>1. call[t] \in Call /\ call[t].gpios # <<>> /\ DOMAIN call = Threads
  BY DEF TypeOK
<1>2. call[t].todo \in Seq(GPIO)
  BY <1>1 DEF Call
<1>3. Tail(call[t].todo) \in Seq(GPIO) /\ Tail(call[t].todo) # <<>>
  BY <1>2, TailType
<1> DEFINE c == [call[t] EXCEPT !.todo = Tail(@)]
<1>4. call' = [call EXCEPT ![t] = c]
  BY <1>1
<1>5. c \in Call /\ c.gpios # <<>> /\ c.todo # <<>> /\ c.op = call[t].op /\ c.handle = call[t].handle
  BY <1>1, <1>3 DEF Call
<1> HIDE DEF c
<1>6. QED
  BY <1>1, <1>4, <1>5

-----------------------------------------------------------------------------
(* Type correctness. *)

LEMMA OpenCloseType ==
    ASSUME TypeOK, NEW t \in Threads, NEW h \in Handles, gpiochip_open(t, h) \/ gpiochip_close(t, h)
    PROVE  TypeOK'
BY DEF gpiochip_open, gpiochip_close, TypeOK

LEMMA BeginType ==
    ASSUME TypeOK, NEW t \in Threads, NEW op \in program[t].ops, NEW h \in program[t].handles,
           NEW gpios \in Arguments(op), Begin(t, op, h, gpios)
    PROVE  TypeOK'
<1>1. op \in SingleOps \cup GroupOps /\ h \in Handles
  BY ClaimsAssumption DEF TypeOK
<1>2. gpios \in Seq(GPIO) /\ gpios # <<>>
  <2>1. CASE gpios \in Groups
    BY <2>1, ClaimsAssumption
  <2>2. CASE gpios \in {<<g>> : g \in GPIO}
    <3>1. PICK g \in GPIO : gpios = <<g>>
      BY <2>2
    <3>2. QED
      BY <3>1
  <2>3. QED
    BY <2>1, <2>2 DEF Arguments
<1> DEFINE c == [op |-> op, handle |-> h, gpios |-> gpios, todo |-> gpios]
<1>3. c \in Call /\ c.gpios # <<>> /\ c.todo # <<>>
  BY <1>1, <1>2 DEF Call
<1>4. /\ call' = [call EXCEPT ![t] = c]
      /\ pc' = [pc EXCEPT ![t] = "check"]
      /\ UNCHANGED <<fresh, chips, claims, groups, lines, answer, program>>
  BY DEF Begin
<1> HIDE DEF c
<1>5. Head(gpios) \in GPIO /\ torn' \in SUBSET GPIO
  BY <1>2 DEF Begin, TypeOK
<1>6. QED
  BY <1>3, <1>4, <1>5 DEF TypeOK, Places

LEMMA EntryType == \A op : Entry(op) \in Places
BY DEF Entry, Places

LEMMA CheckType ==
    ASSUME TypeOK, NEW t \in Threads, gpio_ok(t)
    PROVE  TypeOK'
<1>1. UNCHANGED <<fresh, chips, claims, groups, lines, program, torn>> /\ pc[t] # "idle"
  BY DEF gpio_ok
<1>2. CASE Return(t, "status")
  BY <1>1, <1>2, ReturnType DEF TypeOK
<1>3. CASE Goto(t, Entry(call[t].op))
  BY <1>1, <1>3, EntryType, GotoType DEF TypeOK
<1>4. QED
  BY <1>2, <1>3 DEF gpio_ok

LEMMA ClaimLineType ==
    ASSUME TypeOK, NEW t \in Threads, ClaimLine(t)
    PROVE  TypeOK'
<1>1. UNCHANGED <<fresh, chips, groups, lines, program, torn>> /\ pc[t] # "idle"
  BY DEF ClaimLine
<1>2. CASE Return(t, "status") /\ UNCHANGED claims
  BY <1>1, <1>2, ReturnType DEF TypeOK
<1>3. CASE /\ Goto(t, "setup")
           /\ claims' = [claims EXCEPT ![Line(t)] =
                 [handle |-> call[t].handle, output |-> Output(call[t].op), alert |-> FALSE]]
  <2>1. [handle |-> call[t].handle, output |-> Output(call[t].op), alert |-> FALSE] \in Claim
    BY <1>1, LineType DEF Claim, Call, Output
  <2>2. claims' \in [GPIO -> Claim \cup {None}]
    BY <1>1, <1>3, <2>1, LineType DEF TypeOK
  <2>3. "setup" \in Places
    BY DEF Places
  <2>4. QED
    BY <1>1, <1>3, <2>2, <2>3, GotoType DEF TypeOK
<1>4. QED
  BY <1>2, <1>3 DEF ClaimLine

LEMMA SetUpLineType ==
    ASSUME TypeOK, NEW t \in Threads, SetUpLine(t)
    PROVE  TypeOK'
<1>1. UNCHANGED <<fresh, chips, claims, groups, program, torn>> /\ pc[t] # "idle"
  BY DEF SetUpLine
<1>2. lines' \in [GPIO -> {"input", "output", None}]
  BY <1>1, LineType DEF SetUpLine, TypeOK
<1>3. CASE Goto(t, "alert") \/ Goto(t, "group")
  BY <1>1, <1>2, <1>3, GotoType DEF TypeOK, Places
<1>4. CASE Return(t, "status")
  BY <1>1, <1>2, <1>4, ReturnType DEF TypeOK
<1>5. CASE /\ Len(call[t].todo) > 1
           /\ call' = [call EXCEPT ![t].todo = Tail(@)]
           /\ pc' = [pc EXCEPT ![t] = "check"]
           /\ UNCHANGED answer
  BY <1>1, <1>2, <1>5, NextLineType DEF TypeOK, Places
<1>6. QED
  BY <1>3, <1>4, <1>5 DEF SetUpLine, NextLine

LEMMA ArmAlertType ==
    ASSUME TypeOK, NEW t \in Threads, ArmAlert(t)
    PROVE  TypeOK'
<1>1. UNCHANGED <<fresh, chips, groups, lines, program, torn>> /\ pc[t] # "idle"
  BY DEF ArmAlert
<1>2. claims' \in [GPIO -> Claim \cup {None}]
  <2>1. CASE UNCHANGED claims
    BY <2>1 DEF TypeOK
  <2>2. CASE claims[Line(t)] # None /\ claims' = [claims EXCEPT ![Line(t)].alert = TRUE]
    <3>1. claims[Line(t)] \in Claim
      BY <1>1, <2>2, LineType DEF TypeOK
    <3>2. [claims[Line(t)] EXCEPT !.alert = TRUE] \in Claim
      BY <3>1 DEF Claim
    <3>3. QED
      BY <1>1, <2>2, <3>2, LineType DEF TypeOK
  <2>3. QED
    BY <2>1, <2>2 DEF ArmAlert
<1>3. PICK how \in {"status", "exception"} : Return(t, how)
  BY DEF ArmAlert
<1>4. QED
  BY <1>1, <1>2, <1>3, ReturnType DEF TypeOK

LEMMA MakeGroupType ==
    ASSUME TypeOK, NEW t \in Threads, make_group(t)
    PROVE  TypeOK'
<1>1. UNCHANGED <<fresh, chips, claims, lines, program, torn>> /\ pc[t] # "idle"
  BY DEF make_group
<1>2. groups' \in [GPIO -> (Seq(GPIO) \ {<<>>}) \cup {None}]
  <2>1. call[t].gpios \in Seq(GPIO) \ {<<>>}
    BY <1>1 DEF TypeOK, Call
  <2>2. groups' = [groups EXCEPT ![Leader(t)] = call[t].gpios]
    BY DEF make_group
  <2> DEFINE Entries == (Seq(GPIO) \ {<<>>}) \cup {None}
  <2>3. call[t].gpios \in Entries /\ groups \in [GPIO -> Entries] /\ Leader(t) \in GPIO
    BY <1>1, <2>1, LineType DEF TypeOK
  <2> HIDE DEF Entries
  <2>4. groups' \in [GPIO -> Entries]
    BY <2>2, <2>3
  <2>5. QED
    BY <2>4 DEF Entries
<1>3. PICK how \in {"status", "exception"} : Return(t, how)
  BY DEF make_group
<1>4. /\ pc' \in [Threads -> Places]
      /\ DOMAIN call' = Threads
      /\ answer' \in [Threads -> {"status", "exception"}]
      /\ pc'[t] = "idle"
      /\ \A u \in Threads : u # t => pc'[u] = pc[u] /\ call'[u] = call[u]
  BY <1>1, <1>3, ReturnType
<1>5. QED
  BY <1>1, <1>2, <1>4 DEF TypeOK

LEMMA FreeWriteType ==
    ASSUME TypeOK, NEW t \in Threads, Using(t)
    PROVE  TypeOK'
<1>1. CASE gpio_free(t)
  <2>1. UNCHANGED <<fresh, chips, groups, program, torn>> /\ Return(t, "status")
    BY <1>1 DEF gpio_free
  <2>2. claims' \in [GPIO -> Claim \cup {None}] /\ lines' \in [GPIO -> {"input", "output", None}]
    BY <1>1 DEF gpio_free, TypeOK
  <2>3. QED
    BY <1>1, <2>1, <2>2, ReturnType DEF TypeOK, gpio_free
<1>2. CASE owned(t)
  <2>1. UNCHANGED <<fresh, chips, claims, groups, lines, program, torn>> /\ pc[t] # "idle"
    BY <1>2 DEF owned
  <2>2. Return(t, "status") \/ Goto(t, "write")
    BY <1>2 DEF owned
  <2>3. QED
    BY <2>1, <2>2, ReturnType, GotoType DEF TypeOK, Places
<1>3. CASE gpio_write(t)
  <2>1. UNCHANGED <<fresh, chips, claims, groups, lines, program, torn>>
    BY <1>3 DEF gpio_write
  <2>2. PICK how \in {"status", "exception"} : Return(t, how)
    BY <1>3 DEF gpio_write
  <2>3. QED
    BY <2>1, <2>2, ReturnType DEF TypeOK
<1>4. QED
  BY <1>1, <1>2, <1>3 DEF Using

LEMMA FindGroupType ==
    ASSUME TypeOK, NEW t \in Threads, FindGroup(t)
    PROVE  TypeOK'
<1>1. UNCHANGED <<fresh, chips, claims, groups, lines, program, torn>> /\ pc[t] # "idle"
  BY DEF FindGroup
<1>2. CASE Return(t, "status")
  BY <1>1, <1>2, ReturnType DEF TypeOK
<1>3. CASE /\ groups[Leader(t)] # None
           /\ call' = [call EXCEPT ![t].todo = groups[Leader(t)]]
           /\ pc' = [pc EXCEPT ![t] = IF call[t].op = "group_free" THEN "delete" ELSE "members"]
           /\ UNCHANGED answer
  <2>1. groups[Leader(t)] \in Seq(GPIO) \ {<<>>}
    BY <1>1, <1>3, LineType DEF TypeOK
  <2> DEFINE c == [call[t] EXCEPT !.todo = groups[Leader(t)]]
  <2>2. c \in Call /\ c.gpios # <<>> /\ c.todo # <<>>
    BY <1>1, <2>1 DEF TypeOK, Call
  <2>3. call' = [call EXCEPT ![t] = c]
    BY <1>3
  <2> HIDE DEF c
  <2>4. QED
    BY <1>1, <1>3, <2>2, <2>3 DEF TypeOK, Places
<1>4. QED
  BY <1>2, <1>3 DEF FindGroup

LEMMA GroupMemberType ==
    ASSUME TypeOK, NEW t \in Threads, GroupMember(t)
    PROVE  TypeOK'
<1>1. UNCHANGED <<fresh, chips, claims, groups, lines, program, torn>> /\ pc[t] # "idle"
  BY DEF GroupMember
<1>2. CASE Return(t, "status") \/ Return(t, "exception")
  BY <1>1, <1>2, ReturnType DEF TypeOK
<1>3. CASE /\ Len(call[t].todo) > 1
           /\ call' = [call EXCEPT ![t].todo = Tail(@)]
           /\ pc' = [pc EXCEPT ![t] = "members"]
           /\ UNCHANGED answer
  BY <1>1, <1>3, NextLineType DEF TypeOK, Places
<1>4. QED
  BY <1>2, <1>3 DEF GroupMember, NextLine

LEMMA GroupFreeType ==
    ASSUME TypeOK, NEW t \in Threads, DeleteGroup(t) \/ PopMember(t) \/ ReleaseMember(t)
    PROVE  TypeOK'
<1>0. pc[t] # "idle"
  BY DEF DeleteGroup, PopMember, ReleaseMember
<1>1. CASE DeleteGroup(t)
  <2>1. UNCHANGED <<fresh, chips, claims, lines, program, torn>>
    BY <1>1 DEF DeleteGroup
  <2>2. groups' \in [GPIO -> (Seq(GPIO) \ {<<>>}) \cup {None}]
    BY <1>1 DEF DeleteGroup, TypeOK
  <2>3. Return(t, "exception") \/ Goto(t, "pop")
    BY <1>1 DEF DeleteGroup
  <2>4. QED
    BY <1>0, <2>1, <2>2, <2>3, ReturnType, GotoType DEF TypeOK, Places
<1>2. CASE PopMember(t)
  <2>1. UNCHANGED <<fresh, chips, groups, lines, program, torn>> /\ Goto(t, "release")
    BY <1>2 DEF PopMember
  <2>2. claims' \in [GPIO -> Claim \cup {None}]
    BY <1>2 DEF PopMember, TypeOK
  <2>3. QED
    BY <1>0, <2>1, <2>2, GotoType DEF TypeOK, Places
<1>3. CASE ReleaseMember(t)
  <2>1. UNCHANGED <<fresh, chips, claims, groups, program, torn>>
    BY <1>3 DEF ReleaseMember
  <2>2. lines' \in [GPIO -> {"input", "output", None}]
    BY <1>3 DEF ReleaseMember, TypeOK
  <2>3. CASE Return(t, "status")
    BY <2>1, <2>2, <2>3, ReturnType DEF TypeOK
  <2>4. CASE /\ Len(call[t].todo) > 1
             /\ call' = [call EXCEPT ![t].todo = Tail(@)]
             /\ pc' = [pc EXCEPT ![t] = "pop"]
             /\ UNCHANGED answer
    BY <1>0, <2>1, <2>2, <2>4, NextLineType DEF TypeOK, Places
  <2>5. QED
    BY <1>3, <2>3, <2>4 DEF ReleaseMember, NextLine
<1>4. QED
  BY <1>1, <1>2, <1>3

LEMMA InitType == Init => TypeOK
BY DEF Init, TypeOK, Places

LEMMA NextType == TypeOK /\ [Next]_vars => TypeOK'
<1> SUFFICES ASSUME TypeOK, [Next]_vars PROVE TypeOK'
  OBVIOUS
<1>1. ASSUME NEW t \in Threads, Calls(t) PROVE TypeOK'
  BY <1>1, OpenCloseType, BeginType DEF Calls
<1>2. ASSUME NEW t \in Threads, gpio_ok(t) \/ Claiming(t) PROVE TypeOK'
  BY <1>2, CheckType, ClaimLineType, SetUpLineType, ArmAlertType, MakeGroupType DEF Claiming
<1>3. ASSUME NEW t \in Threads, Using(t) \/ Grouped(t) PROVE TypeOK'
  BY <1>3, FreeWriteType, FindGroupType, GroupMemberType, GroupFreeType DEF Grouped
<1>4. CASE UNCHANGED vars
  BY <1>4 DEF vars, TypeOK
<1>5. QED
  BY <1>1, <1>2, <1>3, <1>4 DEF Next

(* Every variable keeps its type, and a call in progress has a line left. *)
THEOREM LgpioTypeCorrect == Spec => []TypeOK
BY InitType, NextType, PTL DEF Spec

-----------------------------------------------------------------------------
(* No takeover: the only step that replaces a claim by one of a different  *)
(* handle's would be ClaimLine, which finds the line busy.                 *)

Keeps(g) == claims[g] # None /\ claims'[g] # None => claims'[g].handle = claims[g].handle

LEMMA StepKeeps ==
    ASSUME TypeOK, NEW t \in Threads, NEW g \in GPIO,
           Calls(t) \/ gpio_ok(t) \/ Claiming(t) \/ Using(t) \/ Grouped(t)
    PROVE  Keeps(g)
<1>1. CASE claims' = claims
  BY <1>1 DEF Keeps
<1>2. ASSUME NEW h \in Handles, gpiochip_close(t, h) PROVE Keeps(g)
  BY <1>2 DEF gpiochip_close, Keeps
<1>3. CASE ClaimLine(t)
  <2>1. Line(t) \in GPIO
    BY <1>3, LineType DEF ClaimLine
  <2>2. QED
    BY <1>3, <2>1 DEF ClaimLine, Keeps, Holds, TypeOK
<1>4. CASE ArmAlert(t)
  <2>1. Line(t) \in GPIO
    BY <1>4, LineType DEF ArmAlert
  <2>2. claims[g] \in Claim \cup {None}
    BY DEF TypeOK
  <2>3. QED
    BY <1>4, <2>1, <2>2 DEF ArmAlert, Keeps, TypeOK, Claim
<1>5. CASE gpio_free(t)
  BY <1>5 DEF gpio_free, Keeps, TypeOK
<1>6. CASE PopMember(t)
  BY <1>6 DEF PopMember, Keeps, TypeOK
<1>7. CASE gpio_ok(t) \/ SetUpLine(t) \/ make_group(t) \/ owned(t) \/ gpio_write(t)
  BY <1>1, <1>7 DEF gpio_ok, SetUpLine, make_group, owned, gpio_write
<1>8. CASE FindGroup(t) \/ GroupMember(t) \/ DeleteGroup(t) \/ ReleaseMember(t)
  BY <1>1, <1>8 DEF FindGroup, GroupMember, DeleteGroup, ReleaseMember
<1>9. ASSUME NEW h \in Handles, gpiochip_open(t, h) PROVE Keeps(g)
  BY <1>1, <1>9 DEF gpiochip_open
<1>10. ASSUME NEW op, NEW h, NEW gpios, Begin(t, op, h, gpios) PROVE Keeps(g)
  BY <1>1, <1>10 DEF Begin
<1>11. QED
  BY <1>2, <1>3, <1>4, <1>5, <1>6, <1>7, <1>8, <1>9, <1>10 DEF Calls, Claiming, Using, Grouped

LEMMA NextKeeps == TypeOK /\ [Next]_vars => [\A g \in GPIO : Keeps(g)]_claims
<1> SUFFICES ASSUME TypeOK, [Next]_vars, claims' # claims PROVE \A g \in GPIO : Keeps(g)
  OBVIOUS
<1>1. PICK t \in Threads : Calls(t) \/ gpio_ok(t) \/ Claiming(t) \/ Using(t) \/ Grouped(t)
  BY DEF Next, vars
<1>2. QED
  BY <1>1, StepKeeps

(* Whatever the threads share, a line a handle has claimed is never found  *)
(* claimed by another without having been free in between.                 *)
THEOREM LgpioNoTakeover == Spec => NoTakeover
<1>1. TypeOK /\ [Next]_vars => [\A g \in GPIO : Keeps(g)]_claims
  BY NextKeeps
<1>2. QED
  BY <1>1, LgpioTypeCorrect, PTL DEF Spec, NoTakeover, Keeps

-----------------------------------------------------------------------------
(* Threads may share handles; but one that uses groups, whose members may  *)
(* be anyone's, is the only one that has any.                              *)

LoneGroups ==
    \A p \in Programs : \A t, u \in Threads :
        t # u /\ p[t].ops \cap GroupOps # {} => p[u].handles = {}

(* A thread calls what its program says, with the handles it says. *)
OwnCalls ==
    \A t \in Threads : pc[t] # "idle" =>
        call[t].op \in program[t].ops /\ call[t].handle \in program[t].handles

(* Where two calls with one handle are on one line, the line is torn. *)
Apart ==
    \A t, u \in Threads :
        t # u /\ pc[t] # "idle" /\ Meets(u, call[t].op, call[t].handle, Line(t)) => Line(t) \in torn

ClaimOps == {"claim_input", "claim_output", "claim_alert",
             "group_claim_input", "group_claim_output"}

GroupPlaces == {"group", "leader", "delete", "pop", "release", "members"}

(* What a thread relies on where it is: on a line that is not torn, its    *)
(* claim is still its own when it sets the line up, arms the alert or      *)
(* writes; and the member of a group it has freed is still free when it    *)
(* releases the line.                                                      *)
ClaimsStand ==
    \A t \in Threads :
        /\ pc[t] \in GroupPlaces => call[t].op \in GroupOps
        /\ pc[t] \in {"claim", "setup"} => call[t].op \in ClaimOps
        /\ pc[t] = "alert" => call[t].op = "claim_alert"
        /\ pc[t] = "free" => call[t].op = "free"
        /\ Line(t) \notin torn =>
               /\ pc[t] \in {"setup", "alert", "write"} => Holds(call[t].handle, Line(t))
               /\ pc[t] = "setup" => claims[Line(t)].output = Output(call[t].op)
               /\ pc[t] = "write" => claims[Line(t)].output
        /\ pc[t] = "release" => claims[Line(t)] = None

IInv == TypeOK /\ OwnCalls /\ Apart /\ ClaimsStand /\ LinesFollowClaims

(* Two calls on a line that is not torn have handles of their own, unless  *)
(* both write.                                                             *)
LEMMA SeparateHandles ==
    ASSUME Apart, NEW t \in Threads, NEW u \in Threads, t # u, pc[t] # "idle", pc[u] # "idle",
           Line(t) = Line(u), Line(t) \notin torn, call[t].op # "write" \/ call[u].op # "write"
    PROVE  call[t].handle # call[u].handle
BY DEF Apart, Meets

LEMMA GroupsAlone ==
    ASSUME LoneGroups, TypeOK, OwnCalls, NEW t \in Threads, pc[t] # "idle", call[t].op \in GroupOps,
           NEW u \in Threads, u # t
    PROVE  pc[u] = "idle"
BY DEF LoneGroups, TypeOK, OwnCalls

LEMMA InitInv == Init => IInv
BY InitType DEF Init, IInv, OwnCalls, Apart, ClaimsStand, LinesFollowClaims, Claimed,
                GroupPlaces

LEMMA OwnCallsStep == TypeOK /\ OwnCalls /\ [Next]_vars => OwnCalls'
<1> SUFFICES ASSUME TypeOK, OwnCalls, [Next]_vars PROVE OwnCalls'
  OBVIOUS
<1>1. CASE UNCHANGED vars
  BY <1>1 DEF vars, OwnCalls
<1>2. ASSUME NEW t \in Threads,
             Calls(t) \/ gpio_ok(t) \/ Claiming(t) \/ Using(t) \/ Grouped(t)
      PROVE  OwnCalls'
  <2>0. DOMAIN call = Threads /\ DOMAIN pc = Threads /\ UNCHANGED program
    BY <1>2 DEF TypeOK, Calls, gpiochip_open, gpiochip_close, Begin, gpio_ok, Claiming, ClaimLine,
        SetUpLine, ArmAlert, make_group, Using, gpio_free, owned, gpio_write, Grouped, FindGroup,
        GroupMember, DeleteGroup, PopMember, ReleaseMember
  <2>1. ASSUME \E how : Return(t, how) PROVE OwnCalls'
    BY <2>0, <2>1 DEF Return, OwnCalls
  <2>2. ASSUME pc[t] # "idle", \E place : Goto(t, place) PROVE OwnCalls'
    BY <2>0, <2>2 DEF Goto, OwnCalls
  <2>3. ASSUME pc[t] # "idle", \E todo : call' = [call EXCEPT ![t].todo = todo],
               \E place : pc' = [pc EXCEPT ![t] = place]
        PROVE  OwnCalls'
    <3>1. call[t] \in Call
      BY <2>3 DEF TypeOK
    <3>2. PICK todo : call' = [call EXCEPT ![t].todo = todo]
      BY <2>3
    <3>3. call'[t].op = call[t].op /\ call'[t].handle = call[t].handle
      BY <2>0, <3>1, <3>2 DEF Call
    <3>4. \A u \in Threads : u # t => call'[u] = call[u] /\ pc'[u] = pc[u]
      BY <2>0, <2>3
    <3>5. QED
      BY <2>0, <2>3, <3>3, <3>4 DEF OwnCalls
  <2>4. ASSUME UNCHANGED <<pc, call>> PROVE OwnCalls'
    BY <2>0, <2>4 DEF OwnCalls
  <2>5. ASSUME NEW op \in program[t].ops, NEW h \in program[t].handles, NEW gpios,
               Begin(t, op, h, gpios)
        PROVE  OwnCalls'
    <3> DEFINE c == [op |-> op, handle |-> h, gpios |-> gpios, todo |-> gpios]
    <3>1. call' = [call EXCEPT ![t] = c] /\ pc' = [pc EXCEPT ![t] = "check"]
      BY <2>5 DEF Begin
    <3>2. c.op = op /\ c.handle = h
      OBVIOUS
    <3> HIDE DEF c
    <3>3. QED
      BY <2>0, <3>1, <3>2 DEF OwnCalls
  <2>6. CASE Calls(t)
    BY <2>4, <2>5, <2>6 DEF Calls, gpiochip_open, gpiochip_close
  <2>7. CASE gpio_ok(t) \/ ClaimLine(t) \/ ArmAlert(t) \/ make_group(t) \/ Using(t)
             \/ DeleteGroup(t) \/ PopMember(t)
    BY <2>1, <2>2, <2>7 DEF gpio_ok, ClaimLine, ArmAlert, make_group, Using, gpio_free, owned,
        gpio_write, DeleteGroup, PopMember
  <2>8. CASE SetUpLine(t) \/ GroupMember(t) \/ ReleaseMember(t)
    BY <2>1, <2>2, <2>3, <2>8 DEF SetUpLine, GroupMember, ReleaseMember, NextLine
  <2>9. CASE FindGroup(t)
    BY <2>1, <2>3, <2>9 DEF FindGroup
  <2>10. QED
    BY <1>2, <2>6, <2>7, <2>8, <2>9 DEF Claiming, Grouped
<1>3. QED
  BY <1>1, <1>2 DEF Next

(* How a call in progress goes on: alone, if its lines change. *)
Follows(t) ==
    /\ \A u \in Threads : u # t => pc'[u] = pc[u] /\ call'[u] = call[u]
    /\ torn' = torn
    /\ pc[t] # "idle"
    /\ pc'[t] # "idle" => /\ call'[t].op = call[t].op /\ call'[t].handle = call[t].handle
                          /\ call[t].op \in GroupOps \/ Line(t)' = Line(t)

LEMMA CallFollows ==
    ASSUME TypeOK, ClaimsStand, NEW t \in Threads,
           gpio_ok(t) \/ Claiming(t) \/ Using(t) \/ Grouped(t)
    PROVE  Follows(t)
<1>0. DOMAIN call = Threads /\ DOMAIN pc = Threads /\ torn' = torn /\ pc[t] # "idle"
  BY DEF TypeOK, gpio_ok, Claiming, ClaimLine, SetUpLine, ArmAlert, make_group, Using, gpio_free,
      owned, gpio_write, Grouped, FindGroup, GroupMember, DeleteGroup, PopMember, ReleaseMember
<1>1. ASSUME \E how : Return(t, how) PROVE Follows(t)
  BY <1>0, <1>1 DEF Return, Follows
<1>2. ASSUME \E place : Goto(t, place) PROVE Follows(t)
  BY <1>0, <1>2 DEF Goto, Follows, Line
<1>3. ASSUME call[t].op \in GroupOps, \E todo : call' = [call EXCEPT ![t].todo = todo],
             \E place : pc' = [pc EXCEPT ![t] = place]
      PROVE  Follows(t)
  <2>1. call[t] \in Call
    BY <1>0 DEF TypeOK
  <2>2. PICK todo : call' = [call EXCEPT ![t].todo = todo]
    BY <1>3
  <2>3. call'[t].op = call[t].op /\ call'[t].handle = call[t].handle
    BY <1>0, <2>1, <2>2 DEF Call
  <2>4. \A u \in Threads : u # t => call'[u] = call[u] /\ pc'[u] = pc[u]
    BY <1>0, <1>3
  <2>5. QED
    BY <1>0, <1>3, <2>3, <2>4 DEF Follows
<1>4. CASE gpio_ok(t) \/ ClaimLine(t) \/ ArmAlert(t) \/ make_group(t) \/ Using(t)
           \/ DeleteGroup(t) \/ PopMember(t)
  BY <1>1, <1>2, <1>4 DEF gpio_ok, ClaimLine, ArmAlert, make_group, Using, gpio_free, owned,
      gpio_write, DeleteGroup, PopMember
<1>5. CASE SetUpLine(t)
  <2>1. call[t].op \in ClaimOps
    BY <1>5 DEF SetUpLine, ClaimsStand
  <2>2. QED
    BY <1>1, <1>2, <1>3, <1>5, <2>1 DEF SetUpLine, NextLine, ClaimOps, GroupOps
<1>6. CASE GroupMember(t) \/ ReleaseMember(t) \/ FindGroup(t)
  <2>1. call[t].op \in GroupOps
    BY <1>6 DEF GroupMember, ReleaseMember, FindGroup, ClaimsStand, GroupPlaces
  <2>2. QED
    BY <1>1, <1>3, <1>6, <2>1 DEF GroupMember, ReleaseMember, FindGroup, NextLine
<1>7. QED
  BY <1>4, <1>5, <1>6 DEF Claiming, Grouped

(* A new call that meets another with its handle tears the line they are   *)
(* on, whichever of them has come first.                                   *)
LEMMA ApartStep ==
    ASSUME LoneGroups, TypeOK, OwnCalls, ClaimsStand, Apart, [Next]_vars
    PROVE  Apart'
<1>1. CASE UNCHANGED vars
  BY <1>1 DEF vars, Apart, Meets, Line
<1>2. ASSUME NEW t \in Threads, gpio_ok(t) \/ Claiming(t) \/ Using(t) \/ Grouped(t)
      PROVE  Apart'
  <2>1. Follows(t)
    BY <1>2, CallFollows
  <2>2. call[t].op \in GroupOps => \A u \in Threads : u # t => pc[u] = "idle"
    BY <2>1, GroupsAlone DEF Follows
  <2>3. ASSUME NEW u \in Threads, u # t PROVE Line(u)' = Line(u)
    BY <2>1, <2>3 DEF Follows, Line
  <2>4. QED
    BY <2>1, <2>2, <2>3 DEF Follows, Apart, Meets
<1>3. ASSUME NEW t \in Threads, NEW op, NEW h, NEW gpios, Begin(t, op, h, gpios) PROVE Apart'
  <2> DEFINE c == [op |-> op, handle |-> h, gpios |-> gpios, todo |-> gpios]
             g == Head(gpios)
  <2>1. call' = [call EXCEPT ![t] = c] /\ DOMAIN call = Threads
    BY <1>3 DEF Begin, TypeOK
  <2>2. call'[t].op = op /\ call'[t].handle = h /\ Line(t)' = g
    BY <2>1 DEF Line
  <2>3. /\ torn \subseteq torn'
        /\ (\E u \in Threads : Meets(u, op, h, g)) => g \in torn'
    BY <1>3 DEF Begin
  <2>4. \A u \in Threads : u # t => call'[u] = call[u] /\ pc'[u] = pc[u]
    BY <1>3, <2>1 DEF Begin, TypeOK
  <2>5. ASSUME NEW u \in Threads, u # t PROVE Line(u)' = Line(u)
    BY <2>4, <2>5 DEF Line
  <2> HIDE DEF c, g
  <2>6. QED
    BY <2>2, <2>3, <2>4, <2>5 DEF Apart, Meets
<1>4. ASSUME NEW t \in Threads, NEW h \in Handles, gpiochip_open(t, h) \/ gpiochip_close(t, h)
      PROVE  Apart'
  BY <1>4 DEF gpiochip_open, gpiochip_close, Apart, Meets, Line
<1>5. QED
  BY <1>1, <1>2, <1>3, <1>4 DEF Next, Calls

(* What the steps below preserve, besides the type, OwnCalls and Apart. *)
Rest == ClaimsStand /\ LinesFollowClaims

(* A step that leaves claims and lines alone, and takes its thread from a  *)
(* place where it is not at work to one where it relies on nothing new.    *)
LEMMA QuietStep ==
    ASSUME TypeOK, OwnCalls, Rest, NEW t \in Threads,
           UNCHANGED <<claims, lines>>, torn \subseteq torn',
           pc[t] \notin {"setup", "release"},
           pc'[t] \notin {"setup", "release", "alert", "write"},
           pc'[t] \in GroupPlaces => call'[t].op \in GroupOps,
           pc'[t] = "claim" => call'[t].op \in ClaimOps,
           pc'[t] = "free" => call'[t].op = "free",
           \A u \in Threads : u # t => pc'[u] = pc[u] /\ call'[u] = call[u]
    PROVE  Rest'
<1>1. ClaimsStand'
  BY DEF Rest, ClaimsStand, Holds, Line
<1>2. LinesFollowClaims'
  BY DEF Rest, LinesFollowClaims, AtWork, Line, Claimed
<1>3. QED
  BY <1>1, <1>2 DEF Rest

(* A call that returns leaves nothing behind, if it had no claim to drop.  *)
LEMMA ReturnStep ==
    ASSUME TypeOK, OwnCalls, Rest, NEW t \in Threads, NEW how \in {"status", "exception"},
           Return(t, how), pc[t] \notin {"idle", "setup", "release"},
           UNCHANGED <<claims, lines, torn>>
    PROVE  Rest'
<1>1. pc'[t] = "idle" /\ \A u \in Threads : u # t => pc'[u] = pc[u] /\ call'[u] = call[u]
  BY ReturnType DEF Return, TypeOK
<1>2. QED
  BY <1>1, QuietStep DEF GroupPlaces

LEMMA CloseStep ==
    ASSUME LoneGroups, TypeOK, OwnCalls, Apart, Rest, NEW t \in Threads, NEW h \in Handles,
           gpiochip_close(t, h)
    PROVE  Rest'
<1>1. \A g \in GPIO : /\ claims'[g] = IF Holds(h, g) THEN None ELSE claims[g]
                      /\ lines'[g] = IF Holds(h, g) THEN None ELSE lines[g]
  BY DEF gpiochip_close
<1>2. /\ UNCHANGED <<pc, call>> /\ torn \subseteq torn'
      /\ \A u \in Threads, g \in GPIO : Meets(u, "close", h, g) => g \in torn'
  BY DEF gpiochip_close
<1>3. ASSUME NEW u \in Threads, pc[u] \in {"setup", "alert", "write"}, Line(u) \notin torn'
      PROVE  claims'[Line(u)] = claims[Line(u)]
  <2>1. Holds(call[u].handle, Line(u)) /\ Line(u) \in GPIO
    BY <1>2, <1>3, LineType DEF Rest, ClaimsStand
  <2>2. call[u].handle # h
    BY <1>2, <1>3, <2>1 DEF Meets
  <2>3. QED
    BY <1>1, <2>1, <2>2 DEF Holds
<1>4. ASSUME NEW u \in Threads, pc[u] = "release"
      PROVE  claims'[Line(u)] = None
  BY <1>1, <1>4, LineType DEF Rest, ClaimsStand
<1>5. ClaimsStand'
  BY <1>2, <1>3, <1>4 DEF Rest, ClaimsStand, Holds, Line
<1>6. LinesFollowClaims'
  BY <1>1, <1>2 DEF Rest, LinesFollowClaims, AtWork, Line, Claimed
<1>7. QED
  BY <1>5, <1>6 DEF Rest

LEMMA ClaimLineStep ==
    ASSUME LoneGroups, TypeOK, OwnCalls, Apart, Rest, NEW t \in Threads, ClaimLine(t)
    PROVE  Rest'
<1> DEFINE g == Line(t)
           c == [handle |-> call[t].handle, output |-> Output(call[t].op), alert |-> FALSE]
<1>0. pc[t] = "claim" /\ g \in GPIO /\ UNCHANGED <<lines, torn>>
  BY LineType DEF ClaimLine
<1>1. CASE Return(t, "status") /\ UNCHANGED claims
  BY <1>0, <1>1, ReturnStep
<1>2. CASE /\ claims[g] = None \/ Holds(call[t].handle, g)
           /\ claims' = [claims EXCEPT ![g] = c]
           /\ Goto(t, "setup")
  <2>1. /\ pc'[t] = "setup" /\ UNCHANGED <<call, answer>>
        /\ \A u \in Threads : u # t => pc'[u] = pc[u]
    BY <1>2, GotoType DEF Places
  <2>2. ASSUME NEW u \in Threads, u # t, pc[u] \in {"setup", "alert", "write"},
               Line(u) \notin torn
        PROVE  Line(u) # g
    <3>1. Holds(call[u].handle, Line(u))
      BY <2>2 DEF Rest, ClaimsStand
    <3>2. call[t].op # "write"
      BY <1>0 DEF Rest, ClaimsStand, ClaimOps
    <3>3. Line(u) = g => call[u].handle # call[t].handle
      BY <1>0, <2>2, <3>2, SeparateHandles
    <3>4. QED
      BY <1>2, <3>1, <3>3 DEF Holds
  <2>3. claims'[g] = c /\ \A x \in GPIO : x # g => claims'[x] = claims[x]
    BY <1>0, <1>2 DEF TypeOK
  <2>4. claims'[g] # None /\ claims'[g].handle = call[t].handle
           /\ claims'[g].output = Output(call[t].op)
    <3>1. pc[t] # "idle"
      BY <1>0
    <3>2. c \in Claim
      BY <3>1, LineType DEF Claim, Call, Output
    <3>3. c # None
      BY <3>2, ClaimsAssumption DEF Claim
    <3>4. QED
      BY <2>3, <3>3
  <2>5. ClaimsStand'
    <3>1. ASSUME NEW u \in Threads, u # t, pc[u] \in {"setup", "alert", "write"},
                 Line(u) \notin torn
          PROVE  claims'[Line(u)] = claims[Line(u)]
      BY <2>2, <2>3, <3>1, LineType
    <3>2. pc[t] = "claim" /\ Line(t)' = g /\ call[t].op \in ClaimOps
      BY <1>0, <2>1 DEF Line, Rest, ClaimsStand
    <3>3. ASSUME NEW u \in Threads, u # t PROVE Line(u)' = Line(u)
      BY <2>1 DEF Line
    <3>4. ASSUME NEW u \in Threads, u # t PROVE pc[u] # "release"
      BY <1>0, <3>4, GroupsAlone DEF Rest, ClaimsStand, GroupPlaces
    <3> HIDE DEF g, c
    <3>5. QED
      BY <1>0, <2>1, <2>4, <3>1, <3>2, <3>3, <3>4 DEF Rest, ClaimsStand, Holds, GroupPlaces
  <2>6. LinesFollowClaims'
    BY <1>0, <2>1, <2>3 DEF Rest, LinesFollowClaims, AtWork, Line, Claimed
  <2>7. QED
    BY <2>5, <2>6 DEF Rest
<1>3. QED
  BY <1>1, <1>2 DEF ClaimLine

LEMMA SetUpLineStep ==
    ASSUME LoneGroups, TypeOK, OwnCalls, Apart, Rest, NEW t \in Threads, SetUpLine(t)
    PROVE  Rest'
<1> DEFINE g == Line(t)
<1>0. pc[t] = "setup" /\ g \in GPIO /\ UNCHANGED <<claims, torn>> /\ call[t].op \in ClaimOps
  BY LineType DEF SetUpLine, Rest, ClaimsStand
<1>1. g \notin torn =>
         claims[g] # None /\ claims[g].output = Output(call[t].op) /\ Holds(call[t].handle, g)
  BY <1>0 DEF Rest, ClaimsStand, Holds
<1>2. /\ g \notin torn => lines'[g] = Claimed(claims[g])
      /\ \A x \in GPIO : x # g => lines'[x] = lines[x]
  BY <1>0, <1>1 DEF SetUpLine, Claimed, TypeOK
<1>3. /\ pc'[t] \in {"idle", "alert", "check", "group"}
      /\ pc'[t] = "alert" => call[t].op = "claim_alert" /\ call' = call
      /\ pc'[t] = "group" => call'[t].op \in GroupOps
      /\ \A u \in Threads : u # t => pc'[u] = pc[u] /\ call'[u] = call[u]
  <2>1. CASE call[t].op = "claim_alert" /\ Goto(t, "alert")
    BY <2>1, GotoType DEF Places
  <2>2. CASE Return(t, "status")
    BY <2>2, ReturnType DEF Return, TypeOK
  <2>3. CASE call[t].op \in GroupOps /\ Goto(t, "group")
    BY <2>3, GotoType DEF Places
  <2>4. CASE /\ Len(call[t].todo) > 1 /\ call' = [call EXCEPT ![t].todo = Tail(@)]
             /\ pc' = [pc EXCEPT ![t] = "check"] /\ UNCHANGED answer
    BY <1>0, <2>4, NextLineType DEF TypeOK
  <2>5. QED
    BY <1>0, <2>1, <2>2, <2>3, <2>4 DEF SetUpLine, NextLine, ClaimOps, GroupOps
<1>4. ClaimsStand'
  BY <1>0, <1>1, <1>3 DEF Rest, ClaimsStand, Holds, Line, GroupPlaces
<1>5. LinesFollowClaims'
  BY <1>0, <1>2, <1>3 DEF Rest, LinesFollowClaims, AtWork, Line, Claimed
<1>6. QED
  BY <1>4, <1>5 DEF Rest

LEMMA ArmAlertStep ==
    ASSUME LoneGroups, TypeOK, OwnCalls, Apart, Rest, NEW t \in Threads, ArmAlert(t)
    PROVE  Rest'
<1> DEFINE g == Line(t)
<1>0. pc[t] = "alert" /\ g \in GPIO /\ UNCHANGED <<lines, torn>>
  BY LineType DEF ArmAlert
<1>1. CASE Return(t, "exception") /\ UNCHANGED claims
  BY <1>0, <1>1, ReturnStep
<1>2. CASE /\ claims[g] # None /\ Return(t, "status")
           /\ claims' = [claims EXCEPT ![g].alert = TRUE]
  <2>0. claims[g] \in Claim
    BY <1>0, <1>2 DEF TypeOK
  <2>1. \A x \in GPIO :
           /\ claims[x] = None => claims'[x] = None
           /\ claims[x] # None => /\ claims'[x] # None
                                  /\ claims'[x].handle = claims[x].handle
                                  /\ claims'[x].output = claims[x].output
    <3>1. [claims[g] EXCEPT !.alert = TRUE] \in Claim
      BY <2>0 DEF Claim
    <3>2. [claims[g] EXCEPT !.alert = TRUE] # None
      BY <3>1, ClaimsAssumption DEF Claim
    <3>3. QED
      BY <1>0, <1>2, <2>0, <3>2 DEF TypeOK, Claim
  <2>2. pc'[t] = "idle" /\ \A u \in Threads : u # t => pc'[u] = pc[u] /\ call'[u] = call[u]
    BY <1>2, ReturnType
  <2>3. ClaimsStand'
    <3>1. ASSUME NEW u \in Threads, u # t, pc[u] \in {"setup", "alert", "write", "release"}
          PROVE  Line(u) \in GPIO
      BY <3>1, LineType
    <3>2. QED
      BY <1>0, <2>1, <2>2, <3>1 DEF Rest, ClaimsStand, Holds, Line, GroupPlaces
  <2>4. LinesFollowClaims'
    BY <1>0, <2>1, <2>2 DEF Rest, LinesFollowClaims, AtWork, Line, Claimed
  <2>5. QED
    BY <2>3, <2>4 DEF Rest
<1>3. QED
  BY <1>1, <1>2 DEF ArmAlert

LEMMA FreeStep ==
    ASSUME LoneGroups, TypeOK, OwnCalls, Apart, Rest, NEW t \in Threads, gpio_free(t)
    PROVE  Rest'
<1> DEFINE g == Line(t)
<1>0. pc[t] = "free" /\ g \in GPIO /\ Return(t, "status") /\ UNCHANGED torn
  BY LineType DEF gpio_free
<1>1. pc'[t] = "idle" /\ \A u \in Threads : u # t => pc'[u] = pc[u] /\ call'[u] = call[u]
  BY <1>0, ReturnType
<1>2. CASE UNCHANGED <<claims, lines>>
  BY <1>0, <1>2, ReturnStep
<1>3. CASE /\ Holds(call[t].handle, g)
           /\ claims' = [claims EXCEPT ![g] = None]
           /\ lines' = [lines EXCEPT ![g] = None]
  <2>1. \A x \in GPIO : /\ claims'[x] = IF x = g THEN None ELSE claims[x]
                        /\ lines'[x] = IF x = g THEN None ELSE lines[x]
    BY <1>0, <1>3 DEF TypeOK
  <2>2. ASSUME NEW u \in Threads, u # t, pc[u] \in {"setup", "alert", "write"},
               Line(u) \notin torn
        PROVE  claims'[Line(u)] = claims[Line(u)]
    <3>1. Holds(call[u].handle, Line(u)) /\ Line(u) \in GPIO
      BY <2>2, LineType DEF Rest, ClaimsStand
    <3>2. call[t].op # "write"
      BY <1>0 DEF Rest, ClaimsStand
    <3>3. Line(u) = g => call[u].handle # call[t].handle
      BY <1>0, <2>2, <3>2, SeparateHandles
    <3>4. QED
      BY <1>3, <2>1, <3>1, <3>3 DEF Holds
  <2>3. ASSUME NEW u \in Threads, u # t, pc[u] = "release"
        PROVE  claims'[Line(u)] = None
    BY <2>1, <2>3, LineType DEF Rest, ClaimsStand
  <2>4. ClaimsStand'
    BY <1>0, <1>1, <2>2, <2>3 DEF Rest, ClaimsStand, Holds, Line, GroupPlaces
  <2>5. LinesFollowClaims'
    BY <1>0, <1>1, <2>1 DEF Rest, LinesFollowClaims, AtWork, Line, Claimed
  <2>6. QED
    BY <2>4, <2>5 DEF Rest
<1>4. QED
  BY <1>2, <1>3 DEF gpio_free

(* A write to a line that is not torn finds an output: nobody else is at   *)
(* work on it, as its thread would hold the claim, or be alone.            *)
LEMMA WriteFindsOutput ==
    ASSUME LoneGroups, TypeOK, OwnCalls, Apart, Rest, NEW t \in Threads, gpio_write(t),
           Line(t) \notin torn
    PROVE  Return(t, "status")
<1> DEFINE g == Line(t)
<1>1. pc[t] = "write" /\ g \in GPIO /\ Holds(call[t].handle, g) /\ claims[g].output
  BY LineType DEF gpio_write, Rest, ClaimsStand
<1>2. ASSUME NEW u \in Threads PROVE ~AtWork(u, g)
  <2>1. CASE u = t
    BY <1>1, <2>1 DEF AtWork
  <2>2. ASSUME u # t, pc[u] = "setup", Line(u) = g PROVE FALSE
    <3>1. Holds(call[u].handle, g) /\ call[u].op # "write"
      BY <2>2 DEF Rest, ClaimsStand, ClaimOps
    <3>2. call[t].handle # call[u].handle
      BY <1>1, <2>2, <3>1, SeparateHandles
    <3>3. QED
      BY <1>1, <3>1, <3>2 DEF Holds
  <2>3. ASSUME u # t, pc[u] = "release" PROVE FALSE
    BY <1>1, <2>3, GroupsAlone DEF Rest, ClaimsStand, GroupPlaces
  <2>4. QED
    BY <2>1, <2>2, <2>3 DEF AtWork
<1>3. lines[g] = "output"
  BY <1>1, <1>2 DEF Rest, LinesFollowClaims, Claimed, Holds
<1>4. QED
  BY <1>3 DEF gpio_write

LEMMA WriteStep ==
    ASSUME LoneGroups, TypeOK, OwnCalls, Apart, Rest, NEW t \in Threads, owned(t) \/ gpio_write(t)
    PROVE  Rest'
<1> DEFINE g == Line(t)
<1>0. pc[t] \in {"owned", "write"} /\ g \in GPIO /\ UNCHANGED <<claims, lines, torn>>
  BY LineType DEF owned, gpio_write
<1>1. ASSUME NEW how \in {"status", "exception"}, Return(t, how) PROVE Rest'
  BY <1>0, <1>1, ReturnStep
<1>2. CASE owned(t) /\ Holds(call[t].handle, g) /\ claims[g].output /\ Goto(t, "write")
  <2>1. /\ pc'[t] = "write" /\ UNCHANGED call
        /\ \A u \in Threads : u # t => pc'[u] = pc[u]
    BY <1>2, GotoType DEF Places
  <2>2. ClaimsStand'
    BY <1>0, <1>2, <2>1 DEF Rest, ClaimsStand, Holds, Line, GroupPlaces
  <2>3. LinesFollowClaims'
    BY <1>0, <2>1 DEF Rest, LinesFollowClaims, AtWork, Line, Claimed
  <2>4. QED
    BY <2>2, <2>3 DEF Rest
<1>3. CASE gpio_write(t)
  <2>1. PICK how \in {"status", "exception"} : Return(t, how)
    BY <1>3 DEF gpio_write
  <2>2. QED
    BY <1>1, <2>1
<1>4. QED
  BY <1>1, <1>2, <1>3 DEF owned

LEMMA CheckStep ==
    ASSUME TypeOK, OwnCalls, Rest, NEW t \in Threads, gpio_ok(t)
    PROVE  Rest'
<1>0. /\ pc[t] = "check" /\ UNCHANGED <<claims, lines, torn>>
      /\ call[t].op \in SingleOps \cup GroupOps
  BY LineType DEF gpio_ok
<1>1. CASE Return(t, "status")
  BY <1>0, <1>1, ReturnStep
<1>2. CASE Goto(t, Entry(call[t].op))
  <2>1. /\ pc'[t] = Entry(call[t].op) /\ UNCHANGED call
        /\ \A u \in Threads : u # t => pc'[u] = pc[u]
    BY <1>2, EntryType, GotoType
  <2>2. /\ Entry(call[t].op) \in {"free", "owned", "claim", "leader"}
        /\ Entry(call[t].op) = "claim" => call[t].op \in ClaimOps
        /\ Entry(call[t].op) = "leader" => call[t].op \in GroupOps
        /\ Entry(call[t].op) = "free" => call[t].op = "free"
    BY <1>0 DEF Entry, SingleOps, GroupOps, ClaimOps
  <2>3. QED
    BY <1>0, <2>1, <2>2, QuietStep DEF GroupPlaces
<1>3. QED
  BY <1>1, <1>2 DEF gpio_ok

(* What a thread does for a group: it looks up, and only then frees.       *)
LEMMA LookUpStep ==
    ASSUME TypeOK, OwnCalls, Rest, NEW t \in Threads,
           make_group(t) \/ FindGroup(t) \/ GroupMember(t) \/ DeleteGroup(t)
    PROVE  Rest'
<1>0. /\ pc[t] \in {"group", "leader", "members", "delete"} /\ call[t].op \in GroupOps
      /\ UNCHANGED <<claims, lines, torn>> /\ call[t] \in Call
  BY LineType DEF make_group, FindGroup, GroupMember, DeleteGroup, Rest, ClaimsStand, GroupPlaces
<1>1. ASSUME NEW how \in {"status", "exception"}, Return(t, how) PROVE Rest'
  BY <1>0, <1>1, ReturnStep
<1>2. ASSUME pc'[t] \in {"delete", "members", "pop"}, call'[t].op = call[t].op,
             \A u \in Threads : u # t => pc'[u] = pc[u] /\ call'[u] = call[u]
      PROVE  Rest'
  BY <1>0, <1>2, QuietStep
<1>3. CASE make_group(t)
  <2>1. PICK how \in {"status", "exception"} : Return(t, how)
    BY <1>3 DEF make_group
  <2>2. QED
    BY <1>1, <2>1
<1>4. CASE FindGroup(t)
  <2>1. CASE Return(t, "status")
    BY <1>1, <2>1
  <2>2. CASE /\ call' = [call EXCEPT ![t].todo = groups[Leader(t)]]
             /\ pc' = [pc EXCEPT ![t] = IF call[t].op = "group_free" THEN "delete" ELSE "members"]
             /\ UNCHANGED answer
    <3>1. DOMAIN call = Threads /\ DOMAIN pc = Threads
      BY DEF TypeOK
    <3>2. call'[t].op = call[t].op
      BY <1>0, <2>2, <3>1 DEF Call
    <3>3. QED
      BY <1>2, <2>2, <3>1, <3>2
  <2>3. QED
    BY <1>4, <2>1, <2>2 DEF FindGroup
<1>5. CASE GroupMember(t)
  <2>1. CASE \E how \in {"status", "exception"} : Return(t, how)
    BY <1>1, <2>1
  <2>2. CASE /\ Len(call[t].todo) > 1 /\ call' = [call EXCEPT ![t].todo = Tail(@)]
             /\ pc' = [pc EXCEPT ![t] = "members"] /\ UNCHANGED answer
    <3>1. call'[t].op = call[t].op /\ \A u \in Threads : u # t => call'[u] = call[u]
      BY <1>0, <2>2, NextLineType
    <3>2. pc'[t] = "members" /\ \A u \in Threads : u # t => pc'[u] = pc[u]
      BY <2>2 DEF TypeOK
    <3>3. QED
      BY <1>2, <2>2, <3>1, <3>2
  <2>3. QED
    BY <1>5, <2>1, <2>2 DEF GroupMember, NextLine
<1>6. CASE DeleteGroup(t)
  <2>1. CASE Return(t, "exception")
    BY <1>1, <2>1
  <2>2. CASE Goto(t, "pop")
    BY <1>2, <2>2, GotoType DEF Places
  <2>3. QED
    BY <1>6, <2>1, <2>2 DEF DeleteGroup
<1>7. QED
  BY <1>3, <1>4, <1>5, <1>6

LEMMA PopStep ==
    ASSUME LoneGroups, TypeOK, OwnCalls, Apart, Rest, NEW t \in Threads, PopMember(t)
    PROVE  Rest'
<1> DEFINE g == Line(t)
<1>1. /\ pc[t] = "pop" /\ g \in GPIO /\ call[t].op \in GroupOps /\ UNCHANGED <<lines, torn>>
      /\ claims' = [claims EXCEPT ![g] = None] /\ Goto(t, "release")
  BY LineType DEF PopMember, Rest, ClaimsStand, GroupPlaces
<1>2. /\ pc'[t] = "release" /\ UNCHANGED <<call, answer>>
      /\ \A u \in Threads : u # t => pc'[u] = pc[u]
  BY <1>1, GotoType DEF Places
<1>3. \A u \in Threads : u # t => pc[u] = "idle"
  BY <1>1, GroupsAlone
<1>4. claims'[g] = None /\ \A x \in GPIO : x # g => claims'[x] = claims[x]
  BY <1>1 DEF TypeOK
<1>5. ClaimsStand'
  <2>1. Line(t)' = g
    BY <1>2 DEF Line
  <2> HIDE DEF g
  <2>2. QED
    BY <1>1, <1>2, <1>3, <1>4, <2>1 DEF ClaimsStand, GroupPlaces
<1>6. LinesFollowClaims'
  BY <1>1, <1>2, <1>3, <1>4 DEF Rest, LinesFollowClaims, AtWork, Line, Claimed
<1>7. QED
  BY <1>5, <1>6 DEF Rest

LEMMA ReleaseStep ==
    ASSUME LoneGroups, TypeOK, OwnCalls, Apart, Rest, NEW t \in Threads, ReleaseMember(t)
    PROVE  Rest'
<1> DEFINE g == Line(t)
<1>1. /\ pc[t] = "release" /\ g \in GPIO /\ call[t].op \in GroupOps /\ claims[g] = None
      /\ UNCHANGED <<claims, torn>> /\ lines' = [lines EXCEPT ![g] = None]
  BY LineType DEF ReleaseMember, Rest, ClaimsStand, GroupPlaces
<1>2. /\ pc'[t] \in {"idle", "pop"}
      /\ pc'[t] = "pop" => call'[t].op \in GroupOps
      /\ \A u \in Threads : u # t => pc'[u] = pc[u] /\ call'[u] = call[u]
  <2>1. CASE Return(t, "status")
    BY <2>1, ReturnType
  <2>2. CASE /\ Len(call[t].todo) > 1 /\ call' = [call EXCEPT ![t].todo = Tail(@)]
             /\ pc' = [pc EXCEPT ![t] = "pop"] /\ UNCHANGED answer
    BY <1>1, <2>2, NextLineType DEF TypeOK
  <2>3. QED
    BY <2>1, <2>2 DEF ReleaseMember, NextLine
<1>3. \A u \in Threads : u # t => pc[u] = "idle"
  BY <1>1, GroupsAlone
<1>4. lines'[g] = Claimed(claims[g]) /\ \A x \in GPIO : x # g => lines'[x] = lines[x]
  BY <1>1 DEF TypeOK, Claimed
<1>5. ClaimsStand'
  <2>1. \A u \in Threads : pc'[u] \in {"idle", "pop"} /\ (pc'[u] = "pop" => call'[u].op \in GroupOps)
    BY <1>2, <1>3
  <2>2. QED
    BY <2>1 DEF ClaimsStand, GroupPlaces
<1>6. LinesFollowClaims'
  BY <1>1, <1>2, <1>3, <1>4 DEF Rest, LinesFollowClaims, AtWork, Line, Claimed
<1>7. QED
  BY <1>5, <1>6 DEF Rest

LEMMA NextRest ==
    ASSUME LoneGroups, TypeOK, OwnCalls, Apart, Rest, [Next]_vars
    PROVE  Rest'
<1>1. CASE UNCHANGED vars
  BY <1>1 DEF vars, Rest, ClaimsStand, LinesFollowClaims, AtWork, Line, Holds, Claimed
<1>2. ASSUME NEW t \in Threads, NEW h \in Handles, gpiochip_open(t, h) PROVE Rest'
  BY <1>2 DEF gpiochip_open, Rest, ClaimsStand, LinesFollowClaims, AtWork, Line, Holds, Claimed
<1>3. ASSUME NEW t \in Threads, NEW op, NEW h, NEW gpios, Begin(t, op, h, gpios) PROVE Rest'
  <2>1. /\ pc[t] = "idle" /\ pc'[t] = "check" /\ UNCHANGED <<claims, lines>> /\ torn \subseteq torn'
        /\ \A u \in Threads : u # t => pc'[u] = pc[u] /\ call'[u] = call[u]
    BY <1>3 DEF Begin, TypeOK
  <2>2. QED
    BY <2>1, QuietStep DEF GroupPlaces
<1>4. ASSUME NEW t \in Threads, Calls(t) PROVE Rest'
  BY <1>2, <1>3, <1>4, CloseStep DEF Calls
<1>5. ASSUME NEW t \in Threads, gpio_ok(t) \/ Claiming(t) \/ Using(t) PROVE Rest'
  BY <1>5, CheckStep, ClaimLineStep, SetUpLineStep, ArmAlertStep, LookUpStep, FreeStep, WriteStep
     DEF Claiming, Using
<1>6. ASSUME NEW t \in Threads, Grouped(t) PROVE Rest'
  BY <1>6, LookUpStep, PopStep, ReleaseStep DEF Grouped
<1>7. QED
  BY <1>1, <1>4, <1>5, <1>6 DEF Next

LEMMA InvariantHolds == LoneGroups => (Spec => []IInv)
<1> SUFFICES ASSUME LoneGroups PROVE Spec => []IInv
  OBVIOUS
<1>1. Init => IInv
  BY InitInv
<1>2. IInv /\ [Next]_vars => IInv'
  BY NextType, OwnCallsStep, ApartStep, NextRest DEF IInv, Rest
<1>3. QED
  BY <1>1, <1>2, PTL DEF Spec

(* While a thread that uses groups is the only one that calls lgpio, a     *)
(* line nobody is working on is set up as its claim says, unless calls of  *)
(* two threads with one handle have met on it: for any number of threads,  *)
(* sharing handles or not, whatever their calls race with.                 *)
THEOREM LgpioLinesFollowClaims == LoneGroups => (Spec => []LinesFollowClaims)
<1>1. IInv => LinesFollowClaims
  BY DEF IInv
<1>2. QED
  BY <1>1, InvariantHolds, PTL

-----------------------------------------------------------------------------
(* How calls on one line end. *)

Answers(t) ==
    pc[t] # "idle" /\ call[t].op \in SingleOps /\ pc'[t] = "idle" /\ answer'[t] = "exception"
        => Line(t) \in torn

(* A thread at rest, or one whose call another thread's step leaves alone, *)
(* does not end a call; of the calls on one line only two can end in an    *)
(* exception: an alert armed without a claim, and a write.                 *)
LEMMA StepAnswers ==
    ASSUME LoneGroups, IInv, NEW t \in Threads, NEW u \in Threads,
           Calls(u) \/ gpio_ok(u) \/ Claiming(u) \/ Using(u) \/ Grouped(u)
    PROVE  Answers(t)
<1>0. TypeOK /\ OwnCalls /\ Apart /\ Rest
  BY DEF IInv, Rest
<1>1. CASE u # t
  <2>1. CASE Calls(u)
    <3>1. pc'[t] = pc[t]
      BY <1>0, <1>1, <2>1 DEF Calls, gpiochip_open, gpiochip_close, Begin, TypeOK
    <3>2. QED
      BY <3>1 DEF Answers
  <2>2. CASE gpio_ok(u) \/ Claiming(u) \/ Using(u) \/ Grouped(u)
    <3>1. Follows(u)
      BY <1>0, <2>2, CallFollows DEF Rest
    <3>2. QED
      BY <1>1, <3>1 DEF Follows, Answers
  <2>3. QED
    BY <2>1, <2>2
<1>2. CASE u = t
  <2>1. ASSUME Return(t, "status") PROVE Answers(t)
    BY <1>0, <2>1 DEF Return, Answers, TypeOK
  <2>2. ASSUME NEW place \in Places, place # "idle", Goto(t, place) PROVE Answers(t)
    BY <1>0, <2>2, GotoType DEF Answers
  <2>3. ASSUME call[t].op \in GroupOps PROVE Answers(t)
    BY <2>3 DEF Answers, GroupOps, SingleOps
  <2>4. CASE Calls(t)
    <3>1. pc[t] = "idle"
      BY <2>4 DEF Calls, gpiochip_open, gpiochip_close, Begin
    <3>2. QED
      BY <3>1 DEF Answers
  <2>5. CASE gpio_ok(t)
    <3>1. Entry(call[t].op) \in Places \ {"idle"}
      BY DEF Entry, Places
    <3>2. QED
      BY <2>1, <2>2, <2>5, <3>1 DEF gpio_ok
  <2>6. CASE ClaimLine(t) \/ gpio_free(t) \/ owned(t)
    BY <2>1, <2>2, <2>6 DEF ClaimLine, gpio_free, owned, Places
  <2>7. CASE SetUpLine(t)
    <3>1. call[t].op \in ClaimOps
      BY <1>0, <2>7 DEF SetUpLine, Rest, ClaimsStand
    <3>2. QED
      BY <2>1, <2>2, <2>3, <2>7, <3>1 DEF SetUpLine, ClaimOps, GroupOps, Places
  <2>8. CASE ArmAlert(t)
    <3>1. CASE Line(t) \in torn
      BY <3>1 DEF Answers
    <3>2. CASE Line(t) \notin torn
      BY <1>0, <2>1, <2>8, <3>2 DEF ArmAlert, Rest, ClaimsStand, Holds
    <3>3. QED
      BY <3>1, <3>2
  <2>9. CASE gpio_write(t)
    <3>1. CASE Line(t) \in torn
      BY <3>1 DEF Answers
    <3>2. CASE Line(t) \notin torn
      BY <1>0, <2>1, <2>9, <3>2, WriteFindsOutput
    <3>3. QED
      BY <3>1, <3>2
  <2>10. CASE make_group(t) \/ Grouped(t)
    <3>1. call[t].op \in GroupOps
      BY <1>0, <2>10 DEF make_group, Grouped, FindGroup, GroupMember, DeleteGroup, PopMember,
                         ReleaseMember, Rest, ClaimsStand, GroupPlaces
    <3>2. QED
      BY <2>3, <3>1
  <2>11. QED
    BY <1>2, <2>4, <2>5, <2>6, <2>7, <2>8, <2>9, <2>10 DEF Claiming, Using
<1>3. QED
  BY <1>1, <1>2

LEMMA NextAnswers == LoneGroups /\ IInv /\ [Next]_vars => [\A t \in Threads : Answers(t)]_vars
<1> SUFFICES ASSUME LoneGroups, IInv, [Next]_vars, vars' # vars, NEW t \in Threads
             PROVE  Answers(t)
  OBVIOUS
<1>1. PICK u \in Threads : Calls(u) \/ gpio_ok(u) \/ Claiming(u) \/ Using(u) \/ Grouped(u)
  BY DEF Next
<1>2. QED
  BY <1>1, StepAnswers

(* While a thread that uses groups is the only one that calls lgpio, a     *)
(* call on one line ends in a KeyError or a PinError only on a line where  *)
(* a claim, a free or a close of another thread has met calls with its     *)
(* handle: a call whose claim only other handles race with never does.     *)
THEOREM LgpioCallsAnswerStatuses == LoneGroups => (Spec => CallsAnswerStatuses)
<1> SUFFICES ASSUME LoneGroups PROVE Spec => CallsAnswerStatuses
  OBVIOUS
<1>1. IInv /\ [Next]_vars => [\A t \in Threads : Answers(t)]_vars
  BY NextAnswers
<1>2. Spec => []IInv
  BY InvariantHolds
<1>3. QED
  BY <1>1, <1>2, PTL DEF Spec, CallsAnswerStatuses, Answers
=============================================================================
