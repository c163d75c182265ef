----------------------------- MODULE LgpioClaims -----------------------------
(***************************************************************************)
(* p4n4_emu/hw/lgpio_stub.py: who holds which GPIO through lgpio.          *)
(*                                                                         *)
(* A line is claimed under the module's lock and set up (pins.setup_input, *)
(* setup_output) after it; a claim is dropped under the lock, and the line *)
(* released under the lock (gpio_free, gpiochip_close) or after it         *)
(* (group_free).  A call on a claimed line looks its claim up first and    *)
(* acts on it later.  Between these steps other threads run.               *)
(*                                                                         *)
(* What a line is set up as is all the model keeps of Pins.                *)
(***************************************************************************)
EXTENDS Integers, Sequences, FiniteSets

LOCAL INSTANCE SequencesExt

CONSTANTS
    GPIO,       \* the lines of the chip
    Handles,    \* the handles gpiochip_open may give; it never gives one twice
    Threads,    \* the program's threads
    Groups,     \* the sequences of lines claimed as a group
    Programs,   \* the operations and the handles each thread uses, in the programs considered
    None        \* Python's None

SingleOps == {"claim_input", "claim_output", "claim_alert", "free", "write"}
GroupOps  == {"group_claim_input", "group_claim_output", "group_free",
              "group_read", "group_write"}

ASSUME ClaimsAssumption ==
    /\ Groups \subseteq Seq(GPIO) /\ <<>> \notin Groups
    /\ Programs \subseteq
           [Threads -> [ops : SUBSET (SingleOps \cup GroupOps), handles : SUBSET Handles]]
    /\ None \notin {"input", "output"}
    /\ None \notin [handle : Handles, output : BOOLEAN, alert : BOOLEAN]

VARIABLES
    fresh,      \* the handles _next_handle has not reached
    chips,      \* _chips: the open handles
    claims,     \* _claims
    groups,     \* _groups: the lines of each leader, None without an entry
    lines,      \* what pins has each line set up as
    pc,         \* where each thread is
    call,       \* the call it is in
    answer,     \* how its last call ended: with a status, or in an exception
    program,    \* what each thread uses (fixed)
    torn        \* history: the lines on which calls with the same handle have met

vars == <<fresh, chips, claims, groups, lines, pc, call, answer, program, torn>>

-----------------------------------------------------------------------------
Claim == [handle : Handles, output : BOOLEAN, alert : BOOLEAN]

(* A call in progress: its arguments, and the lines it has still to do. *)
Call == [op : SingleOps \cup GroupOps, handle : Handles, gpios : Seq(GPIO), todo : Seq(GPIO)]

Output(op) == op \in {"claim_output", "group_claim_output"}

Places == {"idle", "check", "claim", "setup", "alert", "group", "free", "owned",
           "write", "leader", "delete", "pop", "release", "members"}

(* The line a call is at; its first line is the leader of its group. *)
Line(t) == Head(call[t].todo)
Leader(t) == Head(call[t].gpios)

Holds(handle, g) == claims[g] # None /\ claims[g].handle = handle

(* Thread u is in a call on g with the handle that another thread is about *)
(* to use there, not both to write.  A thread that uses groups shares its  *)
(* handles with nobody in the programs considered.                         *)
Meets(u, op, handle, g) ==
    /\ pc[u] # "idle"
    /\ call[u].handle = handle
    /\ Line(u) = g
    /\ op # "write" \/ call[u].op # "write"

(* Where a call goes once its arguments are known to be good. *)
Entry(op) ==
    CASE op = "free" -> "free"
      [] op = "write" -> "owned"
      [] op \in {"group_free", "group_read", "group_write"} -> "leader"
      [] OTHER -> "claim"

Return(t, how) ==
    /\ pc' = [pc EXCEPT ![t] = "idle"]
    /\ call' = [call EXCEPT ![t] = None]
    /\ answer' = [answer EXCEPT ![t] = how]

Goto(t, place) == pc' = [pc EXCEPT ![t] = place] /\ UNCHANGED <<call, answer>>

(* The call is done with its current line. *)
NextLine(t, place, end) ==
    IF Len(call[t].todo) > 1
    THEN /\ call' = [call EXCEPT ![t].todo = Tail(@)]
         /\ pc' = [pc EXCEPT ![t] = place]
         /\ UNCHANGED answer
    ELSE end

-----------------------------------------------------------------------------
gpiochip_open(t, h) ==
    /\ pc[t] = "idle"
    /\ h \in program[t].handles \cap fresh
    /\ fresh' = fresh \ {h}
    /\ chips' = chips \cup {h}
    /\ UNCHANGED <<claims, groups, lines, pc, call, answer, program, torn>>

(* Under the lock: the handle's claims end and their lines are released. *)
gpiochip_close(t, h) ==
    /\ pc[t] = "idle"
    /\ h \in program[t].handles \cap chips
    /\ chips' = chips \ {h}
    /\ claims' = [g \in GPIO |-> IF Holds(h, g) THEN None ELSE claims[g]]
    /\ lines' = [g \in GPIO |-> IF Holds(h, g) THEN None ELSE lines[g]]
    /\ torn' = torn \cup {g \in GPIO : \E u \in Threads : Meets(u, "close", h, g)}
    /\ UNCHANGED <<fresh, groups, pc, call, answer, program>>

Arguments(op) == IF op \in {"group_claim_input", "group_claim_output"}
                 THEN Groups
                 ELSE {<<g>> : g \in GPIO}

Begin(t, op, h, gpios) ==
    /\ pc[t] = "idle"
    /\ op \in program[t].ops
    /\ h \in program[t].handles \ fresh
    /\ call' = [call EXCEPT ![t] = [op |-> op, handle |-> h, gpios |-> gpios, todo |-> gpios]]
    /\ pc' = [pc EXCEPT ![t] = "check"]
    /\ torn' = torn \cup {g \in {Head(gpios)} : \E u \in Threads : Meets(u, op, h, g)}
    /\ UNCHANGED <<fresh, chips, claims, groups, lines, answer, program>>

(* _gpio_ok(): the handle must be open, now. *)
gpio_ok(t) ==
    /\ pc[t] = "check"
    /\ IF call[t].handle \in chips
       THEN Goto(t, Entry(call[t].op))
       ELSE Return(t, "status")
    /\ UNCHANGED <<fresh, chips, claims, groups, lines, program, torn>>

(* Bug: only outputs are busy. *)
ClaimUnlessOutput(t) ==
    LET c == call[t]
        g == Line(t)
    IN  /\ pc[t] = "claim"
        /\ IF claims[g] # None /\ ~Holds(c.handle, g) /\ claims[g].output
           THEN Return(t, "status") /\ UNCHANGED claims
           ELSE /\ claims' = [claims EXCEPT ![g] =
                       [handle |-> c.handle, output |-> Output(c.op), alert |-> FALSE]]
                /\ Goto(t, "setup")
        /\ UNCHANGED <<fresh, chips, groups, lines, program, torn>>

(* _claim() under the lock.  A handle may claim its own line again. *)
ClaimLine(t) ==
    LET c == call[t]
        g == Line(t)
    IN  /\ pc[t] = "claim"
        /\ IF claims[g] # None /\ ~Holds(c.handle, g)
           THEN Return(t, "status") /\ UNCHANGED claims
           ELSE /\ claims' = [claims EXCEPT ![g] =
                       [handle |-> c.handle, output |-> Output(c.op), alert |-> FALSE]]
                /\ Goto(t, "setup")
        /\ UNCHANGED <<fresh, chips, groups, lines, program, torn>>

(* _claim() after the lock; a group goes on with its next line. *)
SetUpLine(t) ==
    LET op == call[t].op
    IN  /\ pc[t] = "setup"
        /\ lines' = [lines EXCEPT ![Line(t)] = IF Output(op) THEN "output" ELSE "input"]
        /\ CASE op = "claim_alert" -> Goto(t, "alert")
             [] op \in {"claim_input", "claim_output"} -> Return(t, "status")
             [] OTHER -> NextLine(t, "check", Goto(t, "group"))
        /\ UNCHANGED <<fresh, chips, claims, groups, program, torn>>

(* gpio_claim_alert() takes the lock again, and looks the claim up again. *)
ArmAlert(t) ==
    LET g == Line(t)
    IN  /\ pc[t] = "alert"
        /\ IF claims[g] = None
           THEN Return(t, "exception") /\ UNCHANGED claims
           ELSE Return(t, "status") /\ claims' = [claims EXCEPT ![g].alert = TRUE]
        /\ UNCHANGED <<fresh, chips, groups, lines, program, torn>>

(* _make_group(): a KeyError when a member's claim is already gone. *)
make_group(t) ==
    /\ pc[t] = "group"
    /\ groups' = [groups EXCEPT ![Leader(t)] = call[t].gpios]
    /\ Return(t, IF \A g \in Range(call[t].gpios) : claims[g] # None
                 THEN "status" ELSE "exception")
    /\ UNCHANGED <<fresh, chips, claims, lines, program, torn>>

(* Bug: the line is released after the lock, as group_free() does. *)
FreeThenRelease(t) ==
    LET g == Line(t)
    IN  /\ pc[t] = "free"
        /\ IF Holds(call[t].handle, g)
           THEN claims' = [claims EXCEPT ![g] = None] /\ Goto(t, "release")
           ELSE Return(t, "status") /\ UNCHANGED claims
        /\ UNCHANGED <<fresh, chips, groups, lines, program, torn>>

(* Bug: any handle may free a line. *)
FreeAnyones(t) ==
    LET g == Line(t)
    IN  /\ pc[t] = "free"
        /\ claims' = [claims EXCEPT ![g] = None]
        /\ lines' = [lines EXCEPT ![g] = None]
        /\ Return(t, "status")
        /\ UNCHANGED <<fresh, chips, groups, program, torn>>

(* gpio_free() drops the claim and releases the line under one lock. *)
gpio_free(t) ==
    LET g == Line(t)
    IN  /\ pc[t] = "free"
        /\ IF Holds(call[t].handle, g)
           THEN /\ claims' = [claims EXCEPT ![g] = None]
                /\ lines' = [lines EXCEPT ![g] = None]
           ELSE UNCHANGED <<claims, lines>>
        /\ Return(t, "status")
        /\ UNCHANGED <<fresh, chips, groups, program, torn>>

(* _owned(), for gpio_write, tx_pwm and tx_servo: the claim as it is now. *)
owned(t) ==
    /\ pc[t] = "owned"
    /\ IF Holds(call[t].handle, Line(t)) /\ claims[Line(t)].output
       THEN Goto(t, "write")
       ELSE Return(t, "status")
    /\ UNCHANGED <<fresh, chips, claims, groups, lines, program, torn>>

(* pins.write() and pins.set_pwm() raise PinError on a line that is no     *)
(* longer an output.                                                       *)
gpio_write(t) ==
    /\ pc[t] = "write"
    /\ Return(t, IF lines[Line(t)] = "output" THEN "status" ELSE "exception")
    /\ UNCHANGED <<fresh, chips, claims, groups, lines, program, torn>>

-----------------------------------------------------------------------------
(* Bug: a claimed line that leads no group is taken for a leader. *)
FindClaimedLeader(t) ==
    LET g == Leader(t)
    IN  /\ pc[t] = "leader"
        /\ IF Holds(call[t].handle, g)
           THEN /\ call' = [call EXCEPT ![t].todo = groups[g]]
                /\ pc' = [pc EXCEPT ![t] = IF call[t].op = "group_free" THEN "delete" ELSE "members"]
                /\ UNCHANGED answer
           ELSE Return(t, "status")
        /\ UNCHANGED <<fresh, chips, claims, groups, lines, program, torn>>

(* _group(): the caller must hold the leader; the members are copied. *)
FindGroup(t) ==
    LET g == Leader(t)
    IN  /\ pc[t] = "leader"
        /\ IF Holds(call[t].handle, g) /\ groups[g] # None
           THEN /\ call' = [call EXCEPT ![t].todo = groups[g]]
                /\ pc' = [pc EXCEPT ![t] = IF call[t].op = "group_free" THEN "delete" ELSE "members"]
                /\ UNCHANGED answer
           ELSE Return(t, "status")
        /\ UNCHANGED <<fresh, chips, claims, groups, lines, program, torn>>

(* group_read() and group_write() look every member's claim up, whoever    *)
(* holds it: a KeyError when nobody does.                                  *)
GroupMember(t) ==
    LET g == Line(t)
    IN  /\ pc[t] = "members"
        /\ IF claims[g] = None
           THEN Return(t, "exception")
           ELSE IF call[t].op = "group_write" /\ ~claims[g].output
           THEN Return(t, "status")
           ELSE IF call[t].op = "group_write" /\ lines[g] # "output"
           THEN Return(t, "exception")
           ELSE NextLine(t, "members", Return(t, "status"))
        /\ UNCHANGED <<fresh, chips, claims, groups, lines, program, torn>>

(* group_free(): the entry goes (a KeyError if it has gone already), then  *)
(* every member in turn, whoever holds it: its claim under the lock, its   *)
(* line after it.                                                          *)
DeleteGroup(t) ==
    /\ pc[t] = "delete"
    /\ groups' = [groups EXCEPT ![Leader(t)] = None]
    /\ IF groups[Leader(t)] = None THEN Return(t, "exception") ELSE Goto(t, "pop")
    /\ UNCHANGED <<fresh, chips, claims, lines, program, torn>>

PopMember(t) ==
    /\ pc[t] = "pop"
    /\ claims' = [claims EXCEPT ![Line(t)] = None]
    /\ Goto(t, "release")
    /\ UNCHANGED <<fresh, chips, groups, lines, program, torn>>

ReleaseMember(t) ==
    /\ pc[t] = "release"
    /\ lines' = [lines EXCEPT ![Line(t)] = None]
    /\ NextLine(t, "pop", Return(t, "status"))
    /\ UNCHANGED <<fresh, chips, claims, groups, program, torn>>

-----------------------------------------------------------------------------
Init ==
    /\ fresh = Handles
    /\ chips = {}
    /\ claims = [g \in GPIO |-> None]
    /\ groups = [g \in GPIO |-> None]
    /\ lines = [g \in GPIO |-> None]
    /\ pc = [t \in Threads |-> "idle"]
    /\ call = [t \in Threads |-> None]
    /\ answer = [t \in Threads |-> "status"]
    /\ program \in Programs
    /\ torn = {}

Calls(t) ==
    \/ \E h \in Handles : gpiochip_open(t, h) \/ gpiochip_close(t, h)
    \/ \E op \in program[t].ops, h \in program[t].handles :
           \E gpios \in Arguments(op) : Begin(t, op, h, gpios)

Claiming(t) == ClaimLine(t) \/ SetUpLine(t) \/ ArmAlert(t) \/ make_group(t)

Using(t) == gpio_free(t) \/ owned(t) \/ gpio_write(t)

Grouped(t) ==
    FindGroup(t) \/ GroupMember(t) \/ DeleteGroup(t) \/ PopMember(t) \/ ReleaseMember(t)

Next == \E t \in Threads : Calls(t) \/ gpio_ok(t) \/ Claiming(t) \/ Using(t) \/ Grouped(t)

Spec == Init /\ [][Next]_vars

-----------------------------------------------------------------------------
TypeOK ==
    /\ fresh \subseteq Handles /\ chips \subseteq Handles
    /\ claims \in [GPIO -> Claim \cup {None}]
    /\ groups \in [GPIO -> (Seq(GPIO) \ {<<>>}) \cup {None}]
    /\ lines \in [GPIO -> {"input", "output", None}]
    /\ pc \in [Threads -> Places]
    /\ DOMAIN call = Threads
    /\ \A t \in Threads : pc[t] # "idle" =>
           call[t] \in Call /\ call[t].gpios # <<>> /\ call[t].todo # <<>>
    /\ answer \in [Threads -> {"status", "exception"}]
    /\ program \in Programs
    /\ torn \subseteq GPIO

(* A claim never passes from one handle to another: it ends first, so a    *)
(* handle that finds a line busy leaves it to its holder (GPIO_BUSY).      *)
NoTakeover ==
    [][\A g \in GPIO :
        claims[g] # None /\ claims'[g] # None => claims'[g].handle = claims[g].handle]_claims

(* Thread t has changed the claim of g and not yet the line. *)
AtWork(t, g) == pc[t] \in {"setup", "release"} /\ Line(t) = g

(* What a claim says the line is. *)
Claimed(claim) ==
    IF claim = None THEN None ELSE IF claim.output THEN "output" ELSE "input"

(* Claims change under lgpio's lock, lines under the lock of pins: a line  *)
(* nobody is working on is set up as its claim says, and released when it  *)
(* has none, whatever the threads' calls on it have raced with - but for a *)
(* line on which two threads' calls with the same handle have met, where a *)
(* line freed in between is set up late and stays so without a claim.      *)
LinesFollowClaims ==
    \A g \in GPIO \ torn :
        (\A t \in Threads : ~AtWork(t, g)) => lines[g] = Claimed(claims[g])

(* lgpio_stub.py:9: "Errors behave as in lgpio: a negative status".  A     *)
(* call on one line ends in a KeyError or a PinError instead only where    *)
(* calls of two threads with the same handle have met on that line, one of *)
(* them a claim, a free or the handle's close: there the claim it has      *)
(* looked up may be gone, or not yet set up, when it acts on it, and the   *)
(* header's promise fails.  Calls with other handles never bring it there. *)
CallsAnswerStatuses ==
    [][\A t \in Threads :
        pc[t] # "idle" /\ call[t].op \in SingleOps /\ pc'[t] = "idle" /\ answer'[t] = "exception"
            => Line(t) \in torn]_vars

(* That no call ends so, in any program. *)
GroupsAnswerStatuses == \A t \in Threads : answer[t] = "status"
=============================================================================
