----------------------------- MODULE LgpioAlerts -----------------------------
(***************************************************************************)
(* p4n4_emu/hw/lgpio_stub.py: the alerts of one line.                      *)
(*                                                                         *)
(* A change of the line's level commits in pins and reaches _on_change     *)
(* later, in the thread that made it.  With debounce, _on_change restarts  *)
(* a threading.Timer that runs _alert; an alert restarts the watchdog, a   *)
(* Timer that runs _timeout.  A Timer's thread can be cancelled while it   *)
(* waits and no longer once its wait is over, though it has yet to take    *)
(* the lock.  A reclaim puts a new _Claim in the old one's place: what is  *)
(* still running for the old one is stale.                                 *)
(*                                                                         *)
(* Timers run out at any time: their order is all that matters here.       *)
(***************************************************************************)
EXTENDS Integers, FiniteSets

CONSTANTS
    Drivers,    \* threads that change the line's level
    Slots,      \* Timer threads alive at a time (the bound of the model), integers
    Edges,      \* the edge flags claimed: sets of the levels that are reported
    Settings,   \* the debounce and watchdog settings in use: off, or on
    None        \* Python's None

Levels == {0, 1}

(* _Claim: the timers it knows are named by their slots. *)
Claim == [edges : SUBSET Levels, debounce : BOOLEAN, watchdog : BOOLEAN,
          reported : Levels \cup {None}, timer : Slots \cup {None}, armed : Slots \cup {None}]

ASSUME AlertsAssumption ==
    /\ Slots \subseteq Nat /\ IsFiniteSet(Slots)
    /\ IsFiniteSet(Drivers) /\ Drivers \cap Slots = {}
    /\ Edges \subseteq (SUBSET Levels) \ {{}}
    /\ Settings \subseteq BOOLEAN /\ FALSE \in Settings
    /\ None \notin Drivers \cup Slots \cup Levels \cup Claim

VARIABLES
    level,      \* pins.read(gpio), as active_low shows it
    claim,      \* _claims[gpio]
    owner,      \* "arming" between the two locks of gpio_claim_alert
    act,        \* where each driver and each Timer thread is
    told,       \* (history) rising less falling edges the callbacks were told of
    timeouts    \* (history) TIMEOUT alerts since the last edge alert

vars == <<level, claim, owner, act, told, timeouts>>

Actors == Drivers \cup Slots

-----------------------------------------------------------------------------
(* A driver is "changed" before _on_change.  A slot waits as "debounce" or *)
(* "watchdog" and is then about to run _alert or _timeout.  Both may go on *)
(* to "report" what they found.                                            *)
Act == [at : {"idle", "changed", "debounce", "watchdog", "alert", "timeout", "report"},
        stale : BOOLEAN, says : {"nothing", "rise", "fall", "timeout"}]

(* Where an actor acts for the claim it knows. *)
ForTheClaim == {"debounce", "watchdog", "alert", "timeout"}

Idle == [at |-> "idle", stale |-> FALSE, says |-> "nothing"]
At(place) == [Idle EXCEPT !.at = place]
Reporting(what) == [At("report") EXCEPT !.says = what]

(* Timer.cancel(): too late once the wait is over. *)
Cancelled(a, slot) ==
    IF slot # None /\ a[slot].at \in {"debounce", "watchdog"}
    THEN [a EXCEPT ![slot] = Idle]
    ELSE a

(* Bug: nobody is told that the claim is gone. *)
OnlyCancelled(a) == IF claim = None THEN a ELSE Cancelled(Cancelled(a, claim.timer), claim.armed)

(* The claim's object is replaced or dropped: its timers are cancelled and *)
(* whoever is past that is stale.                                          *)
Outdated(a) ==
    LET left == IF claim = None THEN a
                ELSE Cancelled(Cancelled(a, claim.timer), claim.armed)
    IN  [x \in Actors |->
            IF left[x].at \in ForTheClaim
            THEN [left[x] EXCEPT !.stale = TRUE]
            ELSE left[x]]

(* The bound: a new Timer waits for a free slot, a debounce one also until *)
(* another slot is left for the watchdog its alert may start.              *)
Debouncing(a) == {i \in Slots : a[i].at \in {"debounce", "alert"}}

FirstFree(a) == {i \in Slots : a[i].at = "idle" /\ \A j \in Slots : a[j].at = "idle" => i <= j}

Edge(l) == IF l = 1 THEN "rise" ELSE "fall"

Worth(what) == CASE what = "rise" -> 1 [] what = "fall" -> 0 - 1 [] OTHER -> 0

(* Edges are counted while every edge is claimed. *)
Counted == claim # None /\ claim.edges = Levels

(* What the reports still on their way add to what was told. *)
Saying(what) == {x \in Actors : act[x].says = what}

Pending == Cardinality(Saying("rise")) - Cardinality(Saying("fall"))

-----------------------------------------------------------------------------
(* The line's level changes: pins has committed, _on_change is to come. *)
Change(t) ==
    /\ act[t].at = "idle"
    /\ level' = 1 - level
    /\ act' = [act EXCEPT ![t] = At("changed")]
    /\ UNCHANGED <<claim, owner, told, timeouts>>

(* Bug: a change that comes while a debounce timer waits only cancels it. *)
DebounceOnce(t) ==
    /\ act[t].at = "changed"
    /\ IF claim = None \/ claim.edges = {} \/ claim.timer # None
       THEN /\ act' = [(IF claim = None THEN act ELSE Cancelled(act, claim.timer)) EXCEPT ![t] = Idle]
            /\ UNCHANGED claim
       ELSE IF claim.debounce
       THEN \E i \in FirstFree(act) :
                act' = [act EXCEPT ![t] = Idle, ![i] = At("debounce")] /\ claim' = [claim EXCEPT !.timer = i]
       ELSE act' = [act EXCEPT ![t] = At("alert")] /\ UNCHANGED claim
    /\ UNCHANGED <<level, owner, told, timeouts>>

on_change(t) ==
    /\ act[t].at = "changed"
    /\ IF claim = None \/ claim.edges = {}
       THEN act' = [act EXCEPT ![t] = Idle] /\ UNCHANGED claim
       ELSE LET left == Cancelled(act, claim.timer)
            IN  IF claim.debounce
                THEN \E i \in FirstFree(left) :
                        /\ Cardinality(Debouncing(left)) + 1 < Cardinality(Slots)
                        /\ act' = [left EXCEPT ![t] = Idle, ![i] = At("debounce")]
                        /\ claim' = [claim EXCEPT !.timer = i]
                ELSE /\ act' = [left EXCEPT ![t] = At("alert")]
                     /\ claim' = [claim EXCEPT !.timer = None]
    /\ UNCHANGED <<level, owner, told, timeouts>>

(* A Timer's wait is over.  (Cancelling it has no effect from here on, so  *)
(* the model forgets an expired debounce timer at once.)                   *)
Expire(i) ==
    /\ \/ /\ act[i].at = "debounce"
          /\ act' = [act EXCEPT ![i].at = "alert"]
          /\ claim' = IF claim # None /\ claim.timer = i THEN [claim EXCEPT !.timer = None] ELSE claim
       \/ /\ act[i].at = "watchdog"
          /\ act' = [act EXCEPT ![i].at = "timeout"]
          /\ UNCHANGED claim
    /\ UNCHANGED <<level, owner, told, timeouts>>

(* Bug: an edge nobody asked for is not recorded. *)
AlertOnEdges(x) ==
    LET new  == ~act[x].stale /\ level \in claim.edges /\ level # claim.reported
        left == [Cancelled(act, claim.armed) EXCEPT ![x] = Reporting(Edge(level))]
    IN  /\ act[x].at = "alert"
        /\ act' = IF new THEN left ELSE [act EXCEPT ![x] = Idle]
        /\ claim' = IF new THEN [claim EXCEPT !.reported = level, !.armed = None] ELSE claim
        /\ UNCHANGED <<level, owner, told, timeouts>>

(* _alert() under the lock: nothing to say, or an edge nobody asked for,   *)
(* or an edge to report, which restarts the watchdog.                      *)
alert(x) ==
    /\ act[x].at = "alert"
    /\ IF act[x].stale \/ claim.edges = {} \/ level = claim.reported
       THEN act' = [act EXCEPT ![x] = Idle] /\ UNCHANGED <<claim, timeouts>>
       ELSE IF level \notin claim.edges
       THEN /\ act' = [act EXCEPT ![x] = Idle]
            /\ claim' = [claim EXCEPT !.reported = level]
            /\ UNCHANGED timeouts
       ELSE LET left == [Cancelled(act, claim.armed) EXCEPT ![x] = Reporting(Edge(level))]
            IN  /\ timeouts' = 0
                /\ IF claim.watchdog
                   THEN \E i \in FirstFree(left) :
                            /\ act' = [left EXCEPT ![i] = At("watchdog")]
                            /\ claim' = [claim EXCEPT !.reported = level, !.armed = i]
                   ELSE /\ act' = left
                        /\ claim' = [claim EXCEPT !.reported = level, !.armed = None]
    /\ UNCHANGED <<level, owner, told>>

(* Bug: the watchdog that ran out stays armed. *)
TimeoutStaysArmed(i) ==
    /\ act[i].at = "timeout"
    /\ IF act[i].stale \/ claim.armed = None
       THEN act' = [act EXCEPT ![i] = Idle] /\ UNCHANGED timeouts
       ELSE act' = [act EXCEPT ![i] = Reporting("timeout")] /\ timeouts' = timeouts + 1
    /\ UNCHANGED <<level, claim, owner, told>>

(* _timeout() under the lock: any watchdog of the claim will do. *)
timeout(i) ==
    /\ act[i].at = "timeout"
    /\ IF act[i].stale \/ claim.armed = None
       THEN act' = [act EXCEPT ![i] = Idle] /\ UNCHANGED <<claim, timeouts>>
       ELSE /\ act' = [act EXCEPT ![i] = Reporting("timeout")]
            /\ claim' = [claim EXCEPT !.armed = None]
            /\ timeouts' = timeouts + 1
    /\ UNCHANGED <<level, owner, told>>

(* Bug: a report is dropped when the level has changed again. *)
ReportIfCurrent(x) ==
    /\ act[x].at = "report"
    /\ told' = IF Counted /\ act[x].says = Edge(level) THEN told + Worth(act[x].says) ELSE told
    /\ act' = [act EXCEPT ![x] = Idle]
    /\ UNCHANGED <<level, claim, owner, timeouts>>

(* _report(), outside the lock. *)
report(x) ==
    /\ act[x].at = "report"
    /\ told' = IF Counted THEN told + Worth(act[x].says) ELSE 0
    /\ act' = [act EXCEPT ![x] = Idle]
    /\ UNCHANGED <<level, claim, owner, timeouts>>

-----------------------------------------------------------------------------
(* _claim(): a new claim, which keeps the settings of the one it replaces. *)
NewClaim ==
    [edges |-> {}, reported |-> None, timer |-> None, armed |-> None,
     debounce |-> IF claim = None THEN FALSE ELSE claim.debounce,
     watchdog |-> IF claim = None THEN FALSE ELSE claim.watchdog]

ClaimLine(next) ==
    /\ owner = "idle"
    /\ claim' = NewClaim
    /\ act' = Outdated(act)
    /\ owner' = next
    /\ told' = 0
    /\ timeouts' = 0
    /\ UNCHANGED level

gpio_claim_input == ClaimLine("idle")

gpio_claim_alert == ClaimLine("arming")

(* The second lock of gpio_claim_alert(): what is told is counted anew. *)
ArmAlert(edges) ==
    /\ owner = "arming"
    /\ claim' = [claim EXCEPT !.edges = edges, !.reported = level]
    /\ owner' = "idle"
    /\ told' = IF edges = Levels THEN level - Pending ELSE 0
    /\ UNCHANGED <<level, act, timeouts>>

gpio_free ==
    /\ owner = "idle" /\ claim # None
    /\ claim' = None
    /\ act' = Outdated(act)
    /\ told' = 0
    /\ timeouts' = 0
    /\ UNCHANGED <<level, owner>>

set_debounce(on) ==
    /\ owner = "idle" /\ claim # None
    /\ claim' = [claim EXCEPT !.debounce = on]
    /\ UNCHANGED <<level, owner, act, told, timeouts>>

(* Turning the watchdog off disarms it. *)
set_watchdog(on) ==
    /\ owner = "idle" /\ claim # None
    /\ IF on
       THEN claim' = [claim EXCEPT !.watchdog = TRUE] /\ UNCHANGED act
       ELSE /\ claim' = [claim EXCEPT !.watchdog = FALSE, !.armed = None]
            /\ act' = Cancelled(act, claim.armed)
    /\ UNCHANGED <<level, owner, told, timeouts>>

Init ==
    /\ level = 0
    /\ claim = None
    /\ owner = "idle"
    /\ act = [x \in Actors |-> Idle]
    /\ told = 0
    /\ timeouts = 0

Driver(t) == on_change(t) \/ alert(t) \/ report(t)

Timer(i) == Expire(i) \/ alert(i) \/ timeout(i) \/ report(i)

Arming == \E edges \in Edges : ArmAlert(edges)

Owner ==
    \/ gpio_claim_input \/ gpio_claim_alert \/ gpio_free
    \/ \E on \in Settings : set_debounce(on) \/ set_watchdog(on)

Next ==
    \/ \E t \in Drivers : Change(t) \/ Driver(t)
    \/ \E i \in Slots : Timer(i)
    \/ Arming
    \/ Owner

(* Threads run on and timers run out; nobody need change the level. *)
Fairness ==
    /\ \A t \in Drivers : WF_vars(Driver(t))
    /\ \A i \in Slots : WF_vars(Timer(i))
    /\ WF_vars(Arming)

Spec == Init /\ [][Next]_vars

FairSpec == Spec /\ Fairness

-----------------------------------------------------------------------------
(* The type of every variable but what was told. *)
TypeOK ==
    /\ level \in Levels
    /\ claim \in Claim \cup {None}
    /\ owner \in {"idle", "arming"}
    /\ owner = "arming" => claim # None
    /\ act \in [Actors -> Act]
    /\ \A x \in Actors : act[x].at \in ForTheClaim /\ ~act[x].stale => claim # None
    /\ timeouts \in Nat

(* No change, alert or timer of the claim is under way. *)
Settled == \A x \in Actors : act[x].at \in {"idle", "report"} \/ act[x].stale

(* However changes, debounce timers, reclaims and settings interleave, a   *)
(* settled line has reported the level it is at: no last edge is missed.   *)
ReportedIsCurrent ==
    (Settled /\ claim # None /\ claim.edges # {}) => claim.reported = level

(* No edge alert is lost or doubled between the lock and the callbacks:    *)
(* with both edges claimed, those told and those on their way add up to    *)
(* the level last reported.                                                *)
AlertsConserved ==
    Counted => told + Pending = claim.reported

(* lgpio_stub.py:536: "one TIMEOUT alert follows", never two, though more  *)
(* than one watchdog may have run out.                                     *)
AtMostOneTimeout == timeouts <= 1

(* A level that stays is the one the claim reports in the end, and goes on *)
(* reporting, with no older edge left to tell: no timer that was cancelled *)
(* too late, or too early, swallows the last edge, and none brings back    *)
(* one that is over.                                                       *)
EventuallyReported ==
    \A v \in Levels :
        <>[](claim # None /\ claim.edges # {} /\ level = v) =>
            <>[](claim # None /\ claim.reported = v /\ Saying("rise") \cup Saying("fall") = {})

(* lgpio_stub.py:536: the TIMEOUT comes "if no other edge comes within"    *)
(* the time, so the watchdog that reports it is the one the last edge      *)
(* alert started.                                                          *)
TimeoutIsForTheLastEdge ==
    [][\A i \in Slots : act[i].at = "timeout" /\ act'[i].at = "report" => claim.armed = i]_vars
=============================================================================
