-------------------------- MODULE LgpioAlertsProofs --------------------------
(* What holds of LgpioAlerts for any number of drivers and timers.         *)
EXTENDS LgpioAlerts, FiniteSetTheorems, SequenceTheorems, TLAPS

(* The timers a claim refers to are the ones it started, in the state it   *)
(* started them in or, for the watchdog, run out.                          *)
References ==
    claim # None =>
        /\ claim.timer # None => act[claim.timer].at = "debounce"
        /\ claim.armed # None => act[claim.armed].at \in {"watchdog", "timeout"} /\ ~act[claim.armed].stale

(* An armed watchdog has not reported since the last edge alert. *)
TimeoutsOwed ==
    /\ timeouts <= 1
    /\ claim # None /\ claim.armed # None => timeouts = 0

(* An actor that will still look at the level for the present claim. *)
Looks(x) == act[x].at \in {"changed", "debounce", "alert"} /\ ~act[x].stale

(* A level that was not reported has somebody who will look at it. *)
ReportsOwed ==
    claim # None /\ claim.edges # {} /\ claim.reported # level => \E x \in Actors : Looks(x)

IInv == TypeOK /\ References /\ TimeoutsOwed /\ ReportsOwed

-----------------------------------------------------------------------------
LEMMA PlacesType ==
    /\ Idle \in Act /\ Idle.at = "idle" /\ ~Idle.stale
    /\ At("changed") \in Act /\ At("debounce") \in Act /\ At("watchdog") \in Act /\ At("alert") \in Act
    /\ \A l : Reporting(Edge(l)) \in Act /\ Reporting(Edge(l)).at = "report"
    /\ Reporting("timeout") \in Act /\ Reporting("timeout").at = "report"
    /\ \A p : At(p).at = p /\ ~At(p).stale
BY DEF Idle, At, Reporting, Edge, Act

LEMMA NoneIsNoActor == None \notin Actors
BY AlertsAssumption DEF Actors

LEMMA ClaimIsNotNone == \A c \in Claim : c # None
BY AlertsAssumption

LEMMA CancelledType ==
    ASSUME NEW a \in [Actors -> Act], NEW slot \in Slots \cup {None}
    PROVE  /\ Cancelled(a, slot) \in [Actors -> Act]
           /\ slot = None => Cancelled(a, slot) = a
           /\ \A x \in Actors : x # slot => Cancelled(a, slot)[x] = a[x]
           /\ slot # None /\ a[slot].at \notin {"debounce", "watchdog"} => Cancelled(a, slot)[slot] = a[slot]
           /\ slot # None /\ a[slot].at \in {"debounce", "watchdog"} => Cancelled(a, slot)[slot] = Idle
BY PlacesType DEF Cancelled, Actors

LEMMA OutdatedType ==
    ASSUME TypeOK
    PROVE  /\ Outdated(act) \in [Actors -> Act]
           /\ \A x \in Actors : Outdated(act)[x].at \in ForTheClaim => Outdated(act)[x].stale
<1> DEFINE left == IF claim = None THEN act
                   ELSE Cancelled(Cancelled(act, claim.timer), claim.armed)
<1>1. left \in [Actors -> Act]
  <2>1. CASE claim = None
    BY <2>1 DEF TypeOK
  <2>2. CASE claim # None
    <3>1. claim.timer \in Slots \cup {None} /\ claim.armed \in Slots \cup {None}
      BY <2>2 DEF TypeOK, Claim
    <3>2. Cancelled(act, claim.timer) \in [Actors -> Act]
      BY <3>1, CancelledType DEF TypeOK
    <3>3. QED
      BY <2>2, <3>1, <3>2, CancelledType
  <2>3. QED
    BY <2>1, <2>2
<1>2. Outdated(act) =
        [x \in Actors |-> IF left[x].at \in ForTheClaim
                          THEN [left[x] EXCEPT !.stale = TRUE] ELSE left[x]]
  BY DEF Outdated
<1> HIDE DEF left
<1>3. ASSUME NEW x \in Actors PROVE left[x] \in Act /\ [left[x] EXCEPT !.stale = TRUE] \in Act
  BY <1>1 DEF Act
<1>4. QED
  BY <1>2, <1>3 DEF Act

(* A fresh slot is no other actor, and is idle. *)
LEMMA FreeSlot ==
    ASSUME NEW a, NEW i \in FirstFree(a)
    PROVE  i \in Slots /\ i \in Actors /\ a[i].at = "idle" /\ i # None
BY AlertsAssumption DEF FirstFree, Actors

-----------------------------------------------------------------------------
LEMMA InitInv == Init => IInv
BY PlacesType DEF Init, IInv, TypeOK, ForTheClaim, References, TimeoutsOwed, ReportsOwed, Levels, Claim

LEMMA ChangeStep ==
    ASSUME IInv, NEW t \in Drivers, Change(t)
    PROVE  IInv'
<1>1. t \in Actors /\ act' = [act EXCEPT ![t] = At("changed")] /\ act[t].at = "idle"
  BY DEF Change, Actors
<1>2. act' \in [Actors -> Act] /\ act'[t] = At("changed") /\ \A x \in Actors : x # t => act'[x] = act[x]
  BY <1>1, PlacesType DEF IInv, TypeOK, ForTheClaim
<1>3. level' \in Levels /\ UNCHANGED <<claim, owner, timeouts>>
  BY DEF Change, IInv, TypeOK, Levels
<1>4. TypeOK'
  BY <1>2, <1>3, PlacesType DEF IInv, TypeOK, ForTheClaim
<1>5. References'
  BY <1>1, <1>2, <1>3 DEF IInv, References, TypeOK, Claim, Actors
<1>6. ReportsOwed'
  <2>1. Looks(t)'
    BY <1>2, PlacesType DEF Looks
  <2>2. QED
    BY <1>1, <2>1 DEF ReportsOwed
<1>7. QED
  BY <1>3, <1>4, <1>5, <1>6 DEF IInv, TimeoutsOwed

LEMMA OnChangeStep ==
    ASSUME IInv, NEW t \in Drivers, on_change(t)
    PROVE  IInv'
<1>0. /\ t \in Actors /\ t \notin Slots /\ act[t].at = "changed" /\ act \in [Actors -> Act]
      /\ UNCHANGED <<level, owner, timeouts>>
  BY AlertsAssumption DEF on_change, Actors, IInv, TypeOK
<1>1. CASE (claim = None \/ claim.edges = {}) /\ act' = [act EXCEPT ![t] = Idle] /\ UNCHANGED claim
  <2>1. act' \in [Actors -> Act] /\ act'[t] = Idle /\ \A x \in Actors : x # t => act'[x] = act[x]
    BY <1>0, <1>1, PlacesType
  <2>2. TypeOK'
     BY <1>0, <1>1, <2>1, PlacesType DEF IInv, TypeOK, ForTheClaim
  <2>3. References'
    BY <1>0, <1>1, <2>1 DEF IInv, References, TypeOK, Claim, Actors
  <2>4. QED
    BY <1>0, <1>1, <2>2, <2>3 DEF IInv, TimeoutsOwed, ReportsOwed
<1>2. CASE claim # None /\ claim.edges # {}
  <2> DEFINE left == Cancelled(act, claim.timer)
  <2>0. claim \in Claim /\ claim.timer \in Slots \cup {None} /\ claim.armed \in Slots \cup {None}
    BY <1>2 DEF IInv, TypeOK, Claim
  <2>1. /\ left \in [Actors -> Act]
        /\ \A x \in Actors : x # claim.timer => left[x] = act[x]
        /\ claim.timer # None => left[claim.timer] = Idle
    BY <1>0, <1>2, <2>0, CancelledType DEF IInv, References
  <2>2. /\ left[t] = act[t]
        /\ claim.armed # None => left[claim.armed] = act[claim.armed] /\ claim.armed # claim.timer
    BY <1>0, <1>2, <2>0, <2>1, AlertsAssumption DEF IInv, References, Actors
  <2>3. \A x \in Actors : left[x] = act[x] \/ left[x] = Idle
    BY <2>1, NoneIsNoActor
  <2> HIDE DEF left
  <2>4. CASE claim.debounce
    <3>1. PICK i \in FirstFree(left) : /\ act' = [left EXCEPT ![t] = Idle, ![i] = At("debounce")]
                                       /\ claim' = [claim EXCEPT !.timer = i]
      BY <1>2, <2>4 DEF on_change, left
    <3>2. i \in Slots /\ i \in Actors /\ left[i].at = "idle" /\ i # None /\ i # t
      BY <1>0, <3>1, FreeSlot
    <3>3. /\ act' \in [Actors -> Act]
          /\ act'[t] = Idle /\ act'[i] = At("debounce")
          /\ \A x \in Actors : x # t /\ x # i => act'[x] = left[x]
      BY <1>0, <2>1, <3>1, <3>2, PlacesType
    <3>4. /\ claim' \in Claim /\ claim' # None /\ claim'.timer = i /\ claim'.armed = claim.armed
          /\ claim'.edges = claim.edges /\ claim'.reported = claim.reported
      <4>1. claim' \in Claim
        BY <2>0, <3>1, <3>2 DEF Claim
      <4>2. claim' # None
        BY <4>1, ClaimIsNotNone
      <4>3. QED
        BY <2>0, <3>1, <4>1, <4>2 DEF Claim
    <3>5. TypeOK'
      BY <1>0, <1>2, <3>3, <3>4 DEF IInv, TypeOK, ForTheClaim
    <3>6. References'
      <4>1. claim.armed # None => claim.armed # i /\ claim.armed # t
        BY <1>0, <1>2, <2>0, <2>2, <3>2, AlertsAssumption DEF IInv, References
      <4>2. QED
        BY <1>2, <2>0, <2>2, <3>3, <3>4, <4>1, PlacesType DEF IInv, References, Actors
    <3>7. Looks(i)'
      BY <3>3, PlacesType DEF Looks
    <3>8. QED
      BY <1>0, <1>2, <3>2, <3>4, <3>5, <3>6, <3>7 DEF IInv, TimeoutsOwed, ReportsOwed
  <2>5. CASE ~claim.debounce
    <3>1. act' = [left EXCEPT ![t] = At("alert")] /\ claim' = [claim EXCEPT !.timer = None]
      BY <1>2, <2>5 DEF on_change, left
    <3>2. /\ act' \in [Actors -> Act] /\ act'[t] = At("alert")
          /\ \A x \in Actors : x # t => act'[x] = left[x]
      BY <1>0, <2>1, <3>1, PlacesType
    <3>3. /\ claim' \in Claim /\ claim' # None /\ claim'.timer = None /\ claim'.armed = claim.armed
          /\ claim'.edges = claim.edges /\ claim'.reported = claim.reported
      <4>1. claim' \in Claim
        BY <2>0, <3>1 DEF Claim
      <4>2. claim' # None
        BY <4>1, ClaimIsNotNone
      <4>3. QED
        BY <2>0, <3>1, <4>1, <4>2 DEF Claim
    <3>4. TypeOK'
      BY <1>0, <1>2, <3>2, <3>3 DEF IInv, TypeOK, ForTheClaim
    <3>5. References'
      BY <1>0, <1>2, <2>0, <2>2, <3>2, <3>3 DEF IInv, References, Actors
    <3>6. Looks(t)'
      BY <3>2, PlacesType DEF Looks
    <3>7. QED
      BY <1>0, <1>2, <3>3, <3>4, <3>5, <3>6 DEF IInv, TimeoutsOwed, ReportsOwed
  <2>6. QED
    BY <2>4, <2>5
<1>3. QED
  BY <1>1, <1>2 DEF on_change

LEMMA ExpireStep ==
    ASSUME IInv, NEW i \in Slots, Expire(i)
    PROVE  IInv'
<1>0. i \in Actors /\ act \in [Actors -> Act] /\ UNCHANGED <<level, owner, timeouts>>
  BY DEF Expire, Actors, IInv, TypeOK
<1>1. CASE /\ act[i].at = "debounce"
           /\ act' = [act EXCEPT ![i].at = "alert"]
           /\ claim' = IF claim # None /\ claim.timer = i THEN [claim EXCEPT !.timer = None] ELSE claim
  <2>1. /\ act' \in [Actors -> Act] /\ act'[i].at = "alert" /\ act'[i].stale = act[i].stale
        /\ \A x \in Actors : x # i => act'[x] = act[x]
    BY <1>0, <1>1 DEF Act
  <2>2. claim = None => claim' = None
    BY <1>1
  <2>3. ASSUME claim # None
        PROVE  /\ claim \in Claim /\ claim' \in Claim /\ claim' # None
               /\ claim'.armed = claim.armed /\ claim'.timer = IF claim.timer = i THEN None ELSE claim.timer
               /\ claim'.edges = claim.edges /\ claim'.reported = claim.reported
    <3>1. claim \in Claim
      BY <2>3 DEF IInv, TypeOK
    <3>2. claim' \in Claim
      BY <1>1, <3>1 DEF Claim
    <3>3. claim' # None
      BY <3>2, ClaimIsNotNone
    <3>4. QED
      BY <1>1, <2>3, <3>1, <3>2, <3>3 DEF Claim
  <2>4. TypeOK'
    BY <1>0, <1>1, <2>1, <2>2, <2>3 DEF IInv, TypeOK, ForTheClaim
  <2>5. References'
    <3>1. SUFFICES ASSUME claim # None PROVE References'
      BY <2>2 DEF References
    <3>2. claim.timer \in Slots \cup {None} /\ claim.armed \in Slots \cup {None}
      BY <2>3, <3>1 DEF Claim
    <3>3. claim.armed # None => claim.armed # i /\ claim.armed \in Actors
      BY <1>1, <3>1, <3>2 DEF IInv, References, Actors
    <3>4. claim'.timer # None => claim.timer # i /\ claim'.timer = claim.timer /\ claim.timer \in Actors
      BY <2>3, <3>1, <3>2 DEF Actors
    <3>5. QED
      BY <2>1, <2>3, <3>1, <3>3, <3>4 DEF IInv, References
  <2>6. \A x \in Actors : Looks(x) => Looks(x)'
    BY <1>1, <2>1 DEF Looks
  <2>7. QED
    BY <1>0, <2>2, <2>3, <2>4, <2>5, <2>6 DEF IInv, TimeoutsOwed, ReportsOwed
<1>2. CASE act[i].at = "watchdog" /\ act' = [act EXCEPT ![i].at = "timeout"] /\ UNCHANGED claim
  <2>1. /\ act' \in [Actors -> Act] /\ act'[i].at = "timeout" /\ act'[i].stale = act[i].stale
        /\ \A x \in Actors : x # i => act'[x] = act[x]
    BY <1>0, <1>2 DEF Act
  <2>2. TypeOK'
    BY <1>0, <1>2, <2>1 DEF IInv, TypeOK, ForTheClaim
  <2>3. References'
    <3>1. claim # None => claim.timer \in Slots \cup {None} /\ claim.armed \in Slots \cup {None}
      BY DEF IInv, TypeOK, Claim
    <3>2. QED
      BY <1>2, <2>1, <3>1 DEF IInv, References, Actors
  <2>4. \A x \in Actors : Looks(x) => Looks(x)'
    BY <1>2, <2>1 DEF Looks
  <2>5. QED
    BY <1>0, <1>2, <2>2, <2>3, <2>4 DEF IInv, TimeoutsOwed, ReportsOwed
<1>3. QED
  BY <1>1, <1>2 DEF Expire

(* An actor that is done with the lock, and changes no claim: what alert,  *)
(* timeout and report have in common.                                      *)
LEMMA DoneStep ==
    ASSUME IInv, NEW x \in Actors,
           act[x].at \in {"alert", "timeout", "report"},
           act' = [act EXCEPT ![x] = Idle],
           claim # None => claim.armed # x,
           Looks(x) => claim.edges = {} \/ claim.reported = level,
           UNCHANGED <<level, claim, owner, timeouts>>
    PROVE  IInv'
<1>1. act' \in [Actors -> Act] /\ act'[x] = Idle /\ \A y \in Actors : y # x => act'[y] = act[y]
  BY PlacesType DEF IInv, TypeOK
<1>2. TypeOK'
  BY <1>1, PlacesType DEF IInv, TypeOK, ForTheClaim
<1>3. References'
  <2>1. claim # None => claim.timer \in Slots \cup {None} /\ claim.armed \in Slots \cup {None}
    BY DEF IInv, TypeOK, Claim
  <2>2. claim # None /\ claim.timer # None => claim.timer # x
    BY DEF IInv, References
  <2>3. QED
    BY <1>1, <2>1, <2>2 DEF IInv, References, Actors
<1>4. ReportsOwed'
  BY <1>1 DEF IInv, ReportsOwed, Looks
<1>5. QED
  BY <1>2, <1>3, <1>4 DEF IInv, TimeoutsOwed

LEMMA AlertStep ==
    ASSUME IInv, NEW x \in Actors, alert(x)
    PROVE  IInv'
<1>0. act[x].at = "alert" /\ act \in [Actors -> Act] /\ UNCHANGED <<level, owner>> /\ level \in Levels
  BY DEF alert, IInv, TypeOK
<1>1. claim # None => /\ claim.timer \in Slots \cup {None} /\ claim.armed \in Slots \cup {None}
                      /\ claim.armed # x /\ claim.timer # x
  BY <1>0, NoneIsNoActor DEF IInv, References, TypeOK, Claim
<1>2. CASE act[x].stale \/ claim.edges = {} \/ level = claim.reported
  BY <1>0, <1>1, <1>2, DoneStep DEF alert, Looks
<1>3. CASE ~(act[x].stale \/ claim.edges = {} \/ level = claim.reported)
  <2>1. claim # None /\ claim \in Claim
    BY <1>0, <1>3 DEF IInv, TypeOK, ForTheClaim
  <2>2. CASE level \notin claim.edges
    <3>1. /\ act' = [act EXCEPT ![x] = Idle] /\ claim' = [claim EXCEPT !.reported = level]
          /\ UNCHANGED timeouts
      BY <1>3, <2>2 DEF alert
    <3>2. /\ claim' \in Claim /\ claim'.timer = claim.timer /\ claim'.armed = claim.armed
          /\ claim'.reported = level
      BY <1>0, <2>1, <3>1 DEF Claim
    <3>3. claim' # None
      BY <3>2, ClaimIsNotNone
    <3>4. act' \in [Actors -> Act] /\ act'[x] = Idle /\ \A y \in Actors : y # x => act'[y] = act[y]
      BY <1>0, <3>1, PlacesType
    <3>5. TypeOK'
      BY <1>0, <3>1, <3>2, <3>3, <3>4 DEF IInv, TypeOK
    <3>6. References'
      BY <1>1, <2>1, <3>2, <3>4 DEF IInv, References, Actors
    <3>7. QED
      BY <1>0, <2>1, <3>1, <3>2, <3>5, <3>6 DEF IInv, TimeoutsOwed, ReportsOwed
  <2>3. CASE level \in claim.edges
    <3> DEFINE cleared == Cancelled(act, claim.armed)
               left == [cleared EXCEPT ![x] = Reporting(Edge(level))]
    <3>1. /\ cleared \in [Actors -> Act]
          /\ \A y \in Actors : y # claim.armed => cleared[y] = act[y]
          /\ claim.armed # None => cleared[claim.armed] \in {Idle, act[claim.armed]}
      BY <1>0, <1>1, <2>1, CancelledType DEF IInv, References
    <3>2. /\ left \in [Actors -> Act] /\ left[x] = Reporting(Edge(level))
          /\ \A y \in Actors : y # x => left[y] = cleared[y]
      <4> HIDE DEF cleared
      <4>1. QED
        BY <3>1, PlacesType
    <3>3. claim.timer # None => left[claim.timer] = act[claim.timer] /\ claim.timer \in Actors
      <4>1. claim.timer # None => claim.timer \in Actors /\ claim.timer # x /\ claim.timer # claim.armed
        BY <1>1, <2>1 DEF IInv, References, Actors
      <4>2. QED
        BY <3>1, <3>2, <4>1
    <3>4. timeouts' = 0
      BY <1>3, <2>3 DEF alert
    <3> HIDE DEF cleared, left
    <3>5. CASE claim.watchdog
      <4>1. PICK i \in FirstFree(left) : /\ act' = [left EXCEPT ![i] = At("watchdog")]
                                         /\ claim' = [claim EXCEPT !.reported = level, !.armed = i]
        BY <1>3, <2>3, <3>5 DEF alert, left, cleared
      <4>2. i \in Slots /\ i \in Actors /\ left[i].at = "idle" /\ i # None /\ i # x
        BY <3>2, <4>1, FreeSlot, PlacesType
      <4>3. /\ act' \in [Actors -> Act] /\ act'[i] = At("watchdog")
            /\ \A y \in Actors : y # i => act'[y] = left[y]
        BY <3>2, <4>1, <4>2, PlacesType
      <4>4. claim' \in Claim /\ claim'.timer = claim.timer /\ claim'.armed = i /\ claim'.reported = level
        BY <1>0, <2>1, <4>1, <4>2 DEF Claim
      <4>5. claim' # None
        BY <4>4, ClaimIsNotNone
      <4>6. TypeOK'
        BY <1>0, <3>4, <4>3, <4>4, <4>5 DEF IInv, TypeOK
      <4>7. References'
        <5>1. claim.timer # None => claim.timer # i
          BY <2>1, <3>3, <4>2 DEF IInv, References
        <5>2. QED
          BY <2>1, <3>3, <4>2, <4>3, <4>4, <5>1, PlacesType DEF IInv, References
      <4>8. QED
        BY <1>0, <3>4, <4>4, <4>6, <4>7 DEF IInv, TimeoutsOwed, ReportsOwed
    <3>6. CASE ~claim.watchdog
      <4>1. act' = left /\ claim' = [claim EXCEPT !.reported = level, !.armed = None]
        BY <1>3, <2>3, <3>6 DEF alert, left, cleared
      <4>2. claim' \in Claim /\ claim'.timer = claim.timer /\ claim'.armed = None /\ claim'.reported = level
        BY <1>0, <2>1, <4>1 DEF Claim
      <4>3. claim' # None
        BY <4>2, ClaimIsNotNone
      <4>4. TypeOK'
        BY <1>0, <3>2, <3>4, <4>1, <4>2, <4>3 DEF IInv, TypeOK
      <4>5. References'
        BY <2>1, <3>3, <4>1, <4>2 DEF IInv, References
      <4>6. QED
        BY <1>0, <3>4, <4>2, <4>4, <4>5 DEF IInv, TimeoutsOwed, ReportsOwed
    <3>7. QED
      BY <3>5, <3>6
  <2>4. QED
    BY <2>2, <2>3
<1>4. QED
  BY <1>2, <1>3

LEMMA TimeoutStep ==
    ASSUME IInv, NEW i \in Slots, timeout(i)
    PROVE  IInv'
<1>0. i \in Actors /\ act[i].at = "timeout" /\ act \in [Actors -> Act] /\ UNCHANGED <<level, owner>>
  BY DEF timeout, Actors, IInv, TypeOK
<1>1. CASE act[i].stale \/ claim.armed = None
  <2>1. claim # None => claim.armed # i
    BY <1>0, <1>1, NoneIsNoActor DEF IInv, References
  <2>2. QED
    BY <1>0, <1>1, <2>1, DoneStep DEF timeout, Looks
<1>2. CASE ~(act[i].stale \/ claim.armed = None)
  <2>1. claim # None /\ claim \in Claim
    BY <1>0, <1>2 DEF IInv, TypeOK, ForTheClaim
  <2>2. /\ act' = [act EXCEPT ![i] = Reporting("timeout")] /\ claim' = [claim EXCEPT !.armed = None]
        /\ timeouts' = timeouts + 1 /\ timeouts = 0
    BY <1>2, <2>1 DEF timeout, IInv, TimeoutsOwed
  <2>3. /\ claim' \in Claim /\ claim'.timer = claim.timer /\ claim'.armed = None
        /\ claim'.edges = claim.edges /\ claim'.reported = claim.reported
    BY <2>1, <2>2 DEF Claim
  <2>4. claim' # None
    BY <2>3, ClaimIsNotNone
  <2>5. /\ act' \in [Actors -> Act] /\ act'[i] = Reporting("timeout")
        /\ \A y \in Actors : y # i => act'[y] = act[y]
    BY <1>0, <2>2, PlacesType
  <2>6. TypeOK'
    BY <1>0, <2>2, <2>3, <2>4, <2>5 DEF IInv, TypeOK
  <2>7. References'
    <3>1. claim.timer # None => claim.timer # i /\ claim.timer \in Actors
      BY <1>0, <2>1 DEF IInv, References, Claim, Actors
    <3>2. QED
      BY <2>1, <2>3, <2>5, <3>1 DEF IInv, References
  <2>8. \A y \in Actors : Looks(y) => Looks(y)'
    BY <1>0, <2>5 DEF Looks
  <2>9. QED
    BY <1>0, <2>1, <2>2, <2>3, <2>6, <2>7, <2>8 DEF IInv, TimeoutsOwed, ReportsOwed
<1>3. QED
  BY <1>1, <1>2

LEMMA ReportStep ==
    ASSUME IInv, NEW x \in Actors, report(x)
    PROVE  IInv'
<1>1. act[x].at = "report"
  BY DEF report
<1>2. claim # None => claim.armed # x
  BY <1>1, NoneIsNoActor DEF IInv, References
<1>3. QED
  BY <1>1, <1>2, DoneStep DEF report, Looks

-----------------------------------------------------------------------------
LEMMA NewClaimType == IInv => NewClaim \in Claim
BY DEF IInv, TypeOK, NewClaim, Claim

LEMMA ClaimLineStep ==
    ASSUME IInv, NEW next \in {"idle", "arming"}, ClaimLine(next)
    PROVE  IInv'
<1>1. claim' \in Claim /\ claim' # None /\ claim'.edges = {} /\ claim'.timer = None /\ claim'.armed = None
  BY NewClaimType, ClaimIsNotNone DEF ClaimLine, NewClaim
<1>2. TypeOK'
  BY <1>1, OutdatedType DEF ClaimLine, IInv, TypeOK
<1>3. QED
  BY <1>1, <1>2 DEF ClaimLine, IInv, References, TimeoutsOwed, ReportsOwed

LEMMA ArmAlertStep ==
    ASSUME IInv, NEW edges \in Edges, ArmAlert(edges)
    PROVE  IInv'
<1>1. claim # None /\ claim \in Claim /\ level \in Levels /\ edges \in SUBSET Levels
  BY AlertsAssumption DEF ArmAlert, IInv, TypeOK
<1>2. claim' = [claim EXCEPT !.edges = edges, !.reported = level] /\ UNCHANGED <<level, act, timeouts>>
  BY DEF ArmAlert
<1>3. claim' \in Claim /\ claim'.timer = claim.timer /\ claim'.armed = claim.armed /\ claim'.reported = level
  BY <1>1, <1>2 DEF Claim
<1>4. claim' # None
  BY <1>3, ClaimIsNotNone
<1>5. TypeOK'
  BY <1>2, <1>3, <1>4 DEF ArmAlert, IInv, TypeOK
<1>6. QED
  BY <1>1, <1>2, <1>3, <1>4, <1>5 DEF IInv, References, TimeoutsOwed, ReportsOwed

LEMMA FreeStep ==
    ASSUME IInv, gpio_free
    PROVE  IInv'
<1>1. claim' = None /\ act' = Outdated(act) /\ timeouts' = 0 /\ owner = "idle" /\ UNCHANGED <<level, owner>>
  BY DEF gpio_free
<1>2. TypeOK'
  BY <1>1, OutdatedType DEF IInv, TypeOK
<1>3. QED
  BY <1>1, <1>2 DEF IInv, References, TimeoutsOwed, ReportsOwed

LEMMA DebounceStep ==
    ASSUME IInv, NEW on \in Settings, set_debounce(on)
    PROVE  IInv'
<1>1. /\ claim # None /\ claim \in Claim /\ on \in BOOLEAN /\ claim' = [claim EXCEPT !.debounce = on]
      /\ UNCHANGED <<level, owner, act, timeouts>>
  BY AlertsAssumption DEF set_debounce, IInv, TypeOK
<1>2. /\ claim' \in Claim /\ claim'.timer = claim.timer /\ claim'.armed = claim.armed
      /\ claim'.edges = claim.edges /\ claim'.reported = claim.reported
  BY <1>1 DEF Claim
<1>3. claim' # None
  BY <1>2, ClaimIsNotNone
<1>4. TypeOK'
  BY <1>1, <1>2, <1>3 DEF IInv, TypeOK
<1>5. QED
  BY <1>1, <1>2, <1>3, <1>4 DEF IInv, References, TimeoutsOwed, ReportsOwed, Looks

LEMMA WatchdogStep ==
    ASSUME IInv, NEW on \in Settings, set_watchdog(on)
    PROVE  IInv'
<1>1. /\ claim # None /\ claim \in Claim /\ claim.timer \in Slots \cup {None}
      /\ claim.armed \in Slots \cup {None} /\ act \in [Actors -> Act]
      /\ UNCHANGED <<level, owner, timeouts>>
  BY DEF set_watchdog, IInv, TypeOK, Claim
<1>2. CASE on
  <2>1. claim' = [claim EXCEPT !.watchdog = TRUE] /\ UNCHANGED act
    BY <1>2 DEF set_watchdog
  <2>2. /\ claim' \in Claim /\ claim'.timer = claim.timer /\ claim'.armed = claim.armed
        /\ claim'.edges = claim.edges /\ claim'.reported = claim.reported
    BY <1>1, <2>1 DEF Claim
  <2>3. claim' # None
    BY <2>2, ClaimIsNotNone
  <2>4. TypeOK'
    BY <1>1, <2>1, <2>2, <2>3 DEF IInv, TypeOK
  <2>5. QED
    BY <1>1, <2>1, <2>2, <2>3, <2>4 DEF IInv, References, TimeoutsOwed, ReportsOwed, Looks
<1>3. CASE ~on
  <2>1. claim' = [claim EXCEPT !.watchdog = FALSE, !.armed = None] /\ act' = Cancelled(act, claim.armed)
    BY <1>3 DEF set_watchdog
  <2>2. /\ claim' \in Claim /\ claim'.timer = claim.timer /\ claim'.armed = None
        /\ claim'.edges = claim.edges /\ claim'.reported = claim.reported
    BY <1>1, <2>1 DEF Claim
  <2>3. claim' # None
    BY <2>2, ClaimIsNotNone
  <2>4. /\ act' \in [Actors -> Act]
        /\ \A y \in Actors : y # claim.armed => act'[y] = act[y]
        /\ claim.armed # None => act'[claim.armed] \in {Idle, act[claim.armed]}
    BY <1>1, <2>1, CancelledType DEF IInv, References
  <2>5. TypeOK'
    BY <1>1, <2>2, <2>3, <2>4 DEF IInv, TypeOK
  <2>6. claim.timer # None => claim.timer # claim.armed /\ claim.timer \in Actors
    BY <1>1 DEF IInv, References, Actors
  <2>7. References'
    BY <1>1, <2>2, <2>4, <2>6 DEF IInv, References
  <2>8. \A y \in Actors : Looks(y) => y # claim.armed
    BY <1>1, NoneIsNoActor DEF IInv, References, Looks
  <2>9. \A y \in Actors : Looks(y) => Looks(y)'
    BY <2>4, <2>8 DEF Looks
  <2>10. QED
    BY <1>1, <2>2, <2>3, <2>5, <2>7, <2>9 DEF IInv, TimeoutsOwed, ReportsOwed
<1>4. QED
  BY <1>2, <1>3

-----------------------------------------------------------------------------
LEMMA StutterStep == IInv /\ UNCHANGED vars => IInv'
BY DEF IInv, vars, TypeOK, References, TimeoutsOwed, ReportsOwed, Looks

LEMMA StepInv == IInv /\ [Next]_vars => IInv'
<1> SUFFICES ASSUME IInv, [Next]_vars PROVE IInv'
  OBVIOUS
<1>1. CASE \E t \in Drivers : Change(t) \/ Driver(t)
  BY <1>1, ChangeStep, OnChangeStep, AlertStep, ReportStep DEF Driver, Actors
<1>2. CASE \E i \in Slots : Timer(i)
  BY <1>2, ExpireStep, AlertStep, TimeoutStep, ReportStep DEF Timer, Actors
<1>3. CASE Arming
  BY <1>3, ArmAlertStep DEF Arming
<1>4. CASE gpio_claim_input \/ gpio_claim_alert \/ gpio_free
  BY <1>4, ClaimLineStep, FreeStep DEF gpio_claim_input, gpio_claim_alert
<1>5. CASE \E on \in Settings : set_debounce(on) \/ set_watchdog(on)
  BY <1>5, DebounceStep, WatchdogStep
<1>6. CASE UNCHANGED vars
  BY <1>6, StutterStep
<1>7. QED
  BY <1>1, <1>2, <1>3, <1>4, <1>5, <1>6 DEF Next, Owner

LEMMA InvariantHolds == Spec => []IInv
BY InitInv, StepInv, PTL DEF Spec

(* The claim, its timers and the threads keep their types, and what acts   *)
(* for a claim, and is not stale, has one (the code's `claim.edge`s).      *)
THEOREM AlertsTypeCorrect == Spec => []TypeOK
BY InvariantHolds, PTL DEF IInv

(* One TIMEOUT at most follows an edge alert, with any number of timers.   *)
THEOREM AlertsAtMostOneTimeout == Spec => []AtMostOneTimeout
<1>1. IInv => AtMostOneTimeout
  BY DEF IInv, TimeoutsOwed, AtMostOneTimeout
<1>2. QED
  BY <1>1, InvariantHolds, PTL

(* When nothing is under way, the level reported last is the line's level. *)
THEOREM AlertsReportedIsCurrent == Spec => []ReportedIsCurrent
<1>1. IInv => ReportedIsCurrent
  BY DEF IInv, ReportsOwed, Looks, ReportedIsCurrent, Settled
<1>2. QED
  BY <1>1, InvariantHolds, PTL
-----------------------------------------------------------------------------
(* The edges told.  An alert records the level and puts one edge on its    *)
(* way; a report takes it off and tells it.  Nothing else says an edge.    *)

Quiet(a) == \A x \in Actors : a[x].says # "nothing" => a[x].at = "report"

Conserved ==
    /\ told \in Int
    /\ Quiet(act)
    /\ Counted => claim.reported \in Levels
    /\ AlertsConserved

(* Sets that differ in one element at most. *)
LEMMA OneElement ==
    ASSUME NEW S, NEW T, IsFiniteSet(S), NEW t, S \ {t} = T \ {t}
    PROVE  /\ Cardinality(S) \in Nat /\ Cardinality(T) \in Nat
           /\ Cardinality(T) = Cardinality(S) + (IF t \in T THEN 1 ELSE 0)
                                              - (IF t \in S THEN 1 ELSE 0)
<1> DEFINE U == S \ {t}
<1>1. IsFiniteSet(U) /\ Cardinality(S) \in Nat
  BY FS_RemoveElement, FS_CardinalityType
<1>2. U = T \ {t} /\ t \notin U
  OBVIOUS
<1>3. (t \in S => S = U \cup {t}) /\ (t \notin S => S = U)
  OBVIOUS
<1>4. (t \in T => T = U \cup {t}) /\ (t \notin T => T = U)
  BY <1>2
<1> HIDE DEF U
<1>5. Cardinality(U) \in Nat /\ Cardinality(U \cup {t}) = Cardinality(U) + 1
  BY <1>1, <1>2, FS_AddElement, FS_CardinalityType
<1>6. Cardinality(S) = Cardinality(U) + (IF t \in S THEN 1 ELSE 0)
  BY <1>3, <1>5
<1>7. Cardinality(T) = Cardinality(U) + (IF t \in T THEN 1 ELSE 0)
  <2>1. CASE t \in T
    BY <1>4, <1>5, <2>1
  <2>2. CASE t \notin T
    BY <1>4, <1>5, <2>2
  <2>3. QED
    BY <2>1, <2>2
<1>8. QED
  BY <1>1, <1>5, <1>6, <1>7

LEMMA SayingIsFinite == \A what : IsFiniteSet(Saying(what)) /\ Cardinality(Saying(what)) \in Nat
<1>1. IsFiniteSet(Actors)
  BY AlertsAssumption, FS_Union DEF Actors
<1>2. ASSUME NEW what PROVE IsFiniteSet(Saying(what)) /\ Cardinality(Saying(what)) \in Nat
  <2>1. Saying(what) \in SUBSET Actors
    BY DEF Saying
  <2>2. QED
    BY <1>1, <2>1, FS_Subset, FS_CardinalityType
<1>3. QED
  BY <1>2

LEMMA PendingType == Pending \in Int
BY SayingIsFinite DEF Pending

LEMMA WorthType == \A what : Worth(what) \in {-1, 0, 1}
BY DEF Worth

(* Only one actor says something else. *)
LEMMA PendingStep ==
    ASSUME NEW x \in Actors, \A y \in Actors \ {x} : act'[y].says = act[y].says
    PROVE  Pending' = Pending + Worth(act'[x].says) - Worth(act[x].says)
<1>1. ASSUME NEW what
      PROVE  /\ Cardinality(Saying(what)) \in Nat /\ Cardinality(Saying(what)') \in Nat
             /\ Cardinality(Saying(what)') = Cardinality(Saying(what))
                   + (IF act'[x].says = what THEN 1 ELSE 0)
                   - (IF act[x].says = what THEN 1 ELSE 0)
  <2> DEFINE S == Saying(what)
             T == Saying(what)'
  <2>1. IsFiniteSet(S)
    BY SayingIsFinite
  <2>2. S \ {x} = T \ {x}
    BY DEF Saying
  <2>3. (x \in S <=> act[x].says = what) /\ (x \in T <=> act'[x].says = what)
    BY DEF Saying
  <2> HIDE DEF S, T
  <2>4. /\ Cardinality(S) \in Nat /\ Cardinality(T) \in Nat
        /\ Cardinality(T) = Cardinality(S) + (IF x \in T THEN 1 ELSE 0) - (IF x \in S THEN 1 ELSE 0)
    BY <2>1, <2>2, OneElement
  <2>5. QED
    BY <2>3, <2>4 DEF S, T
<1> DEFINE rises == Cardinality(Saying("rise"))
           falls == Cardinality(Saying("fall"))
           before == act[x].says
           after == act'[x].says
<1>2. /\ rises \in Nat /\ rises' \in Nat /\ falls \in Nat /\ falls' \in Nat
      /\ rises' = rises + (IF after = "rise" THEN 1 ELSE 0) - (IF before = "rise" THEN 1 ELSE 0)
      /\ falls' = falls + (IF after = "fall" THEN 1 ELSE 0) - (IF before = "fall" THEN 1 ELSE 0)
  BY <1>1
<1>3. Pending = rises - falls /\ Pending' = rises' - falls'
  BY DEF Pending
<1> HIDE DEF rises, falls, before, after
<1>4. rises' - falls' = rises - falls + Worth(after) - Worth(before)
  BY <1>2 DEF Worth
<1>5. QED
  BY <1>3, <1>4 DEF before, after

(* The general step: what an actor says, what was told and what the claim  *)
(* has reported change together.                                           *)
LEMMA ConservedStep ==
    ASSUME Conserved, NEW x \in Actors, \A y \in Actors \ {x} : act'[y].says = act[y].says,
           Quiet(act'), told' \in Int,
           Counted' =>
              /\ Counted /\ claim'.reported \in Levels
              /\ told' - told + Worth(act'[x].says) - Worth(act[x].says)
                    = claim'.reported - claim.reported
    PROVE  Conserved'
<1> SUFFICES ASSUME Counted' PROVE claim'.reported \in Levels /\ told' + Pending' = claim'.reported
  BY DEF Conserved, AlertsConserved, Quiet
<1>1. /\ Pending' = Pending + Worth(act'[x].says) - Worth(act[x].says) /\ Pending \in Int
      /\ Worth(act'[x].says) \in Int /\ Worth(act[x].says) \in Int
  BY PendingStep, PendingType, WorthType
<1>2. told \in Int /\ told + Pending = claim.reported /\ claim.reported \in Int /\ claim'.reported \in Int
  BY DEF Conserved, AlertsConserved, Levels
<1> DEFINE before == Worth(act[x].says)
           after == Worth(act'[x].says)
           was == claim.reported
           is == claim'.reported
<1>3. /\ Pending' = Pending + after - before /\ before \in Int /\ after \in Int
      /\ told' - told + after - before = is - was /\ told + Pending = was /\ was \in Int /\ is \in Int
  BY <1>1, <1>2
<1> HIDE DEF before, after, was, is
<1>4. told' + Pending' = is
  BY <1>1, <1>2, <1>3
<1>5. QED
  BY <1>4 DEF is

(* Nobody says anything else: what is on its way stays. *)
LEMMA PendingStays ==
    ASSUME \A y \in Actors : act'[y].says = act[y].says
    PROVE  Pending' = Pending
<1>1. \A what : Saying(what)' = Saying(what)
  BY DEF Saying
<1>2. QED
  BY <1>1 DEF Pending

LEMMA QuietStep ==
    ASSUME Conserved, \A y \in Actors : act'[y].says = act[y].says,
           Quiet(act'), told' = told,
           Counted' => Counted /\ claim'.reported = claim.reported
    PROVE  Conserved'
<1>1. Pending' = Pending
  BY PendingStays
<1>2. QED
  BY <1>1 DEF Conserved, AlertsConserved, Quiet

LEMMA PlacesSay ==
    /\ Idle.says = "nothing" /\ \A p : At(p).says = "nothing"
    /\ \A what : Reporting(what).says = what /\ Reporting(what).at = "report"
BY DEF Idle, At, Reporting

(* A timer that is cancelled had nothing to say. *)
LEMMA CancelledQuiet ==
    ASSUME NEW a \in [Actors -> Act], NEW slot \in Slots \cup {None}, Quiet(a)
    PROVE  /\ \A y \in Actors : Cancelled(a, slot)[y].says = a[y].says
           /\ Quiet(Cancelled(a, slot))
<1>1. ASSUME NEW y \in Actors
      PROVE  /\ Cancelled(a, slot)[y].says = a[y].says
             /\ a[y].says # "nothing" => Cancelled(a, slot)[y].at = "report"
  <2>1. CASE y # slot \/ a[y].at \notin {"debounce", "watchdog"}
    <3>1. Cancelled(a, slot)[y] = a[y]
      BY <2>1, CancelledType, NoneIsNoActor
    <3>2. QED
      BY <3>1 DEF Quiet
  <2>2. CASE y = slot /\ a[y].at \in {"debounce", "watchdog"}
    <3>1. Cancelled(a, slot)[y] = Idle
      BY <2>2, CancelledType, NoneIsNoActor
    <3>2. a[y].says = "nothing"
      BY <2>2 DEF Quiet
    <3>3. QED
      BY <3>1, <3>2, PlacesSay
  <2>3. QED
    BY <2>1, <2>2
<1>2. QED
  BY <1>1 DEF Quiet

LEMMA OutdatedQuiet ==
    ASSUME TypeOK, Quiet(act)
    PROVE  Quiet(Outdated(act))
<1> DEFINE left == IF claim = None THEN act
                   ELSE Cancelled(Cancelled(act, claim.timer), claim.armed)
<1>1. left \in [Actors -> Act] /\ Quiet(left)
  <2>1. CASE claim = None
    BY <2>1 DEF TypeOK
  <2>2. CASE claim # None
    <3>1. claim.timer \in Slots \cup {None} /\ claim.armed \in Slots \cup {None}
      BY <2>2 DEF TypeOK, Claim
    <3>2. Cancelled(act, claim.timer) \in [Actors -> Act] /\ Quiet(Cancelled(act, claim.timer))
      BY <3>1, CancelledType, CancelledQuiet DEF TypeOK
    <3>3. QED
      BY <2>2, <3>1, <3>2, CancelledType, CancelledQuiet
  <2>3. QED
    BY <2>1, <2>2
<1>2. Outdated(act) =
        [x \in Actors |-> IF left[x].at \in ForTheClaim
                          THEN [left[x] EXCEPT !.stale = TRUE] ELSE left[x]]
  BY DEF Outdated
<1> HIDE DEF left
<1>3. ASSUME NEW x \in Actors
      PROVE  Outdated(act)[x].says = left[x].says /\ Outdated(act)[x].at = left[x].at
  BY <1>1, <1>2 DEF Act
<1>4. QED
  BY <1>1, <1>3 DEF Quiet

LEMMA ChangeConserves ==
    ASSUME IInv, Conserved, NEW t \in Drivers, Change(t)
    PROVE  Conserved'
<1>1. /\ t \in Actors /\ act' = [act EXCEPT ![t] = At("changed")] /\ act[t].at = "idle"
      /\ UNCHANGED <<claim, told>>
  BY DEF Change, Actors
<1>2. act'[t] = At("changed") /\ \A y \in Actors : y # t => act'[y] = act[y]
  BY <1>1 DEF IInv, TypeOK
<1>3. \A y \in Actors : act'[y].says = act[y].says
  BY <1>1, <1>2, PlacesSay DEF Conserved, Quiet
<1>4. Quiet(act')
  BY <1>2, PlacesSay DEF Conserved, Quiet
<1>5. QED
  BY <1>1, <1>3, <1>4, QuietStep DEF Counted

LEMMA OnChangeConserves ==
    ASSUME IInv, Conserved, NEW t \in Drivers, on_change(t)
    PROVE  Conserved'
<1>1. /\ t \in Actors /\ act[t].at = "changed" /\ act \in [Actors -> Act] /\ Quiet(act)
      /\ told' = told /\ act[t].says = "nothing"
  BY DEF on_change, Actors, IInv, TypeOK, Conserved, Quiet
<1>2. CASE (claim = None \/ claim.edges = {}) /\ act' = [act EXCEPT ![t] = Idle] /\ UNCHANGED claim
  <2>1. act'[t] = Idle /\ \A y \in Actors : y # t => act'[y] = act[y]
    BY <1>1, <1>2
  <2>2. \A y \in Actors : act'[y].says = act[y].says
    BY <1>1, <2>1, PlacesSay
  <2>3. Quiet(act')
    BY <1>1, <2>1, PlacesSay DEF Quiet
  <2>4. QED
    BY <1>1, <1>2, <2>2, <2>3, QuietStep DEF Counted
<1>3. CASE claim # None /\ claim.edges # {}
  <2> DEFINE left == Cancelled(act, claim.timer)
  <2>1. claim \in Claim /\ claim.timer \in Slots \cup {None}
    BY <1>3 DEF IInv, TypeOK, Claim
  <2>2. left \in [Actors -> Act] /\ Quiet(left) /\ \A y \in Actors : left[y].says = act[y].says
    BY <1>1, <2>1, CancelledType, CancelledQuiet
  <2> HIDE DEF left
  <2>3. CASE claim.debounce
    <3>1. PICK i \in FirstFree(left) : /\ act' = [left EXCEPT ![t] = Idle, ![i] = At("debounce")]
                                       /\ claim' = [claim EXCEPT !.timer = i]
      BY <1>3, <2>3 DEF on_change, left
    <3>2. i \in Actors /\ left[i].says = "nothing"
      BY <2>2, <3>1, FreeSlot DEF Quiet
    <3>3. \A y \in Actors : act'[y] = left[y] \/ (y \in {t, i} /\ act'[y] \in {Idle, At("debounce")})
      BY <1>1, <2>2, <3>1, <3>2
    <3>4. \A y \in Actors : act'[y].says = act[y].says
      BY <1>1, <2>2, <3>2, <3>3, PlacesSay
    <3>5. Quiet(act')
      BY <2>2, <3>3, PlacesSay DEF Quiet
    <3>6. Counted' => Counted /\ claim'.reported = claim.reported
      BY <1>3, <2>1, <3>1 DEF Counted, Claim
    <3>7. QED
      BY <1>1, <3>4, <3>5, <3>6, QuietStep
  <2>4. CASE ~claim.debounce
    <3>1. act' = [left EXCEPT ![t] = At("alert")] /\ claim' = [claim EXCEPT !.timer = None]
      BY <1>3, <2>4 DEF on_change, left
    <3>2. act'[t] = At("alert") /\ \A y \in Actors : y # t => act'[y] = left[y]
      BY <1>1, <2>2, <3>1
    <3>3. \A y \in Actors : act'[y].says = act[y].says
      BY <1>1, <2>2, <3>2, PlacesSay
    <3>4. Quiet(act')
      BY <2>2, <3>2, PlacesSay DEF Quiet
    <3>5. Counted' => Counted /\ claim'.reported = claim.reported
      BY <1>3, <2>1, <3>1 DEF Counted, Claim
    <3>6. QED
      BY <1>1, <3>3, <3>4, <3>5, QuietStep
  <2>5. QED
    BY <2>3, <2>4
<1>4. QED
  BY <1>2, <1>3 DEF on_change

LEMMA ExpireConserves ==
    ASSUME IInv, Conserved, NEW i \in Slots, Expire(i)
    PROVE  Conserved'
<1>1. i \in Actors /\ act \in [Actors -> Act] /\ told' = told
  BY DEF Expire, Actors, IInv, TypeOK
<1>2. PICK at \in {"alert", "timeout"} : act' = [act EXCEPT ![i].at = at]
  BY DEF Expire
<1>3. act'[i].says = act[i].says /\ act'[i].at = at /\ \A y \in Actors : y # i => act'[y] = act[y]
  BY <1>1, <1>2 DEF Act
<1>4. act[i].says = "nothing"
  BY <1>1 DEF Expire, Conserved, Quiet
<1>5. Quiet(act') /\ \A y \in Actors : act'[y].says = act[y].says
  BY <1>3, <1>4 DEF Conserved, Quiet
<1>6. Counted' => Counted /\ claim'.reported = claim.reported
  BY DEF Expire, Counted, IInv, TypeOK, Claim
<1>7. QED
  BY <1>1, <1>5, <1>6, QuietStep

LEMMA AlertConserves ==
    ASSUME IInv, Conserved, NEW x \in Actors, alert(x)
    PROVE  Conserved'
<1>1. /\ act[x].at = "alert" /\ act \in [Actors -> Act] /\ told' = told /\ told \in Int
      /\ Quiet(act) /\ act[x].says = "nothing" /\ level \in Levels
  BY DEF alert, IInv, TypeOK, Conserved, Quiet
<1>2. CASE act[x].stale \/ claim.edges = {} \/ level = claim.reported \/ level \notin claim.edges
  <2>1. act' = [act EXCEPT ![x] = Idle]
    BY <1>2 DEF alert
  <2>2. act'[x] = Idle /\ \A y \in Actors : y # x => act'[y] = act[y]
    BY <1>1, <2>1
  <2>3. Quiet(act') /\ \A y \in Actors : act'[y].says = act[y].says
    BY <1>1, <2>2, PlacesSay DEF Quiet
  <2>4. Counted' => Counted /\ claim'.reported = claim.reported
    <3>1. CASE UNCHANGED claim
      BY <3>1 DEF Counted
    <3>2. CASE claim' # claim
      <4>1. ~act[x].stale /\ level \notin claim.edges /\ claim' = [claim EXCEPT !.reported = level]
        BY <1>2, <3>2 DEF alert
      <4>2. claim \in Claim
        BY <1>1, <4>1 DEF IInv, TypeOK, ForTheClaim
      <4>3. claim'.edges = claim.edges
        BY <4>1, <4>2 DEF Claim
      <4>4. QED
        BY <1>1, <4>1, <4>3 DEF Counted
    <3>3. QED
      BY <3>1, <3>2
  <2>5. QED
    BY <1>1, <2>3, <2>4, QuietStep
<1>3. CASE ~(act[x].stale \/ claim.edges = {} \/ level = claim.reported \/ level \notin claim.edges)
  <2> DEFINE cleared == Cancelled(act, claim.armed)
             left == [cleared EXCEPT ![x] = Reporting(Edge(level))]
  <2>1. ~act[x].stale /\ claim.edges # {} /\ level # claim.reported /\ level \in claim.edges
    BY <1>3
  <2>2. claim # None /\ claim \in Claim /\ claim.armed \in Slots \cup {None}
    BY <1>1, <2>1 DEF IInv, TypeOK, ForTheClaim, Claim
  <2>3. cleared \in [Actors -> Act] /\ Quiet(cleared) /\ \A y \in Actors : cleared[y].says = act[y].says
    BY <1>1, <2>2, CancelledType, CancelledQuiet
  <2>4. \/ act' = left /\ claim' = [claim EXCEPT !.reported = level, !.armed = None]
        \/ \E i \in FirstFree(left) :
              /\ act' = [left EXCEPT ![i] = At("watchdog")]
              /\ claim' = [claim EXCEPT !.reported = level, !.armed = i]
    BY <2>1 DEF alert
  <2>5. /\ left \in [Actors -> Act] /\ left[x] = Reporting(Edge(level))
        /\ \A y \in Actors : y # x => left[y] = cleared[y]
    <3> HIDE DEF cleared
    <3>1. QED
      BY <2>3, PlacesType
  <2> HIDE DEF cleared, left
  <2>6. \A y \in Actors : act'[y] = left[y] \/ (left[y].at = "idle" /\ act'[y] = At("watchdog"))
    <3>1. CASE act' = left
      BY <3>1
    <3>2. CASE \E i \in FirstFree(left) : act' = [left EXCEPT ![i] = At("watchdog")]
      <4>1. PICK i \in FirstFree(left) : act' = [left EXCEPT ![i] = At("watchdog")]
        BY <3>2
      <4>2. i \in Actors /\ left[i].at = "idle"
        BY FreeSlot
      <4>3. QED
        BY <2>5, <4>1, <4>2
    <3>3. QED
      BY <2>4, <3>1, <3>2
  <2>7. Quiet(left)
    BY <2>3, <2>5, PlacesSay DEF Quiet
  <2>8. Quiet(act') /\ \A y \in Actors : act'[y].says = left[y].says
    BY <2>6, <2>7, PlacesSay DEF Quiet
  <2>9. act'[x].says = Edge(level) /\ \A y \in Actors \ {x} : act'[y].says = act[y].says
    BY <2>3, <2>5, <2>8, PlacesSay
  <2>10. claim'.reported = level /\ claim'.edges = claim.edges
    BY <2>2, <2>4 DEF Claim
  <2>11. ASSUME Counted'
         PROVE  /\ Counted /\ claim'.reported \in Levels
                /\ told' - told + Worth(act'[x].says) - Worth(act[x].says)
                      = claim'.reported - claim.reported
    <3>1. Counted /\ claim.reported \in Levels
      BY <2>2, <2>10, <2>11 DEF Counted, Conserved
    <3>2. Worth(Edge(level)) = level - claim.reported
      BY <1>1, <2>1, <3>1 DEF Worth, Edge, Levels
    <3>3. Worth(act'[x].says) = level - claim.reported /\ Worth(act[x].says) = 0
      BY <1>1, <2>9, <3>2 DEF Worth
    <3>4. level \in Int /\ claim.reported \in Int
      BY <1>1, <3>1 DEF Levels
    <3>5. QED
      BY <1>1, <2>10, <3>1, <3>3, <3>4
  <2>12. QED
    BY <1>1, <2>8, <2>9, <2>11, ConservedStep
<1>4. QED
  BY <1>2, <1>3

LEMMA TimeoutConserves ==
    ASSUME IInv, Conserved, NEW i \in Slots, timeout(i)
    PROVE  Conserved'
<1>1. /\ i \in Actors /\ act[i].at = "timeout" /\ act \in [Actors -> Act] /\ told' = told /\ told \in Int
      /\ Quiet(act) /\ act[i].says = "nothing"
  BY DEF timeout, Actors, IInv, TypeOK, Conserved, Quiet
<1>2. act'[i] \in {Idle, Reporting("timeout")} /\ \A y \in Actors \ {i} : act'[y] = act[y]
  BY <1>1 DEF timeout
<1>3. Quiet(act')
  BY <1>1, <1>2, PlacesSay DEF Quiet
<1>4. Counted' => Counted /\ claim'.reported = claim.reported
  <2>1. CASE UNCHANGED claim
    BY <2>1 DEF Counted
  <2>2. CASE claim' # claim
    <3>1. claim' = [claim EXCEPT !.armed = None] /\ claim \in Claim /\ claim # None
      BY <1>1, <2>2 DEF timeout, IInv, TypeOK, ForTheClaim
    <3>2. QED
      BY <3>1 DEF Counted, Claim
  <2>3. QED
    BY <2>1, <2>2
<1>5. Worth(act'[i].says) = 0 /\ Worth(act[i].says) = 0
  BY <1>1, <1>2, PlacesSay DEF Worth
<1>6. ASSUME Counted'
      PROVE  /\ Counted /\ claim'.reported \in Levels
             /\ told' - told + Worth(act'[i].says) - Worth(act[i].says)
                   = claim'.reported - claim.reported
  <2>1. Counted /\ claim'.reported = claim.reported /\ claim.reported \in Levels
    BY <1>4, <1>6 DEF Conserved
  <2>2. claim.reported \in Int
    BY <2>1 DEF Levels
  <2>3. QED
    BY <1>1, <1>5, <2>1, <2>2
<1>7. QED
  BY <1>1, <1>2, <1>3, <1>6, ConservedStep

LEMMA ReportConserves ==
    ASSUME IInv, Conserved, NEW x \in Actors, report(x)
    PROVE  Conserved'
<1>1. /\ act \in [Actors -> Act] /\ told \in Int /\ Quiet(act) /\ act' = [act EXCEPT ![x] = Idle]
      /\ told' = (IF Counted THEN told + Worth(act[x].says) ELSE 0) /\ claim' = claim
  BY DEF report, IInv, TypeOK, Conserved
<1>2. act'[x] = Idle /\ \A y \in Actors : y # x => act'[y] = act[y]
  BY <1>1
<1>3. Quiet(act')
  BY <1>1, <1>2, PlacesSay DEF Quiet
<1>4. Worth(act'[x].says) = 0 /\ Worth(act[x].says) \in Int
  <2>1. Worth(act'[x].says) = 0
    BY <1>2, PlacesSay DEF Worth
  <2>2. QED
    BY <2>1, WorthType
<1> DEFINE said == Worth(act[x].says)
<1>5. said \in Int /\ told' = IF Counted THEN told + said ELSE 0
  BY <1>1, <1>4
<1> HIDE DEF said
<1>6. told' \in Int
  BY <1>1, <1>5
<1>7. ASSUME Counted'
      PROVE  /\ Counted /\ claim'.reported \in Levels
             /\ told' - told + Worth(act'[x].says) - said = claim'.reported - claim.reported
  <2>1. Counted /\ claim'.reported = claim.reported /\ claim.reported \in Levels
    BY <1>1, <1>7 DEF Conserved, Counted
  <2>2. claim.reported \in Int
    BY <2>1 DEF Levels
  <2>3. QED
    BY <1>1, <1>4, <1>5, <2>1, <2>2
<1>8. QED
  BY <1>2, <1>3, <1>6, <1>7, ConservedStep DEF said

LEMMA ClaimLineConserves ==
    ASSUME IInv, Conserved, ClaimLine("idle") \/ ClaimLine("arming") \/ gpio_free
    PROVE  Conserved'
<1>1. told' = 0 /\ act' = Outdated(act)
  BY DEF ClaimLine, gpio_free
<1>2. claim' = None \/ claim'.edges = {}
  <2>1. NewClaim.edges = {}
    BY DEF NewClaim
  <2>2. QED
    BY <2>1 DEF ClaimLine, gpio_free
<1>3. ~Counted'
  BY <1>2 DEF Counted, Levels
<1>4. Quiet(act')
  BY <1>1, OutdatedQuiet DEF IInv, Conserved
<1>5. QED
  BY <1>1, <1>3, <1>4 DEF Conserved, AlertsConserved, Quiet

LEMMA ArmAlertConserves ==
    ASSUME IInv, Conserved, NEW edges \in Edges, ArmAlert(edges)
    PROVE  Conserved'
<1>1. claim # None /\ claim \in Claim /\ level \in Levels /\ level \in Int
  BY DEF ArmAlert, IInv, TypeOK, Levels
<1>2. /\ claim' = [claim EXCEPT !.edges = edges, !.reported = level] /\ UNCHANGED act
      /\ told' = (IF edges = Levels THEN level - Pending ELSE 0)
  BY DEF ArmAlert
<1>3. claim'.edges = edges /\ claim'.reported = level
  BY <1>1, <1>2 DEF Claim
<1>4. Pending' = Pending /\ Pending \in Int
  BY <1>2, PendingStays, PendingType
<1>5. told' \in Int
  BY <1>1, <1>2, <1>4
<1>6. Counted' => told' + Pending' = claim'.reported
  BY <1>1, <1>2, <1>3, <1>4 DEF Counted
<1>7. QED
  BY <1>1, <1>2, <1>3, <1>5, <1>6 DEF Conserved, AlertsConserved, Quiet

LEMMA SettingConserves ==
    ASSUME IInv, Conserved, NEW on \in Settings, set_debounce(on) \/ set_watchdog(on)
    PROVE  Conserved'
<1>1. /\ claim # None /\ claim \in Claim /\ act \in [Actors -> Act] /\ told' = told /\ Quiet(act)
      /\ claim.armed \in Slots \cup {None}
  BY DEF set_debounce, set_watchdog, IInv, TypeOK, Claim, Conserved
<1>2. claim'.reported = claim.reported /\ claim'.edges = claim.edges
  BY <1>1 DEF set_debounce, set_watchdog, Claim
<1>3. act' = act \/ act' = Cancelled(act, claim.armed)
  BY DEF set_debounce, set_watchdog
<1>4. Quiet(act') /\ \A y \in Actors : act'[y].says = act[y].says
  BY <1>1, <1>3, CancelledQuiet
<1>5. QED
  BY <1>1, <1>2, <1>4, QuietStep DEF Counted

LEMMA StepConserves == IInv /\ Conserved /\ [Next]_vars => Conserved'
<1> SUFFICES ASSUME IInv, Conserved, [Next]_vars PROVE Conserved'
  OBVIOUS
<1>1. CASE \E t \in Drivers : Change(t) \/ Driver(t)
  BY <1>1, ChangeConserves, OnChangeConserves, AlertConserves, ReportConserves DEF Driver, Actors
<1>2. CASE \E i \in Slots : Timer(i)
  BY <1>2, ExpireConserves, AlertConserves, TimeoutConserves, ReportConserves DEF Timer, Actors
<1>3. CASE Arming
  BY <1>3, ArmAlertConserves DEF Arming
<1>4. CASE gpio_claim_input \/ gpio_claim_alert \/ gpio_free
  BY <1>4, ClaimLineConserves DEF gpio_claim_input, gpio_claim_alert
<1>5. CASE \E on \in Settings : set_debounce(on) \/ set_watchdog(on)
  BY <1>5, SettingConserves
<1>6. CASE UNCHANGED vars
  BY <1>6, QuietStep DEF vars, Conserved, Quiet, Counted
<1>7. QED
  BY <1>1, <1>2, <1>3, <1>4, <1>5, <1>6 DEF Next, Owner

LEMMA InitConserves == Init => Conserved
BY PlacesSay DEF Init, Conserved, AlertsConserved, Quiet, Counted

(* With both edges claimed, no edge alert is lost or doubled between the   *)
(* lock and the callbacks, however many drivers, debounce timers, reclaims *)
(* and settings interleave: told and on their way, they add up to the      *)
(* level last reported.                                                    *)
THEOREM AlertsAreConserved == Spec => []AlertsConserved
<1>1. Init => IInv /\ Conserved
  BY InitInv, InitConserves
<1>2. IInv /\ Conserved /\ [Next]_vars => (IInv /\ Conserved)'
  BY StepInv, StepConserves
<1>3. Conserved => AlertsConserved
  BY DEF Conserved
<1>4. QED
  BY <1>1, <1>2, <1>3, PTL DEF Spec
=============================================================================
