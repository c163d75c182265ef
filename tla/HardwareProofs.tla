---------------------------- MODULE HardwareProofs ----------------------------
(***************************************************************************)
(* What holds of RPi.GPIO and lgpio's notification pipes for any threads,  *)
(* programs, settings and sizes, and, with what GpiodProofs and            *)
(* BoardProofs show of the other components, of all the hardware.          *)
(***************************************************************************)
EXTENDS Hardware, FiniteSetTheorems, SequenceTheorems, TLAPS

Alert == [edge : Edges, callbacks : SUBSET (Threads \cup {User}), detected : BOOLEAN,
          by : Threads \cup {None}, taken : BOOLEAN]

(* The script's callback and None are no threads, and None is no object.   *)
Sensible ==
    /\ User \notin Threads /\ None \notin Threads
    /\ None \notin Alerts /\ None \notin Alert /\ None \notin Duties /\ None # "output"

Pin == [function : {"input", "output", None}, level : {0, 1}, pwm : Duties \cup {None}]

Pwm == [kept : BOOLEAN, running : BOOLEAN, duty : Duties \cup {None}]

Arguments == Alerts \cup Duties \cup {"input", "output", 0, 1, None}

Places == {"idle", "setup", "changed", "calling", "wait", "set_pwm", "release"}

Types ==
    /\ pin \in Pin
    /\ current \in Alerts \cup {None}
    /\ alert \in [Alerts -> Alert \cup {None}]
    /\ pwm \in [Objects -> Pwm]
    /\ pc \in [Threads \cup Drivers -> Places]
    /\ arg \in [Threads \cup Drivers -> Arguments]
    /\ seen \in [Threads -> BOOLEAN]
    /\ calls \in [Drivers -> SUBSET (Threads \cup {User})]
    /\ \A t \in Threads : /\ pc[t] = "setup" => arg[t] \in {"input", "output"}
                          /\ pc[t] = "set_pwm" => arg[t] \in Duties
                          /\ pc[t] = "wait" => arg[t] \in Alerts /\ alert[arg[t]] \in Alert
    /\ current # None => alert[current] \in Alert

(* The alert that the channel has was not taken from its waiters, and each *)
(* wait has an alert of its own.                                           *)
Apart ==
    /\ current # None => ~alert[current].taken
    /\ \A t, u \in Threads : pc[t] = "wait" /\ pc[u] = "wait" /\ t # u => arg[t] # arg[u]

Inv == Types /\ WaitsKeepToThemselves /\ Apart

LEMMA InitInv == ASSUME Sensible, Init PROVE Inv
BY DEF Sensible, Init, Inv, Types, Pin, Pwm, NewObject, Arguments, Places, WaitsKeepToThemselves,
       Apart

LEMMA StoppedIsPin == ASSUME pin \in Pin PROVE Stopped \in Pin
BY DEF Pin, Stopped

-----------------------------------------------------------------------------
(* Steps that leave the waits alone: alerts stay what they are, but for    *)
(* what was detected, and for callbacks of the script's own.               *)
SameAlerts ==
    /\ UNCHANGED current
    /\ alert' \in [Alerts -> Alert \cup {None}]
    /\ \A a \in Alerts : alert[a] \in Alert =>
        /\ alert'[a] \in Alert
        /\ alert'[a].by = alert[a].by /\ alert'[a].taken = alert[a].taken
        /\ alert'[a].callbacks \ {User} = alert[a].callbacks \ {User}

SameWaits ==
    \A t \in Threads : /\ pc'[t] = "wait" <=> pc[t] = "wait"
                       /\ pc[t] = "wait" => arg'[t] = arg[t]

LEMMA AlertsAlone ==
    ASSUME Sensible, Inv, SameAlerts, SameWaits
    PROVE  /\ WaitsKeepToThemselves' /\ Apart'
           /\ current' # None => alert'[current'] \in Alert
           /\ \A t \in Threads : pc'[t] = "wait" => arg'[t] \in Alerts /\ alert'[arg'[t]] \in Alert
<1>1. current # None => current \in Alerts /\ alert[current] \in Alert
  BY DEF Inv, Types
<1>2. \A t \in Threads : pc[t] = "wait" => arg[t] \in Alerts /\ alert[arg[t]] \in Alert
  BY DEF Inv, Types
<1>3. \A t \in Threads : t # User
  BY DEF Sensible
<1>4. \A a \in Alerts, t \in Threads : alert[a] \in Alert =>
         (t \in alert'[a].callbacks <=> t \in alert[a].callbacks)
  BY <1>3 DEF SameAlerts
<1>5. WaitsKeepToThemselves'
  <2>1. ASSUME NEW t \in Threads, pc'[t] = "wait"
        PROVE  \/ current' = arg'[t] /\ t \in alert'[current'].callbacks
               \/ alert'[arg'[t]].taken
    <3>1. \/ current = arg[t] /\ t \in alert[current].callbacks
          \/ alert[arg[t]].taken
      BY <2>1 DEF Inv, WaitsKeepToThemselves, SameWaits
    <3>2. arg'[t] = arg[t] /\ arg[t] \in Alerts /\ alert[arg[t]] \in Alert
      BY <1>2, <2>1 DEF SameWaits
    <3>3. QED
      BY <1>4, <3>1, <3>2 DEF SameAlerts
  <2>2. ASSUME current' # None, NEW t \in Threads,
               t = alert'[current'].by \/ t \in alert'[current'].callbacks
        PROVE  pc'[t] = "wait" /\ arg'[t] = current'
    <3>1. current' = current /\ current \in Alerts /\ alert[current] \in Alert
      BY <1>1, <2>2 DEF SameAlerts
    <3>2. t = alert[current].by \/ t \in alert[current].callbacks
      BY <1>4, <2>2, <3>1 DEF SameAlerts
    <3>3. QED
      BY <2>2, <3>1, <3>2 DEF Inv, WaitsKeepToThemselves, SameWaits
  <2>3. QED
    BY <2>1, <2>2 DEF WaitsKeepToThemselves
<1>6. Apart'
  BY <1>1 DEF Inv, Apart, SameAlerts, SameWaits
<1>7. QED
  BY <1>1, <1>2, <1>5, <1>6 DEF SameAlerts, SameWaits

(* Steps that take the channel's alert away: its waiter, if there is one,  *)
(* keeps it.                                                               *)
LEMMA AlertRemoved ==
    ASSUME Sensible, Inv, current' = None, alert' = Removed, SameWaits
    PROVE  /\ alert' \in [Alerts -> Alert \cup {None}]
           /\ WaitsKeepToThemselves' /\ Apart'
           /\ \A t \in Threads : pc'[t] = "wait" => arg'[t] \in Alerts /\ alert'[arg'[t]] \in Alert
<1>1. Types
  BY DEF Inv
<1>2. CASE current = None
  <2>1. SameAlerts
    <3>1. alert' = alert /\ current' = current
      BY <1>2 DEF Removed
    <3>2. alert \in [Alerts -> Alert \cup {None}]
      BY <1>1 DEF Types
    <3>3. QED
      BY <3>1, <3>2 DEF SameAlerts
  <2>2. QED
    BY <2>1, AlertsAlone DEF SameAlerts
<1>3. CASE current # None /\ Waits(current) = {}
  <2>1. current \in Alerts /\ alert' = [alert EXCEPT ![current] = None]
    BY <1>1, <1>3 DEF Types, Removed
  <2>2. ASSUME NEW t \in Threads, pc'[t] = "wait"
        PROVE  arg'[t] = arg[t] /\ arg[t] \in Alerts /\ alert'[arg[t]] = alert[arg[t]]
               /\ alert[arg[t]] \in Alert /\ alert[arg[t]].taken
    <3>1. pc[t] = "wait" /\ arg'[t] = arg[t] /\ arg[t] # current
      BY <1>3, <2>2 DEF SameWaits, Waits
    <3>2. QED
      BY <1>1, <2>1, <3>1 DEF Types, Inv, WaitsKeepToThemselves
  <2>3. alert' \in [Alerts -> Alert \cup {None}]
    BY <1>1, <2>1 DEF Types
  <2>4. Apart'
    BY DEF Inv, Apart, SameWaits
  <2>5. QED
    BY <2>2, <2>3, <2>4 DEF WaitsKeepToThemselves
<1>4. CASE current # None /\ Waits(current) # {}
  <2> DEFINE new == [alert[current] EXCEPT !.taken = TRUE]
  <2>1. current \in Alerts /\ alert[current] \in Alert /\ alert' = [alert EXCEPT ![current] = new]
    BY <1>1, <1>4 DEF Types, Removed
  <2>2. new \in Alert /\ new.taken
    BY <2>1 DEF Alert
  <2> HIDE DEF new
  <2>3. alert' \in [Alerts -> Alert \cup {None}]
    BY <1>1, <2>1, <2>2 DEF Types
  <2>4. ASSUME NEW t \in Threads, pc'[t] = "wait"
        PROVE  arg'[t] = arg[t] /\ arg[t] \in Alerts /\ alert'[arg[t]] \in Alert /\ alert'[arg[t]].taken
    <3>1. pc[t] = "wait" /\ arg'[t] = arg[t] /\ arg[t] \in Alerts /\ alert[arg[t]] \in Alert
      BY <1>1, <2>4 DEF SameWaits, Types
    <3>2. arg[t] # current => alert[arg[t]].taken
      BY <3>1 DEF Inv, WaitsKeepToThemselves
    <3>3. alert'[arg[t]] = IF arg[t] = current THEN new ELSE alert[arg[t]]
      BY <1>1, <2>1, <3>1 DEF Types
    <3>4. QED
      BY <2>2, <3>1, <3>2, <3>3
  <2>5. Apart'
    BY DEF Inv, Apart, SameWaits
  <2>6. QED
    BY <2>3, <2>4, <2>5 DEF WaitsKeepToThemselves
<1>5. QED
  BY <1>2, <1>3, <1>4

(* The type of what the waits know nothing of.                             *)
Rest ==
    /\ pin \in Pin
    /\ pwm \in [Objects -> Pwm]
    /\ pc \in [Threads \cup Drivers -> Places]
    /\ arg \in [Threads \cup Drivers -> Arguments]
    /\ seen \in [Threads -> BOOLEAN]
    /\ calls \in [Drivers -> SUBSET (Threads \cup {User})]
    /\ \A t \in Threads : /\ pc[t] = "setup" => arg[t] \in {"input", "output"}
                          /\ pc[t] = "set_pwm" => arg[t] \in Duties

LEMMA AloneInv ==
    ASSUME Sensible, Inv, SameAlerts, SameWaits, Rest'
    PROVE  Inv'
<1>1. current' \in Alerts \cup {None}
  BY DEF Inv, Types, SameAlerts
<1>2. QED
  BY <1>1, AlertsAlone DEF Inv, Types, Rest, SameAlerts

LEMMA RemovedInv ==
    ASSUME Sensible, Inv, current' = None, alert' = Removed, SameWaits, Rest'
    PROVE  Inv'
BY AlertRemoved DEF Inv, Types, Rest

LEMMA KeptAlerts == ASSUME Inv, UNCHANGED <<current, alert>> PROVE SameAlerts
BY DEF Inv, Types, SameAlerts

(* One thread's statement that is not about waits. *)
LEMMA StepWaits ==
    ASSUME Inv, NEW t \in Threads \cup Drivers, NEW place, pc[t] # "wait", place # "wait",
           pc' = [pc EXCEPT ![t] = place], NEW value, arg' = [arg EXCEPT ![t] = value]
    PROVE  SameWaits
BY DEF Inv, Types, SameWaits

(* What PWM does with its objects keeps them objects. *)
LEMMA ObjectKept ==
    ASSUME pwm \in [Objects -> Pwm], NEW o \in Objects, NEW object \in Pwm,
           pwm' = [pwm EXCEPT ![o] = object]
    PROVE  pwm' \in [Objects -> Pwm]
OBVIOUS

LEMMA NewObjects ==
    ASSUME NEW duty \in Duties
    PROVE  /\ NewObject \in Pwm /\ ~NewObject.running
           /\ [NewObject EXCEPT !.kept = TRUE, !.duty = duty] \in Pwm
BY DEF Pwm, NewObject

LEMMA ObjectSet ==
    ASSUME NEW object \in Pwm, NEW duty \in Duties, NEW begin \in BOOLEAN
    PROVE  LET new == [object EXCEPT !.duty = duty, !.running = begin \/ object.running]
           IN  new \in Pwm /\ new.duty = duty /\ (new.running <=> begin \/ object.running)
<1>1. (begin \/ object.running) \in BOOLEAN
  OBVIOUS
<1>2. ASSUME NEW running \in BOOLEAN
      PROVE  LET new == [object EXCEPT !.duty = duty, !.running = running]
             IN  new \in Pwm /\ new.duty = duty /\ new.running = running
  BY DEF Pwm
<1> DEFINE runs == begin \/ object.running
<1>3. runs \in BOOLEAN
  BY <1>1
<1> HIDE DEF runs
<1>4. LET new == [object EXCEPT !.duty = duty, !.running = runs]
      IN  new \in Pwm /\ new.duty = duty /\ new.running = runs
  BY <1>2, <1>3
<1>5. QED
  BY <1>4 DEF runs

(* The steps of PWM, and the last of setup(). *)
PinSteps(t) ==
    \/ setup_pin(t) \/ set_pwm(t)
    \/ \E o \in Objects : stop(t, o) \/ drop(t, o)
    \/ \E o \in Objects, duty \in Duties :
           NewPWM(t, o, duty) \/ \E begin \in BOOLEAN : Change(t, o, duty, begin)

LEMMA ScriptPinsInv ==
    ASSUME Sensible, Inv, NEW t \in Threads,
           PinSteps(t) \/ release(t) \/ \E level \in {0, 1} : output(t, level)
    PROVE  Inv'
<1>1. Rest /\ t \in Threads \cup Drivers
  BY DEF Inv, Types, Rest
<1>2. UNCHANGED <<current, alert, seen, calls>>
  BY DEF PinSteps, setup_pin, set_pwm, stop, drop, release, output, NewPWM, Change
<1>3. PICK place \in Places \ {"wait", "setup"}, value \in Arguments :
          /\ pc' = [pc EXCEPT ![t] = place] /\ arg' = [arg EXCEPT ![t] = value]
          /\ pc[t] # "wait" /\ (place = "set_pwm" => value \in Duties)
  <2>1. /\ pc[t] # "wait" /\ pc[t] \in Places /\ arg[t] \in Arguments
        /\ pc = [pc EXCEPT ![t] = pc[t]] /\ arg = [arg EXCEPT ![t] = arg[t]]
        /\ {"idle", "set_pwm"} \subseteq Places \ {"wait", "setup"}
        /\ Duties \subseteq Arguments /\ None \in Arguments
    BY <1>1 DEF PinSteps, Rest, Places, Arguments, setup_pin, set_pwm, stop, drop, release, output,
               NewPWM, Change, Uses
  <2>2. CASE UNCHANGED <<pc, arg>>
    <3>1. pc'[t] = pc[t]
      BY <2>2
    <3>2. pc[t] = "idle"
      BY <1>1, <3>1 DEF Rest, PinSteps, setup_pin, set_pwm, stop, drop, release, output, NewPWM,
                        Change, Uses
    <3>3. QED
      BY <2>1, <2>2, <3>2
  <2>3. CASE setup_pin(t) \/ set_pwm(t)
    BY <2>1, <2>3 DEF setup_pin, set_pwm
  <2>4. CASE release(t)
    BY <1>1, <2>1, <2>4 DEF release
  <2>5. ASSUME NEW o \in Objects, NEW duty \in Duties, NEW begin \in BOOLEAN,
               Change(t, o, duty, begin), ~UNCHANGED <<pc, arg>>
        PROVE  pc' = [pc EXCEPT ![t] = "set_pwm"] /\ arg' = [arg EXCEPT ![t] = duty]
    BY <2>5 DEF Change
  <2>6. CASE \E level \in {0, 1} : output(t, level)
    BY <2>2, <2>6 DEF output
  <2>7. ASSUME NEW o \in Objects, NEW duty \in Duties,
               NewPWM(t, o, duty) \/ stop(t, o) \/ drop(t, o)
        PROVE  UNCHANGED <<pc, arg>>
    BY <2>7 DEF NewPWM, stop, drop
  <2>8. ASSUME NEW o \in Objects, stop(t, o) \/ drop(t, o)
        PROVE  UNCHANGED <<pc, arg>>
    BY <2>8 DEF stop, drop
  <2>9. ASSUME NEW duty \in Duties, pc' = [pc EXCEPT ![t] = "set_pwm"],
               arg' = [arg EXCEPT ![t] = duty]
        PROVE  \E place \in Places \ {"wait", "setup"}, value \in Arguments :
                   /\ pc' = [pc EXCEPT ![t] = place] /\ arg' = [arg EXCEPT ![t] = value]
                   /\ pc[t] # "wait" /\ (place = "set_pwm" => value \in Duties)
    BY <2>1, <2>9
  <2>10. ASSUME NEW o \in Objects, NEW duty \in Duties, NEW begin \in BOOLEAN,
                Change(t, o, duty, begin)
         PROVE  \E place \in Places \ {"wait", "setup"}, value \in Arguments :
                   /\ pc' = [pc EXCEPT ![t] = place] /\ arg' = [arg EXCEPT ![t] = value]
                   /\ pc[t] # "wait" /\ (place = "set_pwm" => value \in Duties)
    BY <2>2, <2>5, <2>9, <2>10
  <2>11. QED
    BY <2>2, <2>3, <2>4, <2>6, <2>7, <2>8, <2>10 DEF PinSteps
<1>4. \A f \in {"input", "output", None}, l \in {0, 1}, p \in Duties \cup {None} :
         /\ [pin EXCEPT !.function = f, !.pwm = p] \in Pin
         /\ [pin EXCEPT !.level = l] \in Pin
         /\ [pin EXCEPT !.pwm = p] \in Pin
         /\ [pin EXCEPT !.pwm = p, !.level = l] \in Pin
  BY <1>1 DEF Rest, Pin
<1>5. pin' \in Pin
  <2>1. pin.pwm \in Duties \cup {None} /\ pin \in Pin
    BY <1>1 DEF Rest, Pin
  <2>2. CASE setup_pin(t)
    <3>1. arg[t] \in {"input", "output"}
      BY <1>1, <2>2 DEF setup_pin, Rest
    <3>2. QED
      BY <1>4, <2>1, <2>2, <3>1 DEF setup_pin
  <2>3. CASE set_pwm(t)
    <3>1. pin' = [pin EXCEPT !.pwm = arg[t]] \/ pin' = [pin EXCEPT !.pwm = pin.pwm]
      BY <2>3 DEF set_pwm
    <3>2. arg[t] \in Duties
      BY <1>1, <2>3 DEF set_pwm, Rest
    <3>3. QED
      BY <1>4, <2>1, <3>1, <3>2
  <2>4. CASE pin' = Stopped
    BY <2>1, <2>4, StoppedIsPin
  <2>5. CASE release(t)
    BY <1>4, <2>5 DEF release
  <2>6. CASE \E level \in {0, 1} : output(t, level)
    BY <1>4, <2>6 DEF output
  <2>7. CASE pin' = pin
    BY <2>1, <2>7
  <2>8. QED
    BY <2>2, <2>3, <2>4, <2>5, <2>6, <2>7 DEF PinSteps, NewPWM, Change, stop, drop
<1>6. pwm' \in [Objects -> Pwm]
  <2>1. pwm \in [Objects -> Pwm]
    BY <1>1 DEF Rest
  <2>2. ASSUME NEW o \in Objects, stop(t, o) \/ drop(t, o)
        PROVE  pwm' \in [Objects -> Pwm]
    <3>1. CASE stop(t, o)
      <4>1. pwm' = [pwm EXCEPT ![o] = [pwm[o] EXCEPT !.running = FALSE]]
        BY <3>1 DEF stop
      <4>2. [pwm[o] EXCEPT !.running = FALSE] \in Pwm
        BY <2>1 DEF Pwm
      <4>3. QED
        BY <2>1, <4>1, <4>2, ObjectKept
    <3>2. CASE drop(t, o)
      <4>1. NewObject \in Pwm /\ pwm' = [pwm EXCEPT ![o] = NewObject]
        BY <3>2 DEF drop, NewObject, Pwm
      <4>2. QED
        BY <2>1, <4>1, ObjectKept
    <3>3. QED
      BY <2>2, <3>1, <3>2
  <2>3. ASSUME NEW o \in Objects, NEW duty \in Duties, NewPWM(t, o, duty)
        PROVE  pwm' \in [Objects -> Pwm]
    <3> DEFINE new == [NewObject EXCEPT !.kept = TRUE, !.duty = duty]
    <3>1. new \in Pwm /\ pwm' = [pwm EXCEPT ![o] = new]
      BY <2>3, NewObjects DEF NewPWM
    <3> HIDE DEF new
    <3>2. QED
      BY <2>1, <3>1, ObjectKept
  <2>4. ASSUME NEW o \in Objects, NEW duty \in Duties, NEW begin \in BOOLEAN,
               Change(t, o, duty, begin)
        PROVE  pwm' \in [Objects -> Pwm]
    <3> DEFINE new == [pwm[o] EXCEPT !.duty = duty, !.running = begin \/ pwm[o].running]
    <3>1. pwm[o] \in Pwm /\ pwm' = [pwm EXCEPT ![o] = new]
      <4>1. pwm[o] \in Pwm
        BY <2>1
      <4>2. pwm' = [pwm EXCEPT ![o] = new]
        BY <2>4, Zenon DEF Change
      <4>3. QED
        BY <4>1, <4>2
    <3>2. new \in Pwm
      BY <3>1, ObjectSet
    <3> HIDE DEF new
    <3>3. QED
      BY <2>1, <3>1, <3>2, ObjectKept
  <2>5. CASE pwm' = pwm
    BY <2>1, <2>5
  <2>6. QED
    BY <2>2, <2>3, <2>4, <2>5 DEF PinSteps, setup_pin, set_pwm, release, output
<1>7. SameWaits
  <2>1. place # "wait"
    BY <1>3
  <2>2. QED
    BY <1>1, <1>3, <2>1, StepWaits
<1>8. /\ pc' \in [Threads \cup Drivers -> Places]
      /\ arg' \in [Threads \cup Drivers -> Arguments]
      /\ \A u \in Threads : /\ pc'[u] = "setup" => pc[u] = "setup" /\ arg'[u] = arg[u]
                            /\ pc'[u] = "set_pwm" => arg'[u] \in Duties
  BY <1>1, <1>3 DEF Rest
<1>9. Rest'
  BY <1>1, <1>2, <1>5, <1>6, <1>8 DEF Rest
<1>10. QED
  BY <1>2, <1>7, <1>9, KeptAlerts, AloneInv

LEMMA ScriptAlertsInv ==
    ASSUME Sensible, Inv, NEW t \in Threads, add_event_callback(t) \/ event_detected(t)
    PROVE  Inv'
<1>1. Rest /\ current \in Alerts /\ alert[current] \in Alert
  BY DEF Inv, Types, Rest, add_event_callback, event_detected
<1>2. PICK new \in Alert : /\ alert' = [alert EXCEPT ![current] = new]
                           /\ new.by = alert[current].by /\ new.taken = alert[current].taken
                           /\ new.callbacks \ {User} = alert[current].callbacks \ {User}
  <2>1. CASE add_event_callback(t)
    <3> DEFINE new == [alert[current] EXCEPT !.callbacks = @ \cup {User}]
    <3>1. /\ new \in Alert /\ new.by = alert[current].by /\ new.taken = alert[current].taken
          /\ new.callbacks = alert[current].callbacks \cup {User}
      BY <1>1 DEF Alert
    <3>2. alert' = [alert EXCEPT ![current] = new]
      BY <2>1 DEF add_event_callback
    <3> HIDE DEF new
    <3>3. QED
      BY <3>1, <3>2
  <2>2. CASE event_detected(t)
    <3> DEFINE new == [alert[current] EXCEPT !.detected = FALSE]
    <3>1. /\ new \in Alert /\ new.by = alert[current].by /\ new.taken = alert[current].taken
          /\ new.callbacks = alert[current].callbacks
      BY <1>1 DEF Alert
    <3>2. alert' = [alert EXCEPT ![current] = new]
      BY <2>2 DEF event_detected
    <3> HIDE DEF new
    <3>3. QED
      BY <3>1, <3>2
  <2>3. QED
    BY <2>1, <2>2
<1>3. UNCHANGED <<pin, current, pwm, pc, arg, seen, calls>>
  BY DEF add_event_callback, event_detected
<1>4. SameAlerts
  BY <1>1, <1>2, <1>3 DEF SameAlerts, Inv, Types
<1>5. SameWaits /\ Rest'
  BY <1>1, <1>3 DEF SameWaits, Rest
<1>6. QED
  BY <1>4, <1>5, AloneInv

LEMMA DriverInv ==
    ASSUME Sensible, Inv, NEW d \in Drivers, Driver(d)
    PROVE  Inv'
<1>1. Rest /\ d \in Threads \cup Drivers
  BY DEF Inv, Types, Rest
<1>2. CASE set_input(d)
  <2>1. UNCHANGED <<current, alert, pwm, seen, calls>>
    BY <1>2 DEF set_input
  <2>2. SameWaits
    BY <1>1, <1>2 DEF Rest, SameWaits, set_input
  <2>3. pin' \in Pin /\ pin.level \in {0, 1}
    BY <1>1, <1>2 DEF set_input, Rest, Pin
  <2>4. /\ pc' \in [Threads \cup Drivers -> Places]
        /\ arg' \in [Threads \cup Drivers -> Arguments]
        /\ \A u \in Threads : pc'[u] \in {"setup", "set_pwm"} => pc[u] = pc'[u] /\ arg'[u] = arg[u]
    BY <1>1, <1>2, <2>3 DEF set_input, Rest, Places, Arguments
  <2>5. Rest'
    BY <1>1, <2>1, <2>3, <2>4 DEF Rest
  <2>6. QED
    BY <2>1, <2>2, <2>5, KeptAlerts, AloneInv
<1>3. CASE callback(d)
  <2>1. UNCHANGED <<pin, current, alert, pwm, arg>>
    BY <1>3 DEF callback
  <2>2. SameWaits
    BY <1>1, <1>3 DEF Rest, SameWaits, callback
  <2>3. /\ pc' \in [Threads \cup Drivers -> Places]
        /\ \A u \in Threads : pc'[u] \in {"setup", "set_pwm"} => pc[u] = pc'[u]
    BY <1>1, <1>3 DEF callback, Rest, Places
  <2>6. seen' \in [Threads -> BOOLEAN]
    <3>1. CASE seen' = seen
      BY <1>1, <3>1 DEF Rest
    <3>2. ASSUME NEW c, seen' = [u \in Threads |-> u = c \/ seen[u]]
          PROVE  seen' \in [Threads -> BOOLEAN]
      <4>1. \A u \in Threads : (u = c \/ seen[u]) \in BOOLEAN
        OBVIOUS
      <4>2. QED
        BY <3>2, <4>1
    <3>3. QED
      BY <1>3, <3>1, <3>2 DEF callback
  <2>7. calls' \in [Drivers -> SUBSET (Threads \cup {User})]
    <3>1. CASE calls' = calls
      BY <1>1, <3>1 DEF Rest
    <3>2. ASSUME NEW c, calls' = [calls EXCEPT ![d] = calls[d] \ {c}]
          PROVE  calls' \in [Drivers -> SUBSET (Threads \cup {User})]
      <4>1. calls[d] \ {c} \in SUBSET (Threads \cup {User})
        BY <1>1 DEF Rest
      <4>2. QED
        BY <1>1, <3>2, <4>1 DEF Rest
    <3>3. QED
      BY <1>3, <3>1, <3>2 DEF callback
  <2>4. Rest'
    BY <1>1, <2>1, <2>3, <2>6, <2>7 DEF Rest
  <2>5. QED
    BY <2>1, <2>2, <2>4, KeptAlerts, AloneInv
<1>4. CASE on_change(d)
  <2>1. UNCHANGED <<pin, current, pwm, seen>>
    BY <1>4 DEF on_change
  <2>2. SameWaits
    BY <1>1, <1>4 DEF Rest, SameWaits, on_change
  <2>3. SameAlerts /\ calls' \in [Drivers -> SUBSET (Threads \cup {User})]
    <3>1. CASE UNCHANGED <<alert, calls>>
      BY <1>1, <2>1, <3>1, KeptAlerts DEF Rest
    <3>2. CASE ~UNCHANGED <<alert, calls>>
      <4> DEFINE new == [alert[current] EXCEPT !.detected = TRUE]
      <4>1. /\ current # None /\ alert' = [alert EXCEPT ![current] = new]
            /\ calls' = [calls EXCEPT ![d] = alert[current].callbacks]
        BY <1>4, <3>2 DEF on_change
      <4>2. current \in Alerts /\ alert[current] \in Alert
        BY <4>1 DEF Inv, Types
      <4>3. /\ new \in Alert /\ new.by = alert[current].by /\ new.taken = alert[current].taken
            /\ new.callbacks = alert[current].callbacks
            /\ alert[current].callbacks \in SUBSET (Threads \cup {User})
        BY <4>2 DEF Alert
      <4> HIDE DEF new
      <4>4. QED
        BY <1>1, <2>1, <4>1, <4>2, <4>3 DEF SameAlerts, Inv, Types
    <3>3. QED
      BY <3>1, <3>2
  <2>4. /\ pc' \in [Threads \cup Drivers -> Places]
        /\ arg' \in [Threads \cup Drivers -> Arguments]
        /\ \A u \in Threads : pc'[u] \in {"setup", "set_pwm"} => pc[u] = pc'[u] /\ arg'[u] = arg[u]
    BY <1>1, <1>4 DEF on_change, Rest, Places, Arguments
  <2>5. Rest'
    BY <1>1, <2>1, <2>3, <2>4 DEF Rest
  <2>6. QED
    BY <2>2, <2>3, <2>5, AloneInv
<1>5. QED
  BY <1>2, <1>3, <1>4 DEF Driver

LEMMA RemovalInv ==
    ASSUME Sensible, Inv, NEW t \in Threads,
           (\E function \in {"input", "output"} : setup(t, function))
              \/ remove_event_detect(t) \/ cleanup(t)
    PROVE  Inv'
<1>1. Rest /\ t \in Threads \cup Drivers
  BY DEF Inv, Types, Rest
<1>2. current' = None /\ alert' = Removed /\ UNCHANGED <<seen, calls>>
  BY DEF setup, remove_event_detect, cleanup
<1>3. SameWaits
  BY <1>1 DEF Rest, SameWaits, setup, remove_event_detect, cleanup, Uses
<1>4. pin' \in Pin
  <2>1. pin' = pin \/ pin' = Stopped
    BY DEF setup, remove_event_detect, cleanup
  <2>2. QED
    BY <1>1, <2>1, StoppedIsPin DEF Rest
<1>5. pwm' \in [Objects -> Pwm]
  <2>1. CASE pwm' = pwm
    BY <1>1, <2>1 DEF Rest
  <2>2. CASE cleanup(t)
    <3>1. \A o \in Objects : pwm[o] \in Pwm /\ [NewObject EXCEPT !.duty = pwm[o].duty] \in Pwm
      BY <1>1 DEF Rest, Pwm, NewObject
    <3>2. QED
      BY <2>2, <3>1 DEF cleanup
  <2>3. QED
    BY <2>1, <2>2 DEF setup, remove_event_detect
<1>6. /\ pc' \in [Threads \cup Drivers -> Places]
      /\ arg' \in [Threads \cup Drivers -> Arguments]
      /\ \A u \in Threads : /\ pc'[u] = "setup" => arg'[u] \in {"input", "output"}
                            /\ pc'[u] = "set_pwm" => arg'[u] \in Duties
  BY <1>1 DEF Rest, Places, Arguments, setup, remove_event_detect, cleanup
<1>7. Rest'
  BY <1>1, <1>2, <1>4, <1>5, <1>6 DEF Rest
<1>8. QED
  BY <1>2, <1>3, <1>7, RemovedInv

-----------------------------------------------------------------------------
(* A new alert: every wait that goes on has an alert that was taken. *)
LEMMA DetectInv ==
    ASSUME Sensible, Inv, NEW t \in Threads, NEW edge \in Edges,
           NEW callbacks \in {{}, {User}}, add_event_detect(t, edge, callbacks)
    PROVE  Inv'
<1> DEFINE new == NewAlert(edge, callbacks, None)
<1>1. Rest /\ alert \in [Alerts -> Alert \cup {None}]
  BY DEF Inv, Types, Rest
<1>2. /\ current = None /\ UNCHANGED <<pin, pwm, pc, arg, seen, calls>>
      /\ \E a \in Alerts : alert[a] = None /\ current' = a /\ alert' = [alert EXCEPT ![a] = new]
  BY DEF add_event_detect
<1>3. new \in Alert /\ new.by = None /\ new.callbacks = callbacks /\ ~new.taken
  BY DEF NewAlert, Alert
<1> HIDE DEF new
<1>4. PICK a \in Alerts : alert[a] = None /\ current' = a /\ alert' = [alert EXCEPT ![a] = new]
  BY <1>2
<1>5. alert' \in [Alerts -> Alert \cup {None}] /\ alert'[a] = new
  BY <1>1, <1>3, <1>4
<1>6. ASSUME NEW u \in Threads, pc[u] = "wait"
      PROVE  arg[u] \in Alerts /\ alert'[arg[u]] \in Alert /\ alert'[arg[u]].taken
  <2>1. arg[u] \in Alerts /\ alert[arg[u]] \in Alert
    BY <1>6 DEF Inv, Types
  <2>2. alert[arg[u]].taken
    BY <1>2, <1>6, <2>1 DEF Inv, WaitsKeepToThemselves, Sensible
  <2>3. QED
    BY <1>1, <1>4, <2>1, <2>2 DEF Sensible
<1>7. \A u \in Threads : u # new.by /\ u \notin new.callbacks
  BY <1>3 DEF Sensible
<1>8. WaitsKeepToThemselves'
  BY <1>2, <1>4, <1>5, <1>6, <1>7 DEF WaitsKeepToThemselves
<1>9. Apart'
  BY <1>2, <1>3, <1>4, <1>5 DEF Apart, Inv
<1>10. Types'
  BY <1>1, <1>2, <1>3, <1>4, <1>5, <1>6 DEF Types, Rest
<1>11. QED
  BY <1>8, <1>9, <1>10 DEF Inv

LEMMA WaitBegins ==
    ASSUME Sensible, Inv, NEW t \in Threads, NEW edge \in Edges, wait_for_edge(t, edge)
    PROVE  /\ Rest /\ alert \in [Alerts -> Alert \cup {None}]
           /\ UNCHANGED <<pin, pwm, seen, calls>>
           /\ pc[t] = "idle" /\ pc' = [pc EXCEPT ![t] = "wait"]
           /\ \A u \in Threads : pc[u] = "wait" =>
                 arg[u] \in Alerts /\ alert[arg[u]] \in Alert
BY DEF Inv, Types, Rest, wait_for_edge, Uses

LEMMA WaitInv ==
    ASSUME Sensible, Inv, NEW t \in Threads, NEW edge \in Edges, wait_for_edge(t, edge)
    PROVE  Inv'
<1>1. /\ Rest /\ alert \in [Alerts -> Alert \cup {None}]
      /\ UNCHANGED <<pin, pwm, seen, calls>>
      /\ pc[t] = "idle" /\ pc' = [pc EXCEPT ![t] = "wait"]
      /\ \A u \in Threads : pc[u] = "wait" => arg[u] \in Alerts /\ alert[arg[u]] \in Alert
  BY WaitBegins
<1>2. PICK a \in Alerts, new \in Alert :
        /\ current' = a /\ alert' = [alert EXCEPT ![a] = new] /\ arg' = [arg EXCEPT ![t] = a]
        /\ new.callbacks = {t} /\ ~new.taken
        /\ new.by \in Threads => new.by = t
        /\ \A u \in Threads : pc[u] = "wait" => arg[u] # a /\ alert[arg[u]].taken
  <2>1. CASE current = None
    <3> DEFINE new == NewAlert(edge, {t}, t)
    <3>1. \E a \in Alerts : /\ alert[a] = None /\ current' = a
                            /\ alert' = [alert EXCEPT ![a] = new] /\ arg' = [arg EXCEPT ![t] = a]
      BY <2>1 DEF wait_for_edge
    <3>2. new \in Alert /\ new.by = t /\ new.callbacks = {t} /\ ~new.taken
      BY DEF NewAlert, Alert
    <3> HIDE DEF new
    <3>3. PICK a \in Alerts : /\ alert[a] = None /\ current' = a
                              /\ alert' = [alert EXCEPT ![a] = new] /\ arg' = [arg EXCEPT ![t] = a]
      BY <3>1
    <3>4. \A u \in Threads : pc[u] = "wait" => arg[u] # a /\ alert[arg[u]].taken
      BY <1>1, <2>1, <3>3 DEF Inv, WaitsKeepToThemselves, Sensible
    <3>5. QED
      BY <3>2, <3>3, <3>4
  <2>2. CASE current # None
    <3> DEFINE new == [alert[current] EXCEPT !.callbacks = {t}]
    <3>1. current \in Alerts /\ alert[current] \in Alert /\ ~alert[current].taken
      BY <2>2 DEF Inv, Types, Apart
    <3>2. /\ alert[current].callbacks = {} /\ current' = current
          /\ alert' = [alert EXCEPT ![current] = new] /\ arg' = [arg EXCEPT ![t] = current]
      BY <2>2 DEF wait_for_edge
    <3>3. /\ new \in Alert /\ new.callbacks = {t} /\ ~new.taken
          /\ new.by = alert[current].by
      BY <3>1 DEF Alert
    <3> HIDE DEF new
    <3>4. \A u \in Threads : pc[u] = "wait" => arg[u] # current /\ alert[arg[u]].taken
      BY <3>1, <3>2 DEF Inv, WaitsKeepToThemselves
    <3>5. new.by \notin Threads
      BY <2>2, <3>3, <3>4 DEF Inv, WaitsKeepToThemselves
    <3>6. QED
      BY <3>1, <3>2, <3>3, <3>4, <3>5
  <2>3. QED
    BY <2>1, <2>2
<1>3. /\ alert' \in [Alerts -> Alert \cup {None}] /\ alert'[a] = new
      /\ \A b \in Alerts : b # a => alert'[b] = alert[b]
  BY <1>1, <1>2
<1>4. /\ t \in Threads \cup Drivers /\ pc'[t] = "wait" /\ arg'[t] = a
      /\ \A u \in Threads : u # t => pc'[u] = pc[u] /\ arg'[u] = arg[u]
  BY <1>1, <1>2 DEF Rest
<1>5. \A u \in Threads : pc'[u] = "wait" /\ u # t =>
          /\ arg'[u] \in Alerts /\ alert'[arg'[u]] \in Alert /\ alert'[arg'[u]].taken
          /\ arg'[u] # a
  BY <1>1, <1>2, <1>3, <1>4
<1>6. WaitsKeepToThemselves'
  <2>1. ASSUME NEW u \in Threads, pc'[u] = "wait"
        PROVE  \/ current' = arg'[u] /\ u \in alert'[current'].callbacks
               \/ alert'[arg'[u]].taken
    BY <1>2, <1>3, <1>4, <1>5, <2>1
  <2>2. ASSUME NEW u \in Threads, u = alert'[current'].by \/ u \in alert'[current'].callbacks
        PROVE  pc'[u] = "wait" /\ arg'[u] = current'
    BY <1>2, <1>3, <1>4, <2>2
  <2>3. QED
    BY <2>1, <2>2 DEF WaitsKeepToThemselves
<1>7. Apart'
  <2>1. ~alert'[current'].taken
    BY <1>2, <1>3
  <2>2. ASSUME NEW u \in Threads, NEW v \in Threads, pc'[u] = "wait", pc'[v] = "wait", u # v
        PROVE  arg'[u] # arg'[v]
    BY <1>4, <1>5, <2>2 DEF Inv, Apart
  <2>3. QED
    BY <2>1, <2>2 DEF Apart
<1>8. Types'
  <2>1. pc' \in [Threads \cup Drivers -> Places]
    BY <1>1 DEF Rest, Places
  <2>2. arg' \in [Threads \cup Drivers -> Arguments]
    BY <1>1, <1>2 DEF Rest, Arguments
  <2>3. \A u \in Threads : /\ pc'[u] = "setup" => arg'[u] \in {"input", "output"}
                           /\ pc'[u] = "set_pwm" => arg'[u] \in Duties
    BY <1>1, <1>4 DEF Rest
  <2>4. \A u \in Threads : pc'[u] = "wait" => arg'[u] \in Alerts /\ alert'[arg'[u]] \in Alert
    BY <1>2, <1>3, <1>4, <1>5
  <2>5. current' \in Alerts /\ alert'[current'] \in Alert
    BY <1>2, <1>3
  <2>6. QED
    BY <1>1, <1>3, <2>1, <2>2, <2>3, <2>4, <2>5 DEF Types, Rest
<1>9. QED
  BY <1>6, <1>7, <1>8 DEF Inv

(* The end of a wait: its alert goes, or it leaves the one it joined. *)
LEMMA WaitEndsInv ==
    ASSUME Sensible, Inv, NEW t \in Threads, wait_ends(t)
    PROVE  Inv'
<1>1. /\ Rest /\ alert \in [Alerts -> Alert \cup {None}]
      /\ UNCHANGED <<pin, pwm>> /\ pc[t] = "wait"
      /\ pc' = [pc EXCEPT ![t] = "idle"] /\ arg' = [arg EXCEPT ![t] = None]
      /\ \A u \in Threads : pc[u] = "wait" => arg[u] \in Alerts /\ alert[arg[u]] \in Alert
  BY DEF Inv, Types, Rest, wait_ends
<1> DEFINE a == arg[t]
<1>2. a \in Alerts /\ alert[a] \in Alert
  BY <1>1
<1>3. /\ t \in Threads \cup Drivers /\ pc'[t] = "idle"
      /\ \A u \in Threads : u # t => pc'[u] = pc[u] /\ arg'[u] = arg[u]
      /\ \A u \in Threads : pc'[u] = "wait" => u # t /\ pc[u] = "wait" /\ arg[u] # a
  BY <1>1 DEF Rest, Inv, Apart
<1>4. seen' \in [Threads -> BOOLEAN] /\ calls' \in [Drivers -> SUBSET (Threads \cup {User})]
  BY <1>1 DEF Rest, wait_ends
<1>5. Rest'
  <2>1. pc' \in [Threads \cup Drivers -> Places]
    BY <1>1 DEF Rest, Places
  <2>2. arg' \in [Threads \cup Drivers -> Arguments]
    BY <1>1 DEF Rest, Arguments
  <2>3. \A u \in Threads : /\ pc'[u] = "setup" => arg'[u] \in {"input", "output"}
                           /\ pc'[u] = "set_pwm" => arg'[u] \in Duties
    BY <1>1, <1>3 DEF Rest
  <2>4. QED
    BY <1>1, <1>4, <2>1, <2>2, <2>3 DEF Rest
<1>6. PICK new \in Alert \cup {None} : alert' = [alert EXCEPT ![a] = new]
        /\ \/ new = None /\ current' = None /\ current = a
           \/ new = None /\ current' = current /\ current # a
           \/ /\ new \in Alert /\ current' = current /\ current = a
              /\ new.callbacks = alert[a].callbacks \ {t} /\ new.taken = alert[a].taken
              /\ new.by = alert[a].by /\ new.by # t
  <2>1. CASE Deleted(t)
    <3>1. current' = None /\ alert' = [alert EXCEPT ![a] = None] /\ current = a
      BY <2>1 DEF wait_ends, Deleted
    <3>2. QED
      BY <3>1
  <2>2. CASE ~Deleted(t) /\ current # a
    <3>1. current' = current /\ alert' = [alert EXCEPT ![a] = None]
      BY <1>1, <2>2 DEF wait_ends
    <3>2. QED
      BY <2>2, <3>1
  <2>3. CASE ~Deleted(t) /\ current = a
    <3> DEFINE new == [alert[a] EXCEPT !.callbacks = @ \ {t}]
    <3>1. current' = current /\ alert' = [alert EXCEPT ![a] = new]
      BY <2>3 DEF wait_ends
    <3>2. /\ new \in Alert /\ new.callbacks = alert[a].callbacks \ {t}
          /\ new.taken = alert[a].taken /\ new.by = alert[a].by /\ new.by # t
      BY <1>2, <2>3 DEF Alert, Deleted
    <3> HIDE DEF new
    <3>3. QED
      BY <2>3, <3>1, <3>2
  <2>4. QED
    BY <2>1, <2>2, <2>3
<1> HIDE DEF a
<1>7. /\ alert' \in [Alerts -> Alert \cup {None}] /\ alert'[a] = new
      /\ \A b \in Alerts : b # a => alert'[b] = alert[b]
  BY <1>1, <1>2, <1>6
<1>8. \A u \in Threads : pc'[u] = "wait" =>
          arg'[u] = arg[u] /\ arg[u] \in Alerts /\ alert'[arg[u]] = alert[arg[u]]
  BY <1>1, <1>3, <1>7
<1>9. current # None => current \in Alerts /\ alert[current] \in Alert /\ ~alert[current].taken
  BY DEF Inv, Types, Apart
<1>10. WaitsKeepToThemselves'
  <2>1. ASSUME NEW u \in Threads, pc'[u] = "wait"
        PROVE  \/ current' = arg'[u] /\ u \in alert'[current'].callbacks
               \/ alert'[arg'[u]].taken
    <3>1. \/ current = arg[u] /\ u \in alert[current].callbacks
          \/ alert[arg[u]].taken
      BY <1>3, <2>1 DEF Inv, WaitsKeepToThemselves
    <3>2. QED
      BY <1>3, <1>6, <1>8, <2>1, <3>1
  <2>2. ASSUME current' # None, NEW u \in Threads,
               u = alert'[current'].by \/ u \in alert'[current'].callbacks
        PROVE  pc'[u] = "wait" /\ arg'[u] = current'
    <3>1. current' = current /\ current # None
      BY <1>6, <2>2
    <3>2. u # t /\ (u = alert[current].by \/ u \in alert[current].callbacks)
      <4>1. CASE current = a
        BY <1>6, <1>7, <2>2, <3>1, <4>1 DEF Sensible
      <4>2. CASE current # a
        <5>1. alert'[current'] = alert[current]
          BY <1>7, <1>9, <3>1, <4>2
        <5>2. pc[u] = "wait" /\ arg[u] = current
          BY <2>2, <3>1, <5>1 DEF Inv, WaitsKeepToThemselves
        <5>3. u # t
          BY <4>2, <5>2 DEF a
        <5>4. QED
          BY <2>2, <5>1, <5>3
      <4>3. QED
        BY <4>1, <4>2
    <3>3. pc[u] = "wait" /\ arg[u] = current
      BY <3>1, <3>2 DEF Inv, WaitsKeepToThemselves
    <3>4. QED
      BY <1>3, <3>1, <3>2, <3>3
  <2>3. QED
    BY <2>1, <2>2 DEF WaitsKeepToThemselves
<1>11. current' # None => alert'[current'] \in Alert /\ ~alert'[current'].taken
  BY <1>6, <1>7, <1>9
<1>12. Apart'
  BY <1>3, <1>8, <1>11 DEF Apart, Inv
<1>13. current' \in Alerts \cup {None}
  BY <1>6 DEF Inv, Types
<1>14. \A u \in Threads : pc'[u] = "wait" => arg'[u] \in Alerts /\ alert'[arg'[u]] \in Alert
  BY <1>1, <1>3, <1>8
<1>15. QED
  BY <1>5, <1>7, <1>10, <1>11, <1>12, <1>13, <1>14 DEF Inv, Types, Rest

LEMMA NextInv == ASSUME Sensible, Inv, [Next]_vars PROVE Inv'
<1>1. ASSUME NEW t \in Threads, Script(t) PROVE Inv'
  BY <1>1, ScriptPinsInv, ScriptAlertsInv, RemovalInv, DetectInv, WaitInv, WaitEndsInv
     DEF Script, PinSteps
<1>2. ASSUME NEW d \in Drivers, Driver(d) PROVE Inv'
  BY <1>2, DriverInv
<1>3. CASE UNCHANGED vars
  <2>1. SameWaits /\ Rest' /\ UNCHANGED <<current, alert>>
    BY <1>3 DEF vars, SameWaits, Rest, Inv, Types
  <2>2. QED
    BY <2>1, KeptAlerts, AloneInv
<1>4. QED
  BY <1>1, <1>2, <1>3 DEF Next

LEMMA SpecInv == ASSUME Sensible PROVE Spec => []Inv
<1>1. Init => Inv
  BY InitInv
<1>2. Inv /\ [Next]_vars => Inv'
  BY NextInv
<1>3. QED
  BY <1>1, <1>2, PTL DEF Spec
(* The types of the channel, its alerts and its PWM object (_alerts,       *)
(* _pwms, _used and the pin).                                              *)
THEOREM RpiTypeCorrect == Sensible => (Spec => []TypeOK)
<1> SUFFICES ASSUME Sensible PROVE Spec => []TypeOK
  OBVIOUS
<1>1. Inv => TypeOK
  BY DEF Inv, Types, TypeOK, Pin, Pwm, Alert
<1>2. QED
  BY <1>1, SpecInv, PTL

(* Waits and edge detection keep out of each other's way, whatever ends    *)
(* while what else begins: wait_for_edge() takes away only what is its     *)
(* own, for any number of threads that wait, detect, remove and clean up.  *)
THEOREM RpiWaitsKeepToThemselves == Sensible => (Spec => []WaitsKeepToThemselves)
<1> SUFFICES ASSUME Sensible PROVE Spec => []WaitsKeepToThemselves
  OBVIOUS
<1>1. Inv => WaitsKeepToThemselves
  BY DEF Inv
<1>2. QED
  BY <1>1, SpecInv, PTL

-----------------------------------------------------------------------------
(* One thread sets the channel up and works the PWM object; the others may *)
(* clean up, whenever they like.                                           *)
OneWorker ==
    \A programs \in Programs : \E p \in Threads : \A t \in Threads \ {p} :
        programs[t] \cap {"setup", "pwm"} = {}

Released == \E t \in Threads : pc[t] = "release"

(* Only p works the pin's function and PWM; when it is about to tell the   *)
(* pin of an object, the object runs, or the pin is going, or gone; and    *)
(* PWM on the pin is an object's, or about to be, or about to go.          *)
Works(p) ==
    /\ \A t \in Threads \ {p} : /\ program[t] \cap {"setup", "pwm"} = {}
                                /\ pc[t] \notin {"setup", "set_pwm"}
    /\ pin.function # "output" => pin.pwm = None
    /\ pc[p] = "set_pwm" => Driven(arg[p]) \/ Released \/ pin.function # "output"
    /\ pin.pwm # None => Driven(pin.pwm) \/ Released \/ pc[p] = "set_pwm"

PwmInv == \E p \in Threads : Works(p)

LEMMA InitWorks == ASSUME OneWorker, Init PROVE PwmInv
<1>1. PICK p \in Threads : \A t \in Threads \ {p} : program[t] \cap {"setup", "pwm"} = {}
  BY DEF OneWorker, Init
<1>2. Works(p)
  BY <1>1 DEF Init, Works
<1>3. QED
  BY <1>2 DEF PwmInv

(* Steps that touch neither the pin's function and PWM, nor the object.    *)
LEMMA WorksAlone ==
    ASSUME NEW p \in Threads, Works(p), UNCHANGED <<pwm, program>>,
           pin'.function = pin.function, pin'.pwm = pin.pwm,
           pc[p] = "set_pwm" => arg'[p] = arg[p],
           \A t \in Threads : \/ pc'[t] = pc[t]
                              \/ /\ pc[t] \notin {"set_pwm", "release"}
                                 /\ pc'[t] \notin {"set_pwm", "release"}
                                 /\ pc'[t] = "setup" => t = p
    PROVE  Works(p)'
<1>1. Released' <=> Released
  BY DEF Released
<1>2. pc'[p] = "set_pwm" <=> pc[p] = "set_pwm"
  OBVIOUS
<1>3. \A t \in Threads \ {p} : pc'[t] \notin {"setup", "set_pwm"}
  BY DEF Works
<1>4. \A duty : Driven(duty)' <=> Driven(duty)
  BY DEF Driven
<1>5. QED
  BY <1>1, <1>2, <1>3, <1>4 DEF Works

LEMMA WorkerPwm ==
    ASSUME Sensible, NEW p \in Threads, Inv, Works(p), NEW t \in Threads, PinSteps(t)
    PROVE  Works(p)'
<1>1. t = p /\ program' = program /\ pc[t] \in {"idle", "setup", "set_pwm"}
  BY DEF Works, PinSteps, set_pwm, stop, drop, setup_pin, NewPWM, Change, Uses
<1>2. /\ pin \in Pin /\ pwm \in [Objects -> Pwm] /\ pc \in [Threads \cup Drivers -> Places]
      /\ arg \in [Threads \cup Drivers -> Arguments] /\ t \in Threads \cup Drivers
  BY DEF Inv, Types
<1>3. PICK place \in {"idle", "set_pwm"} : pc' = [pc EXCEPT ![t] = place]
  <2>1. CASE pc' = pc
    <3>1. pc[t] = "idle"
      BY <1>2, <2>1 DEF PinSteps, set_pwm, stop, drop, setup_pin, NewPWM, Change, Uses
    <3>2. QED
      BY <1>2, <2>1, <3>1
  <2>2. CASE pc' # pc
    BY <2>2, ZenonT(60) DEF PinSteps, set_pwm, stop, drop, setup_pin, NewPWM, Change
  <2>3. QED
    BY <2>1, <2>2
<1>4. pc'[t] = place /\ \A u \in Threads : u # t => pc'[u] = pc[u]
  BY <1>2, <1>3
<1>5. Released' <=> Released
  BY <1>1, <1>3, <1>4 DEF Released
<1>6. \A u \in Threads \ {p} : /\ program'[u] \cap {"setup", "pwm"} = {}
                               /\ pc'[u] \notin {"setup", "set_pwm"}
  BY <1>1, <1>4 DEF Works
<1>7. CASE set_pwm(t)
  <2>1. /\ pc'[p] = "idle" /\ pwm' = pwm /\ pin'.function = pin.function
        /\ pin'.pwm = IF pin.function = "output" THEN arg[p] ELSE pin.pwm
    BY <1>1, <1>2, <1>7 DEF set_pwm, Pin
  <2>2. Driven(arg[p]) \/ Released \/ pin.function # "output"
    BY <1>1, <1>7 DEF set_pwm, Works
  <2>3. \A duty : Driven(duty)' <=> Driven(duty)
    BY <2>1 DEF Driven
  <2>4. QED
    BY <1>5, <1>6, <2>1, <2>2, <2>3 DEF Works
<1>8. CASE pc' = pc /\ pin' = Stopped /\ pc[p] = "idle"
  <2>1. pin'.function = pin.function /\ pin'.pwm = None
    BY <1>2, <1>8 DEF Stopped, Pin, Works
  <2>2. QED
    BY <1>6, <1>8, <2>1 DEF Works
<1>9. CASE setup_pin(t)
  <2>1. pc'[p] = "idle" /\ pwm' = pwm
    BY <1>1, <1>2, <1>9 DEF setup_pin
  <2>2. pc[p] # "set_pwm"
    BY <1>1, <1>9 DEF setup_pin
  <2>3. pin'.function = arg[t] /\ pin'.pwm = IF arg[t] = "output" THEN pin.pwm ELSE None
    BY <1>2, <1>9 DEF setup_pin, Pin
  <2>4. \A duty : Driven(duty)' <=> Driven(duty)
    BY <2>1 DEF Driven
  <2>5. QED
    BY <1>5, <1>6, <2>1, <2>2, <2>3, <2>4 DEF Works
<1>10. ASSUME NEW o \in Objects, pc' = pc, pin' = pin, pc[p] = "idle", ~pwm[o].running,
              NEW object \in Pwm, pwm' = [pwm EXCEPT ![o] = object]
       PROVE  Works(p)'
  <2>1. \A duty : Driven(duty) => Driven(duty)'
    <3>1. \A other \in Objects : other # o => pwm'[other] = pwm[other]
      BY <1>2, <1>10
    <3>2. QED
      BY <1>10, <3>1 DEF Driven
  <2>2. QED
    BY <1>5, <1>6, <1>10, <2>1 DEF Works
<1>11. ASSUME NEW o \in Objects, NEW duty \in Duties, NewPWM(t, o, duty)
       PROVE  Works(p)'
  <2> DEFINE new == [NewObject EXCEPT !.kept = TRUE, !.duty = duty]
  <2>1. new \in Pwm /\ pwm' = [pwm EXCEPT ![o] = new] /\ ~pwm[o].running
    BY <1>11, NewObjects DEF NewPWM
  <2> HIDE DEF new
  <2>2. pc[p] = "idle" /\ pc' = pc /\ pin' = pin
    BY <1>1, <1>11 DEF NewPWM, Uses
  <2>3. QED
    BY <1>10, <2>1, <2>2
<1>12. ASSUME NEW o \in Objects, drop(t, o), ~pwm[o].running
       PROVE  Works(p)'
  <2>1. NewObject \in Pwm /\ pwm' = [pwm EXCEPT ![o] = NewObject]
    BY <1>12 DEF drop, NewObject, Pwm
  <2>2. pc[p] = "idle" /\ pc' = pc /\ pin' = pin
    BY <1>1, <1>12 DEF drop, Uses
  <2>3. QED
    BY <1>10, <1>12, <2>1, <2>2
<1>13. ASSUME NEW o \in Objects, NEW duty \in Duties, NEW begin \in BOOLEAN,
              Change(t, o, duty, begin)
       PROVE  Works(p)'
  <2> DEFINE new == [pwm[o] EXCEPT !.duty = duty, !.running = begin \/ pwm[o].running]
  <2>1. /\ new \in Pwm /\ pwm' = [pwm EXCEPT ![o] = new] /\ new.duty = duty
        /\ new.running <=> begin \/ pwm[o].running
    <3>1. pwm[o] \in Pwm
      BY <1>2
    <3>2. pwm' = [pwm EXCEPT ![o] = new]
      BY <1>13, Zenon DEF Change
    <3>3. QED
      BY <3>1, <3>2, ObjectSet
  <2> HIDE DEF new
  <2>2. pc[p] = "idle" /\ pin' = pin
    BY <1>1, <1>13 DEF Change, Uses
  <2>3. CASE begin \/ pwm[o].running
    <3>1. pc'[p] = "set_pwm" /\ arg'[p] = duty
      BY <1>1, <1>2, <1>13, <2>3 DEF Change
    <3>2. Driven(duty)'
      <4>1. pwm'[o].running /\ pwm'[o].duty = duty
        BY <1>2, <2>1, <2>3
      <4>2. QED
        BY <4>1 DEF Driven
    <3>3. QED
      BY <1>6, <2>2, <3>1, <3>2 DEF Works
  <2>4. CASE ~(begin \/ pwm[o].running)
    <3>1. pc' = pc
      BY <1>13, <2>4 DEF Change
    <3>2. QED
      BY <1>10, <2>1, <2>2, <2>4, <3>1
  <2>5. QED
    BY <2>3, <2>4
<1>14. ASSUME NEW o \in Objects, stop(t, o) \/ (drop(t, o) /\ pwm[o].running)
       PROVE  Works(p)'
  <2>1. pc[p] = "idle" /\ pc' = pc /\ pin' = Stopped
    BY <1>1, <1>14 DEF stop, drop, Uses
  <2>2. QED
    BY <1>8, <2>1
<1>15. QED
  BY <1>7, <1>9, <1>11, <1>12, <1>13, <1>14 DEF PinSteps

LEMMA OthersCleanUp ==
    ASSUME Sensible, NEW p \in Threads, Inv, Works(p), NEW t \in Threads, cleanup(t) \/ release(t)
    PROVE  Works(p)'
<1>1. /\ pin \in Pin /\ pc \in [Threads \cup Drivers -> Places]
      /\ t \in Threads \cup Drivers /\ program' = program
  BY DEF Inv, Types, cleanup, release
<1>2. PICK place \in {"release", "idle"} : pc' = [pc EXCEPT ![t] = place]
  BY DEF cleanup, release
<1>3. pc'[t] = place /\ \A u \in Threads : u # t => pc'[u] = pc[u]
  BY <1>1, <1>2
<1>4. \A u \in Threads \ {p} : /\ program'[u] \cap {"setup", "pwm"} = {}
                               /\ pc'[u] \notin {"setup", "set_pwm"}
  BY <1>1, <1>2, <1>3 DEF Works
<1>5. CASE cleanup(t)
  <2>1. Released'
    BY <1>1, <1>5 DEF cleanup, Released
  <2>2. pin' = pin \/ pin' = Stopped
    BY <1>5 DEF cleanup
  <2>3. pin'.function # "output" => pin'.pwm = None
    BY <1>1, <2>2 DEF Stopped, Pin, Works
  <2>4. QED
    BY <1>4, <2>1, <2>3 DEF Works
<1>6. CASE release(t)
  <2>1. pin'.function = None /\ pin'.pwm = None
    BY <1>1, <1>6 DEF release, Pin
  <2>2. pin'.function # "output"
    BY <2>1 DEF Sensible
  <2>3. QED
    BY <1>4, <2>1, <2>2 DEF Works
<1>7. QED
  BY <1>5, <1>6

LEMMA NextWorks == ASSUME Sensible, Inv, PwmInv, [Next]_vars PROVE PwmInv'
<1>1. PICK p \in Threads : Works(p)
  BY DEF PwmInv
<1>2. /\ pin \in Pin /\ pc \in [Threads \cup Drivers -> Places]
      /\ arg \in [Threads \cup Drivers -> Arguments]
      /\ Threads \subseteq Threads \cup Drivers
  BY DEF Inv, Types
<1>3. ASSUME NEW t \in Threads, Script(t) PROVE Works(p)'
  <2>1. CASE PinSteps(t)
    BY <1>1, <2>1, WorkerPwm
  <2>2. CASE cleanup(t) \/ release(t)
    BY <1>1, <2>2, OthersCleanUp
  <2>3. ASSUME NEW function \in {"input", "output"}, setup(t, function)
        PROVE  Works(p)'
    <3>1. t = p /\ pc[t] = "idle"
      BY <1>1, <2>3 DEF Works, setup, Uses
    <3>2. UNCHANGED <<pin, pwm, program>> /\ pc' = [pc EXCEPT ![t] = "setup"]
      BY <2>3 DEF setup
    <3>3. QED
      BY <1>1, <1>2, <3>1, <3>2, WorksAlone
  <2>4. ASSUME NEW level \in {0, 1}, output(t, level)
        PROVE  Works(p)'
    BY <1>1, <1>2, <2>4, WorksAlone DEF output, Pin
  <2>5. ASSUME NEW edge \in Edges, wait_for_edge(t, edge)
        PROVE  Works(p)'
    <3>1. pc[t] = "idle" /\ pc' = [pc EXCEPT ![t] = "wait"] /\ UNCHANGED <<pin, pwm, program>>
      BY <2>5 DEF wait_for_edge, Uses
    <3>2. \A u \in Threads : u # t => arg'[u] = arg[u]
      BY <1>2, <2>5 DEF wait_for_edge
    <3>3. pc[p] = "set_pwm" => arg'[p] = arg[p]
      BY <3>1, <3>2
    <3>4. QED
      BY <1>1, <1>2, <3>1, <3>3, WorksAlone
  <2>6. CASE wait_ends(t)
    BY <1>1, <1>2, <2>6, WorksAlone DEF wait_ends
  <2>7. ASSUME NEW edge \in Edges, NEW callbacks \in {{}, {User}},
               add_event_detect(t, edge, callbacks)
        PROVE  Works(p)'
    BY <1>1, <2>7, WorksAlone DEF add_event_detect
  <2>8. CASE add_event_callback(t) \/ remove_event_detect(t) \/ event_detected(t)
    BY <1>1, <2>8, WorksAlone DEF add_event_callback, remove_event_detect, event_detected
  <2>9. QED
    BY <1>3, <2>1, <2>2, <2>3, <2>4, <2>5, <2>6, <2>7, <2>8 DEF Script, PinSteps
<1>4. ASSUME NEW d \in Drivers, Driver(d) PROVE Works(p)'
  <2>1. UNCHANGED <<pwm, program>> /\ pin'.function = pin.function /\ pin'.pwm = pin.pwm
    BY <1>2, <1>4 DEF Driver, set_input, on_change, callback, Pin
  <2>2. PICK place \in {"idle", "changed", "calling"} : pc' = [pc EXCEPT ![d] = place]
    <3>1. CASE set_input(d)
      BY <3>1 DEF set_input
    <3>2. CASE on_change(d)
      BY <3>2 DEF on_change
    <3>3. CASE callback(d)
      <4>1. pc[d] = "calling" /\ pc' \in {pc, [pc EXCEPT ![d] = "idle"]}
        BY <3>3 DEF callback
      <4>2. pc = [pc EXCEPT ![d] = pc[d]]
        BY <1>2
      <4>3. QED
        BY <4>1, <4>2
    <3>4. QED
      BY <1>4, <3>1, <3>2, <3>3 DEF Driver
  <2>3. pc[d] \in {"idle", "changed", "calling"}
    BY <1>4 DEF Driver, set_input, on_change, callback
  <2>4. pc[p] = "set_pwm" => arg'[p] = arg[p]
    <3>1. pc[p] = "set_pwm" => p # d
      BY <2>3
    <3>2. arg' = arg \/ \E value : arg' = [arg EXCEPT ![d] = value]
      BY <1>4, Zenon DEF Driver, set_input, on_change, callback
    <3>3. QED
      BY <1>2, <3>1, <3>2
  <2>5. QED
    BY <1>1, <1>2, <2>1, <2>2, <2>3, <2>4, WorksAlone
<1>5. CASE UNCHANGED vars
  <2>1. UNCHANGED <<pin, pwm, pc, arg, program>>
    BY <1>5 DEF vars
  <2>2. Works(p)'
    BY <1>1, <2>1, WorksAlone
  <2>3. QED
    BY <2>2 DEF PwmInv
<1>6. CASE Next
  <2>1. Works(p)'
    BY <1>3, <1>4, <1>6 DEF Next
  <2>2. QED
    BY <2>1 DEF PwmInv
<1>7. QED
  BY <1>5, <1>6

(* A level that PWM toggles is one that a PWM object runs (PWM.start,      *)
(* stop, ChangeDutyCycle, __del__), for one thread that sets up and works  *)
(* any number of objects, and any number that clean up meanwhile.          *)
THEOREM RpiPwmIsTheObjects == Sensible /\ OneWorker => (Spec => []PwmIsTheObjects)
<1> SUFFICES ASSUME Sensible, OneWorker PROVE Spec => []PwmIsTheObjects
  OBVIOUS
<1>1. Init => PwmInv
  BY InitWorks
<1>2. Inv /\ PwmInv /\ [Next]_vars => PwmInv'
  BY NextWorks
<1>3. PwmInv => PwmIsTheObjects
  BY DEF PwmInv, Works, Released, PwmIsTheObjects
<1>4. QED
  BY <1>1, <1>2, <1>3, SpecInv, PTL DEF Spec

-----------------------------------------------------------------------------
(* Where lgpio's alerts go (NotifyPipes).                                  *)

(* The constants are what the module's comments say. *)
SensiblePipes ==
    /\ Handles \subseteq Nat /\ Capacity \in Nat /\ MaxReports \in Nat
    /\ None \notin Handles /\ Unclaimed \notin Handles /\ None # Unclaimed

Line == {"line"} \X Nat

(* TypeOK does not look at the contents, nor between the locks. *)
PipeTypes ==
    /\ Fifo!TypeOK
    /\ claiming \in Handles \cup {None, Unclaimed}
    /\ listeners \in SUBSET Callbacks
    /\ closing \in Handles \cup {None}
    /\ sent \in [Handles -> Nat]
    /\ content \in [Handles -> Seq(Line)]
    /\ \A h \in Handles : Len(content[h]) <= Capacity

(* The pipe whose file is about to be closed is no longer to be found, and *)
(* its handle is not lines again.                                          *)
PipesTaken ==
    /\ Fifo!PipesAreOpen
    /\ closing \notin notify
    /\ closing # None => file[closing] # "none"

-----------------------------------------------------------------------------
LEMMA PipeQueued ==
    ASSUME SensiblePipes, PipeTypes, NEW h \in Handles, Len(content[h]) # Capacity
    PROVE  /\ <<"line", sent[h] + 1>> \in Line /\ Len(content[h]) < Capacity
           /\ Append(content[h], <<"line", sent[h] + 1>>) \in Seq(Line)
           /\ Len(Append(content[h], <<"line", sent[h] + 1>>)) <= Capacity
<1>1. content[h] \in Seq(Line) /\ Len(content[h]) \in Nat /\ Len(content[h]) <= Capacity
  BY LenProperties DEF PipeTypes
<1>2. <<"line", sent[h] + 1>> \in Line
  BY DEF PipeTypes, Line
<1>3. QED
  BY <1>1, <1>2, AppendProperties DEF SensiblePipes

LEMMA PipeShortened ==
    ASSUME SensiblePipes, PipeTypes, NEW h \in Handles, NEW n \in 1..Capacity, n <= Len(content[h])
    PROVE  /\ SubSeq(content[h], n + 1, Len(content[h])) \in Seq(Line)
           /\ Len(SubSeq(content[h], n + 1, Len(content[h]))) <= Capacity
<1>1. content[h] \in Seq(Line) /\ Len(content[h]) \in Nat /\ Len(content[h]) <= Capacity
  BY LenProperties DEF PipeTypes
<1>2. \A i \in n + 1..Len(content[h]) : content[h][i] \in Line
  BY <1>1, ElementOfSeq
<1>3. /\ SubSeq(content[h], n + 1, Len(content[h])) \in Seq(Line)
      /\ Len(SubSeq(content[h], n + 1, Len(content[h])))
         = IF n + 1 <= Len(content[h]) THEN Len(content[h]) - (n + 1) + 1 ELSE 0
  BY <1>1, <1>2, SubSeqProperties
<1>4. QED
  BY <1>1, <1>3 DEF SensiblePipes

LEMMA InitPipes == ASSUME SensiblePipes, Fifo!Init PROVE PipeTypes /\ PipesTaken
<1>1. <<>> \in Seq(Line) /\ Len(<<>>) = 0
  BY EmptySeq
<1>2. QED
  BY <1>1 DEF Fifo!Init, PipeTypes, Fifo!TypeOK, SensiblePipes, PipesTaken, Fifo!PipesAreOpen

(* What becomes of the FIFOs, whichever step it is. *)
LEMMA Fifos == ASSUME SensiblePipes, PipeTypes, [Fifo!Next]_Fifo!vars
    PROVE  \/ UNCHANGED <<content, sent>>
           \/ \E h \in Handles :
               \/ Len(content[h]) < Capacity
                  /\ content' = [content EXCEPT ![h] = Append(@, <<"line", sent[h] + 1>>)]
                  /\ sent' = [sent EXCEPT ![h] = @ + 1]
               \/ \E n \in 1..Capacity :
                  /\ n <= Len(content[h]) /\ sent' = sent
                  /\ content' = [content EXCEPT ![h] = SubSeq(@, n + 1, Len(@))]
               \/ content' = [content EXCEPT ![h] = <<>>] /\ sent' = sent
<1>1. CASE Fifo!close
  BY <1>1 DEF Fifo!close, PipeTypes
<1>2. ASSUME NEW r \in Reporters, Fifo!report(r)
      PROVE  \/ UNCHANGED <<content, sent>>
             \/ \E h \in Handles :
                   Len(content[h]) < Capacity
                   /\ content' = [content EXCEPT ![h] = Append(@, <<"line", sent[h] + 1>>)]
                   /\ sent' = [sent EXCEPT ![h] = @ + 1]
  <2>1. UNCHANGED <<content, sent>> \/ (claim \in notify /\ Fifo!send(claim))
    BY <1>2 DEF Fifo!report
  <2>2. claim \in notify => claim \in Handles
    BY DEF PipeTypes, Fifo!TypeOK
  <2>3. QED
    BY <2>1, <2>2, PipeQueued DEF Fifo!send
<1>3. ASSUME NEW h \in Handles, NEW n \in 1..Capacity, Fifo!Read(h, n)
      PROVE  /\ n <= Len(content[h]) /\ sent' = sent
             /\ content' = [content EXCEPT ![h] = SubSeq(@, n + 1, Len(@))]
  BY <1>3 DEF Fifo!Read
<1>4. ASSUME \/ Fifo!notify_open \/ Fifo!claim_alert \/ Fifo!gpio_free \/ Fifo!gpio_claim_alert(None)
             \/ \E h \in Handles :
                 \/ Fifo!notify_close(h) \/ Fifo!gpio_claim_alert(h)
                 \/ \E how \in {"open", "paused"} : Fifo!notify_state(h, how)
             \/ \E c \in Callbacks : Fifo!callback(c)
             \/ \E r \in Reporters : Fifo!call(r)
      PROVE  UNCHANGED <<content, sent>>
  BY <1>4 DEF Fifo!notify_open, Fifo!claim_alert, Fifo!gpio_free, Fifo!gpio_claim_alert,
     Fifo!notify_close, Fifo!notify_state, Fifo!callback, Fifo!call
<1>5. CASE UNCHANGED Fifo!vars
  BY <1>5 DEF Fifo!vars
<1>6. QED
  BY <1>1, <1>2, <1>3, <1>4, <1>5 DEF Fifo!Next

LEMMA FifoTypes == ASSUME SensiblePipes, PipeTypes, [Fifo!Next]_Fifo!vars
    PROVE  /\ sent' \in [Handles -> Nat] /\ content' \in [Handles -> Seq(Line)]
           /\ \A h \in Handles : Len(content'[h]) <= Capacity
<1>0. <<>> \in Seq(Line) /\ Len(<<>>) = 0
  BY EmptySeq
<1>1. CASE UNCHANGED <<content, sent>>
  BY <1>1 DEF PipeTypes
<1>2. ASSUME NEW h \in Handles, NEW q \in Seq(Line), Len(q) <= Capacity,
             content' = [content EXCEPT ![h] = q], sent' \in {sent, [sent EXCEPT ![h] = @ + 1]}
      PROVE  /\ sent' \in [Handles -> Nat] /\ content' \in [Handles -> Seq(Line)]
             /\ \A k \in Handles : Len(content'[k]) <= Capacity
  BY <1>2 DEF PipeTypes
<1>3. ASSUME NEW h \in Handles, Len(content[h]) < Capacity,
             content' = [content EXCEPT ![h] = Append(@, <<"line", sent[h] + 1>>)],
             sent' = [sent EXCEPT ![h] = @ + 1]
      PROVE  /\ sent' \in [Handles -> Nat] /\ content' \in [Handles -> Seq(Line)]
             /\ \A k \in Handles : Len(content'[k]) <= Capacity
  <2> DEFINE q == Append(content[h], <<"line", sent[h] + 1>>)
  <2>1. q \in Seq(Line) /\ Len(q) <= Capacity
    BY <1>3, PipeQueued DEF SensiblePipes
  <2>2. content' = [content EXCEPT ![h] = q]
    BY <1>3
  <2> HIDE DEF q
  <2>3. QED
    BY <1>2, <1>3, <2>1, <2>2
<1>4. ASSUME NEW h \in Handles, NEW n \in 1..Capacity, n <= Len(content[h]), sent' = sent,
             content' = [content EXCEPT ![h] = SubSeq(@, n + 1, Len(@))]
      PROVE  /\ sent' \in [Handles -> Nat] /\ content' \in [Handles -> Seq(Line)]
             /\ \A k \in Handles : Len(content'[k]) <= Capacity
  <2> DEFINE q == SubSeq(content[h], n + 1, Len(content[h]))
  <2>1. q \in Seq(Line) /\ Len(q) <= Capacity
    BY <1>4, PipeShortened
  <2>2. content' = [content EXCEPT ![h] = q]
    BY <1>4
  <2> HIDE DEF q
  <2>3. QED
    BY <1>2, <1>4, <2>1, <2>2
<1>5. ASSUME NEW h \in Handles, sent' = sent, content' = [content EXCEPT ![h] = <<>>]
      PROVE  /\ sent' \in [Handles -> Nat] /\ content' \in [Handles -> Seq(Line)]
             /\ \A k \in Handles : Len(content'[k]) <= Capacity
  <2>1. Len(<<>>) <= Capacity
    BY <1>0 DEF SensiblePipes
  <2>2. QED
    BY <1>0, <1>2, <1>5, <2>1
<1>6. QED
  BY <1>1, <1>3, <1>4, <1>5, Fifos

LEMMA NextPipes == ASSUME SensiblePipes, PipeTypes, [Fifo!Next]_Fifo!vars PROVE PipeTypes'
<1>1. /\ notify' \subseteq Handles
      /\ file' \in [Handles -> {"none", "open", "paused", "closed"}]
      /\ closing' \in Handles \cup {None}
  <2>1. ASSUME NEW h \in Handles,
             Fifo!notify_close(h) \/ \E how \in {"open", "paused"} : Fifo!notify_state(h, how)
        PROVE  /\ notify' \subseteq Handles
               /\ file' \in [Handles -> {"none", "open", "paused", "closed"}]
               /\ closing' \in Handles \cup {None}
    BY <2>1 DEF PipeTypes, Fifo!TypeOK, Fifo!notify_close, Fifo!notify_state
  <2>2. QED
    BY <2>1 DEF PipeTypes, Fifo!TypeOK, Fifo!Next, Fifo!vars, Fifo!notify_open, Fifo!close,
       Fifo!claim_alert, Fifo!gpio_free, Fifo!gpio_claim_alert, Fifo!callback, Fifo!report,
       Fifo!call, Fifo!Read
<1>2. /\ claim' \in Handles \cup {None, Unclaimed}
      /\ claiming' \in Handles \cup {None, Unclaimed}
  BY DEF PipeTypes, Fifo!TypeOK, Fifo!Next, Fifo!vars, Fifo!notify_open, Fifo!close,
     Fifo!claim_alert, Fifo!gpio_free, Fifo!gpio_claim_alert, Fifo!callback, Fifo!report,
     Fifo!call, Fifo!Read, Fifo!notify_close, Fifo!notify_state
<1>3. reporting' \in [Reporters -> SUBSET Callbacks]
  <2>1. ASSUME NEW r \in Reporters, Fifo!report(r) \/ Fifo!call(r)
        PROVE  reporting' = reporting \/ \E some \in SUBSET Callbacks : reporting' = [reporting EXCEPT ![r] = some]
    <3>1. reporting' = reporting \/ reporting' = [reporting EXCEPT ![r] = listeners]
          \/ \E c \in reporting[r] : reporting' = [reporting EXCEPT ![r] = reporting[r] \ {c}]
      BY <2>1 DEF Fifo!report, Fifo!call
    <3>2. reporting[r] \in SUBSET Callbacks /\ listeners \in SUBSET Callbacks
      BY DEF PipeTypes, Fifo!TypeOK
    <3>3. QED
      BY <3>1, <3>2
  <2>2. ASSUME NEW r \in Reporters, NEW some \in SUBSET Callbacks, reporting' = [reporting EXCEPT ![r] = some]
        PROVE  reporting' \in [Reporters -> SUBSET Callbacks]
    BY <2>2 DEF PipeTypes, Fifo!TypeOK
  <2>3. CASE reporting' = reporting
    BY <2>3 DEF PipeTypes, Fifo!TypeOK
  <2>4. reporting' = reporting \/ \E r \in Reporters : Fifo!report(r) \/ Fifo!call(r)
    BY DEF Fifo!Next, Fifo!vars, Fifo!notify_open, Fifo!close, Fifo!claim_alert, Fifo!gpio_free,
       Fifo!gpio_claim_alert, Fifo!callback, Fifo!Read, Fifo!notify_close, Fifo!notify_state
  <2>5. QED
    BY <2>1, <2>2, <2>3, <2>4
<1>4. listeners' \in SUBSET Callbacks
  BY DEF PipeTypes, Fifo!TypeOK, Fifo!Next, Fifo!vars, Fifo!notify_open, Fifo!close,
     Fifo!claim_alert, Fifo!gpio_free, Fifo!gpio_claim_alert, Fifo!callback, Fifo!report,
     Fifo!call, Fifo!Read, Fifo!notify_close, Fifo!notify_state
<1>5. QED
  BY <1>1, <1>2, <1>3, <1>4, FifoTypes DEF PipeTypes, Fifo!TypeOK

(* lgpio_stub: the pipes, the claim and its reporting keep their types.        *)
THEOREM NotifyPipesTypeCorrect == ASSUME SensiblePipes PROVE Fifo!Spec => []Fifo!TypeOK
<1>1. Fifo!Init => PipeTypes
  BY InitPipes
<1>2. PipeTypes /\ [Fifo!Next]_Fifo!vars => PipeTypes'
  BY NextPipes
<1>3. PipeTypes => Fifo!TypeOK
  BY DEF PipeTypes
<1>4. QED
  BY <1>1, <1>2, <1>3, PTL DEF Fifo!Spec

-----------------------------------------------------------------------------
LEMMA NextPipesTaken ==
    ASSUME SensiblePipes, PipeTypes, PipesTaken, [Fifo!Next]_Fifo!vars PROVE PipesTaken'
<1>1. CASE Fifo!notify_open
  <2>1. PICK h \in Handles : /\ {k \in Handles : k <= h /\ file[k] = "none"} = {h}
                             /\ notify' = notify \cup {h}
                             /\ file' = [file EXCEPT ![h] = "open"]
    BY <1>1 DEF Fifo!notify_open
  <2>2. file[h] = "none"
    BY <2>1
  <2>3. closing' = closing /\ closing # h
    BY <1>1, <2>2 DEF PipesTaken, Fifo!notify_open, SensiblePipes
  <2>4. QED
    BY <2>1, <2>3 DEF PipesTaken, Fifo!PipesAreOpen, PipeTypes, Fifo!TypeOK
<1>2. CASE Fifo!close
  <2>1. closing \in Handles /\ closing \notin notify /\ notify' = notify /\ closing' = None
        /\ file' = [file EXCEPT ![closing] = "closed"]
    BY <1>2 DEF Fifo!close, PipeTypes, PipesTaken
  <2>2. None \notin notify
    BY DEF SensiblePipes, PipeTypes, Fifo!TypeOK
  <2>3. QED
    BY <2>1, <2>2 DEF PipesTaken, Fifo!PipesAreOpen, PipeTypes, Fifo!TypeOK
<1>3. ASSUME NEW h \in Handles, Fifo!notify_close(h) PROVE PipesTaken'
  BY <1>3 DEF Fifo!notify_close, PipesTaken, Fifo!PipesAreOpen, PipeTypes, Fifo!TypeOK, SensiblePipes
<1>4. ASSUME NEW h \in Handles, NEW how \in {"open", "paused"}, Fifo!notify_state(h, how)
      PROVE  PipesTaken'
  BY <1>4 DEF Fifo!notify_state, PipesTaken, Fifo!PipesAreOpen, PipeTypes, Fifo!TypeOK, SensiblePipes
<1>5. CASE UNCHANGED <<notify, file, closing>>
  BY <1>5 DEF PipesTaken, Fifo!PipesAreOpen
<1>6. ASSUME \/ UNCHANGED Fifo!vars \/ Fifo!claim_alert \/ Fifo!gpio_free \/ Fifo!gpio_claim_alert(None)
             \/ \E h \in Handles : Fifo!gpio_claim_alert(h) \/ \E n \in 1..Capacity : Fifo!Read(h, n)
             \/ \E c \in Callbacks : Fifo!callback(c)
             \/ \E r \in Reporters : Fifo!report(r) \/ Fifo!call(r)
      PROVE  UNCHANGED <<notify, file, closing>>
  BY <1>6 DEF Fifo!vars, Fifo!claim_alert, Fifo!gpio_free, Fifo!gpio_claim_alert, Fifo!Read,
     Fifo!callback, Fifo!report, Fifo!call
<1>7. QED
  BY <1>1, <1>2, <1>3, <1>4, <1>5, <1>6 DEF Fifo!Next

(* lgpio_stub.py: no alert is sent to a pipe whose file was closed, however *)
(* claims, closes and reports interleave.                                  *)
THEOREM ReportsGoToOpenPipes == ASSUME SensiblePipes PROVE Fifo!Spec => []Fifo!PipesAreOpen
<1>1. Fifo!Init => PipeTypes /\ PipesTaken
  BY InitPipes
<1>2. PipeTypes /\ PipesTaken /\ [Fifo!Next]_Fifo!vars => PipeTypes' /\ PipesTaken'
  BY NextPipes, NextPipesTaken
<1>3. PipesTaken => Fifo!PipesAreOpen
  BY DEF PipesTaken
<1>4. QED
  BY <1>1, <1>2, <1>3, PTL DEF Fifo!Spec

-----------------------------------------------------------------------------
(* Each FIFO is an EventQueue of one source.                               *)

LEMMA NextPipeBuffers ==
    ASSUME SensiblePipes, PipeTypes, [Fifo!Next]_Fifo!vars
    PROVE  [Fifo!Buffer!Next]_Fifo!Buffer!vars
<1> DEFINE lines(n) == [h \in Handles |-> [s \in {"line"} |-> n[h]]]
<1>1. CASE UNCHANGED <<content, sent>>
  BY <1>1 DEF Fifo!Buffer!vars
<1>2. ASSUME NEW h \in Handles, Len(content[h]) < Capacity,
             content' = [content EXCEPT ![h] = Append(@, <<"line", sent[h] + 1>>)],
             sent' = [sent EXCEPT ![h] = @ + 1]
      PROVE  Fifo!Buffer!Next
  <2>1. lines(sent)[h]["line"] = sent[h]
    OBVIOUS
  <2>2. lines(sent') = [lines(sent) EXCEPT ![h]["line"] = @ + 1]
    <3>1. [lines(sent) EXCEPT ![h]["line"] = @ + 1]
          = [k \in Handles |-> IF k = h THEN [s \in {"line"} |-> sent[h] + 1] ELSE lines(sent)[k]]
      OBVIOUS
    <3>2. \A k \in Handles : sent'[k] = IF k = h THEN sent[h] + 1 ELSE sent[k]
      BY <1>2 DEF PipeTypes
    <3>3. QED
      BY <3>1, <3>2
  <2>3. Fifo!Buffer!Put(h, "line")
    BY <1>2, <2>1, <2>2 DEF Fifo!Buffer!Put
  <2>4. QED
    BY <2>3 DEF Fifo!Buffer!Next
<1>3. ASSUME NEW h \in Handles, NEW n \in 1..Capacity, n <= Len(content[h]), sent' = sent,
             content' = [content EXCEPT ![h] = SubSeq(@, n + 1, Len(@))]
      PROVE  Fifo!Buffer!Next
  BY <1>3 DEF Fifo!Buffer!Take, Fifo!Buffer!Next
<1>4. ASSUME NEW h \in Handles, content' = [content EXCEPT ![h] = <<>>], sent' = sent
      PROVE  Fifo!Buffer!Next
  BY <1>4 DEF Fifo!Buffer!Drop, Fifo!Buffer!Next
<1>5. QED
  BY <1>1, <1>2, <1>3, <1>4, Fifos

(* lgpio_stub.py: a notification pipe implements EventQueue: its reports   *)
(* are numbered, read once and in order, and lost only by a full FIFO.     *)
THEOREM PipesBufferEvents == ASSUME SensiblePipes PROVE Fifo!Spec => Fifo!BuffersEvents
<1>1. Fifo!Init => PipeTypes
  BY InitPipes
<1>2. PipeTypes /\ [Fifo!Next]_Fifo!vars => PipeTypes'
  BY NextPipes
<1>3. Fifo!Init => Fifo!Buffer!Init
  BY DEF Fifo!Init, Fifo!Buffer!Init
<1>4. PipeTypes /\ [Fifo!Next]_Fifo!vars => [Fifo!Buffer!Next]_Fifo!Buffer!vars
  BY NextPipeBuffers
<1>5. QED
  BY <1>1, <1>2, <1>3, <1>4, PTL DEF Fifo!Spec, Fifo!BuffersEvents, Fifo!Buffer!Spec

-----------------------------------------------------------------------------
(* All of the hardware.  What the proofs of the gpiod front ends and of    *)
(* the board say is said of the same lines and parts here, and their       *)
(* definitions of what these do are the same.                              *)

V2Facts == INSTANCE GpiodProofs WITH
    Kinds <- LineTypes, pin <- v2pin, pipes <- v2pipes, pc <- v2pc, call <- v2call

V1Facts == INSTANCE GpiodProofs WITH
    Kinds <- LineTypes, pin <- v1pin, pipes <- v1pipes, pc <- v1pc, call <- v1call

PortFacts == INSTANCE BoardProofs WITH
    lock <- buslock, holder <- lock, pc <- filepc, MaxTaken <- MaxSamples

BusFacts == INSTANCE BoardProofs WITH
    Libraries <- BusLibraries, library <- buslibrary, open <- busopen, call <- buscall,
    lock <- buslock, holder <- lock, pc <- filepc, MaxTaken <- MaxSamples

(* The constants are what each component's module says they are. *)
SensibleHardware ==
    /\ Sensible /\ SensiblePipes
    /\ V2Facts!Sensible /\ V1Facts!SensibleV1
    /\ BusFacts!SensibleBus /\ PortFacts!Sensible /\ BusFacts!SensibleFiles
    /\ Channels # {} /\ BusFacts!SensibleLayout

LEMMA DocumentMeans ==
    /\ \A p : Document!where(p) = BusFacts!Document!where(p)
    /\ \A i : Document!Taken(i) <=> BusFacts!Document!Taken(i)
    /\ \A e : Document!_part(e) <=> BusFacts!Document!_part(e)
    /\ Document!Buses = BusFacts!Document!Buses
    /\ Document!Sensors = BusFacts!Document!Sensors
    /\ Document!Ids = BusFacts!Document!Ids
    /\ \A S : Document!Cardinality(S) = BusFacts!Document!Cardinality(S)
<1>1. \A p : Document!where(p) = BusFacts!Document!where(p)
  BY DEF Document!where, Document!I2C_PARTS, BusFacts!Document!where, BusFacts!Document!I2C_PARTS
<1>2. \A i : Document!Taken(i) <=> BusFacts!Document!Taken(i)
  BY <1>1 DEF Document!Taken, BusFacts!Document!Taken
<1>3. \A e : Document!_part(e) <=> BusFacts!Document!_part(e)
  BY DEF Document!_part, Document!PARTS, Document!I2C_PARTS,
     BusFacts!Document!_part, BusFacts!Document!PARTS, BusFacts!Document!I2C_PARTS
<1>4. Document!Buses = BusFacts!Document!Buses
  BY DEF Document!Buses, BusFacts!Document!Buses
<1>5. \A S : Document!Cardinality(S) = BusFacts!Document!Cardinality(S)
  BY Zenon DEF Document!Cardinality, BusFacts!Document!Cardinality
<1>6. Document!Sensors = BusFacts!Document!Sensors
  BY DEF Document!Sensors, BusFacts!Document!Sensors
<1>7. Document!Ids = BusFacts!Document!Ids
  BY <1>5, <1>6 DEF Document!Ids, BusFacts!Document!Ids
<1>8. QED
  BY <1>1, <1>2, <1>3, <1>4, <1>5, <1>6, <1>7

LEMMA V2AsProved == V2!Spec => V2Facts!Spec
<1>1. V2!Init => V2Facts!Init
  BY DEF V2!Callers, V2Facts!Callers, V2!Quiet, V2Facts!Quiet, V2!Unmade, V2Facts!Unmade, V2!NoCall,
     V2Facts!NoCall, V2!Goto, V2Facts!Goto, V2!Return, V2Facts!Return, V2!edge, V2Facts!edge,
     V2!Init, V2Facts!Init
<1>2. V2!Next => V2Facts!Next
  BY DEF V2!Quiet, V2Facts!Quiet, V2!Unmade, V2Facts!Unmade, V2!NoCall, V2Facts!NoCall, V2!Made,
     V2Facts!Made, V2!Live, V2Facts!Live, V2!Goto, V2Facts!Goto, V2!Return, V2Facts!Return,
     V2!BusyWith, V2Facts!BusyWith, V2!request_lines, V2Facts!request_lines,
     V2!reconfigure_lines, V2Facts!reconfigure_lines, V2!apply, V2Facts!apply, V2!applied,
     V2Facts!applied, V2!set_values, V2Facts!set_values, V2!release, V2Facts!release,
     V2!release_pins, V2Facts!release_pins, V2!close, V2Facts!close, V2!change, V2Facts!change,
     V2!on_change, V2Facts!on_change, V2!edge, V2Facts!edge, V2!Queued, V2Facts!Queued,
     V2!Queue, V2Facts!Queue, V2!enqueue, V2Facts!enqueue, V2!read_edge_events,
     V2Facts!read_edge_events, V2!read, V2Facts!read, V2!wakes, V2Facts!wakes, V2!Owner,
     V2Facts!Owner, V2!Reader, V2Facts!Reader, V2!Driver, V2Facts!Driver, V2!Next, V2Facts!Next
<1>3. [V2!Next]_V2!vars => [V2Facts!Next]_V2Facts!vars
  BY <1>2 DEF V2!vars, V2Facts!vars
<1>4. QED
  BY <1>1, <1>3, PTL DEF V2!Spec, V2Facts!Spec

LEMMA V2Shows ==
    /\ V2Facts!TypeOK => V2!TypeOK
    /\ V2Facts!HeldByTheLive => V2!HeldByTheLive
    /\ V2Facts!NoMissedWakeup => V2!NoMissedWakeup
<1>1. V2Facts!TypeOK => V2!TypeOK
  BY DEF V2!Callers, V2Facts!Callers, V2!NoCall, V2Facts!NoCall, V2!Made, V2Facts!Made, V2!Live,
     V2Facts!Live, V2!Goto, V2Facts!Goto, V2!Return, V2Facts!Return, V2!BusyWith,
     V2Facts!BusyWith, V2!apply, V2Facts!apply, V2!applied, V2Facts!applied, V2!release,
     V2Facts!release, V2!close, V2Facts!close, V2!edge, V2Facts!edge, V2!read, V2Facts!read,
     V2!Places, V2Facts!Places, V2!TypeOK, V2Facts!TypeOK
<1>2. V2Facts!HeldByTheLive => V2!HeldByTheLive
  BY DEF V2!Made, V2Facts!Made, V2!Live, V2Facts!Live, V2!HeldByTheLive, V2Facts!HeldByTheLive
<1>3. V2Facts!NoMissedWakeup => V2!NoMissedWakeup
  BY DEF V2!Made, V2Facts!Made, V2!Live, V2Facts!Live, V2!NoMissedWakeup, V2Facts!NoMissedWakeup
<1>4. QED
  BY <1>1, <1>2, <1>3

LEMMA V2Buffers == V2Facts!BuffersEvents => V2!BuffersEvents
<1>1. V2Facts!Buffer!Init => V2!Buffer!Init
  BY DEF V2!Buffer!Init, V2Facts!Buffer!Init
<1>2. [V2Facts!Buffer!Next]_V2Facts!Buffer!vars => [V2!Buffer!Next]_V2!Buffer!vars
  BY DEF V2!Buffer!vars, V2Facts!Buffer!vars, V2!Buffer!Put, V2Facts!Buffer!Put, V2!Buffer!Take,
     V2Facts!Buffer!Take, V2!Buffer!Drop, V2Facts!Buffer!Drop, V2!Buffer!Next,
     V2Facts!Buffer!Next
<1>3. QED
  BY <1>1, <1>2, PTL DEF V2!BuffersEvents, V2Facts!BuffersEvents, V2!Buffer!Spec, V2Facts!Buffer!Spec

LEMMA V1AsProved == V1!Spec => V1Facts!V1!Spec
<1>1. V1!Init => V1Facts!V1!Init
  BY DEF V1!Callers, V1Facts!V1!Callers, V1!Unrequested, V1Facts!V1!Unrequested, V1!NoCall,
     V1Facts!V1!NoCall, V1!Init, V1Facts!V1!Init
<1>2. V1!Next => V1Facts!V1!Next
  BY DEF V1!EventKinds, V1Facts!V1!EventKinds, V1!Unrequested, V1Facts!V1!Unrequested, V1!NoCall,
     V1Facts!V1!NoCall, V1!Goto, V1Facts!V1!Goto, V1!Return, V1Facts!V1!Return, V1!Requested,
     V1Facts!V1!Requested, V1!BeingRead, V1Facts!V1!BeingRead, V1!Configured,
     V1Facts!V1!Configured, V1!AllFree, V1Facts!V1!AllFree, V1!Opened, V1Facts!V1!Opened,
     V1!HeldFor, V1Facts!V1!HeldFor, V1!request_fails, V1Facts!V1!request_fails,
     V1!request, V1Facts!V1!request, V1!configure, V1Facts!V1!configure, V1!typed,
     V1Facts!V1!typed, V1!set_config, V1Facts!V1!set_config, V1!set_values,
     V1Facts!V1!set_values, V1!release, V1Facts!V1!release, V1!release_pin,
     V1Facts!V1!release_pin, V1!close, V1Facts!V1!close, V1!change, V1Facts!V1!change,
     V1!Wanted, V1Facts!V1!Wanted, V1!Wake, V1Facts!V1!Wake, V1!Room, V1Facts!V1!Room,
     V1!on_change, V1Facts!V1!on_change, V1!event_read, V1Facts!V1!event_read, V1!read,
     V1Facts!V1!read, V1!wakes, V1Facts!V1!wakes, V1!Owner, V1Facts!V1!Owner, V1!Reader,
     V1Facts!V1!Reader, V1!Driver, V1Facts!V1!Driver, V1!Next, V1Facts!V1!Next
<1>3. [V1!Next]_V1!vars => [V1Facts!V1!Next]_V1Facts!V1!vars
  BY <1>2 DEF V1!vars, V1Facts!V1!vars
<1>4. QED
  BY <1>1, <1>3, PTL DEF V1!Spec, V1Facts!V1!Spec

LEMMA V1Shows ==
    /\ V1Facts!V1!TypeOK => V1!TypeOK
    /\ V1Facts!V1!OneHolder => V1!OneHolder
    /\ V1Facts!V1!FdSignalsEvents => V1!FdSignalsEvents
<1>1. V1Facts!V1!TypeOK => V1!TypeOK
  BY DEF V1!EventKinds, V1Facts!V1!EventKinds, V1!AllKinds, V1Facts!V1!AllKinds, V1!Callers,
     V1Facts!V1!Callers, V1!Unrequested, V1Facts!V1!Unrequested, V1!NoCall, V1Facts!V1!NoCall,
     V1!Goto, V1Facts!V1!Goto, V1!Return, V1Facts!V1!Return, V1!Requested, V1Facts!V1!Requested,
     V1!BeingRead, V1Facts!V1!BeingRead, V1!Configured, V1Facts!V1!Configured, V1!configure,
     V1Facts!V1!configure, V1!typed, V1Facts!V1!typed, V1!release, V1Facts!V1!release, V1!close,
     V1Facts!V1!close, V1!read, V1Facts!V1!read, V1!Places, V1Facts!V1!Places, V1!TypeOK,
     V1Facts!V1!TypeOK
<1>2. V1Facts!V1!OneHolder => V1!OneHolder
  BY DEF V1!Requested, V1Facts!V1!Requested, V1!BeingRequested, V1Facts!V1!BeingRequested,
     V1!OneHolder, V1Facts!V1!OneHolder
<1>3. V1Facts!V1!FdSignalsEvents => V1!FdSignalsEvents
  BY DEF V1!FdSignalsEvents, V1Facts!V1!FdSignalsEvents
<1>4. QED
  BY <1>1, <1>2, <1>3

LEMMA V1Buffers == V1Facts!V1!BuffersEvents => V1!BuffersEvents
<1>1. V1Facts!V1!Buffer!Init => V1!Buffer!Init
  BY DEF V1!Buffer!Init, V1Facts!V1!Buffer!Init
<1>2. [V1Facts!V1!Buffer!Next]_V1Facts!V1!Buffer!vars => [V1!Buffer!Next]_V1!Buffer!vars
  BY DEF V1!Buffer!vars, V1Facts!V1!Buffer!vars, V1!Buffer!Put, V1Facts!V1!Buffer!Put, V1!Buffer!Take,
     V1Facts!V1!Buffer!Take, V1!Buffer!Drop, V1Facts!V1!Buffer!Drop, V1!Buffer!Next,
     V1Facts!V1!Buffer!Next
<1>3. QED
  BY <1>1, <1>2, PTL DEF V1!BuffersEvents, V1Facts!V1!BuffersEvents, V1!Buffer!Spec, V1Facts!V1!Buffer!Spec

LEMMA BusAsProved == Bus!Spec => BusFacts!Bus!Spec
<1>1. Bus!Init => BusFacts!Bus!Init
  BY DEF Bus!NoCall, BusFacts!Bus!NoCall, Bus!Init, BusFacts!Bus!Init
<1>2. Bus!Next => BusFacts!Bus!Next
  BY DEF Bus!Register, BusFacts!Bus!Register, Bus!Transfers, BusFacts!Bus!Transfers, Bus!Kinds,
     BusFacts!Bus!Kinds, Bus!Combined, BusFacts!Bus!Combined, Bus!Busy, BusFacts!Bus!Busy,
     Bus!Open, BusFacts!Bus!Open, Bus!Close, BusFacts!Bus!Close, Bus!Begin, BusFacts!Bus!Begin,
     Bus!NoCall, BusFacts!Bus!NoCall, Bus!Return, BusFacts!Bus!Return, Bus!Works,
     BusFacts!Bus!Works, Bus!Transfer, BusFacts!Bus!Transfer, Bus!Dropout, BusFacts!Bus!Dropout,
     Bus!Script, BusFacts!Bus!Script, Bus!Next, BusFacts!Bus!Next
<1>3. [Bus!Next]_Bus!vars => [BusFacts!Bus!Next]_BusFacts!Bus!vars
  BY <1>2 DEF Bus!vars, BusFacts!Bus!vars
<1>4. QED
  BY <1>1, <1>3, PTL DEF Bus!Spec, BusFacts!Bus!Spec

LEMMA BusShows ==
    /\ BusFacts!Bus!TypeOK => Bus!TypeOK
    /\ BusFacts!Bus!ReadsAreWhole => Bus!ReadsAreWhole
<1>1. BusFacts!Bus!TypeOK => Bus!TypeOK
  BY DEF Bus!Register, BusFacts!Bus!Register, Bus!Busy, BusFacts!Bus!Busy, Bus!TypeOK,
     BusFacts!Bus!TypeOK
<1>2. BusFacts!Bus!ReadsAreWhole => Bus!ReadsAreWhole
  BY DEF Bus!ReadsAreWhole, BusFacts!Bus!ReadsAreWhole
<1>3. QED
  BY <1>1, <1>2

LEMMA PortAsProved == Port!Spec => PortFacts!Spec
<1>1. Port!Init => PortFacts!Init
  BY DEF Port!NoCall, PortFacts!NoCall, Port!Init, PortFacts!Init
<1>2. Port!Next => PortFacts!Next
  BY DEF Port!NoCall, PortFacts!NoCall, Port!Idle, PortFacts!Idle, Port!Return, PortFacts!Return,
     Port!Fits, PortFacts!Fits, Port!feed, PortFacts!feed, Port!write, PortFacts!write,
     Port!flush_input, PortFacts!flush_input, Port!Open, PortFacts!Open, Port!Close,
     PortFacts!Close, Port!reset_input_buffer, PortFacts!reset_input_buffer, Port!Begin,
     PortFacts!Begin, Port!TimesOut, PortFacts!TimesOut, Port!Left, PortFacts!Left, Port!Takes,
     PortFacts!Takes, Port!read, PortFacts!read, Port!read_until, PortFacts!read_until,
     Port!Reads, PortFacts!Reads, Port!Next, PortFacts!Next
<1>3. [Port!Next]_Port!vars => [PortFacts!Next]_PortFacts!vars
  BY <1>2 DEF Port!vars, PortFacts!vars
<1>4. QED
  BY <1>1, <1>3, PTL DEF Port!Spec, PortFacts!Spec

LEMMA PortShows ==
    /\ PortFacts!TypeOK => Port!TypeOK
    /\ PortFacts!LinesInOrder => Port!LinesInOrder
<1>1. PortFacts!TypeOK => Port!TypeOK
  BY DEF Port!NoCall, PortFacts!NoCall, Port!Idle, PortFacts!Idle, Port!TypeOK, PortFacts!TypeOK
<1>2. PortFacts!LinesInOrder => Port!LinesInOrder
  BY DEF Port!LinesInOrder, PortFacts!LinesInOrder
<1>3. QED
  BY <1>1, <1>2

LEMMA PortBuffers == PortFacts!BuffersEvents => Port!BuffersEvents
<1>1. PortFacts!Buffer!Init => Port!Buffer!Init
  BY DEF Port!Buffer!Init, PortFacts!Buffer!Init
<1>2. [PortFacts!Buffer!Next]_PortFacts!Buffer!vars => [Port!Buffer!Next]_Port!Buffer!vars
  BY DEF Port!Buffer!vars, PortFacts!Buffer!vars, Port!Buffer!Put, PortFacts!Buffer!Put,
     Port!Buffer!Take, PortFacts!Buffer!Take, Port!Buffer!Drop, PortFacts!Buffer!Drop,
     Port!Buffer!Next, PortFacts!Buffer!Next
<1>3. QED
  BY <1>1, <1>2, PTL DEF Port!BuffersEvents, PortFacts!BuffersEvents, Port!Buffer!Spec, PortFacts!Buffer!Spec

LEMMA FilesAsProved == Files!Spec => BusFacts!Files!Spec
<1>1. Files!Init => BusFacts!Files!Init
  BY DEF Files!Init, BusFacts!Files!Init
<1>2. Files!Next => BusFacts!Files!Next
  BY DEF Files!Empty, BusFacts!Files!Empty, Files!Redirected, BusFacts!Files!Redirected, Files!Goto,
     BusFacts!Files!Goto, Files!add_file, BusFacts!Files!add_file, Files!install,
     BusFacts!Files!install, Files!uninstall, BusFacts!Files!uninstall, Files!Refreshed,
     BusFacts!Files!Refreshed, Files!open, BusFacts!Files!open, Files!generate,
     BusFacts!Files!generate, Files!truncate, BusFacts!Files!truncate, Files!write,
     BusFacts!Files!write, Files!read, BusFacts!Files!read, Files!close, BusFacts!Files!close,
     Files!Script, BusFacts!Files!Script, Files!Next, BusFacts!Files!Next
<1>3. [Files!Next]_Files!vars => [BusFacts!Files!Next]_BusFacts!Files!vars
  BY <1>2 DEF Files!vars, BusFacts!Files!vars
<1>4. QED
  BY <1>1, <1>3, PTL DEF Files!Spec, BusFacts!Files!Spec

LEMMA FilesShows ==
    /\ BusFacts!Files!TypeOK => Files!TypeOK
    /\ BusFacts!Files!FreshReads => Files!FreshReads
<1>1. BusFacts!Files!TypeOK => Files!TypeOK
  BY DEF Files!Redirected, BusFacts!Files!Redirected, Files!TypeOK, BusFacts!Files!TypeOK
<1>2. BusFacts!Files!FreshReads => Files!FreshReads
  BY DEF Files!Empty, BusFacts!Files!Empty, Files!Redirected, BusFacts!Files!Redirected, Files!Goto,
     BusFacts!Files!Goto, Files!Refreshed, BusFacts!Files!Refreshed, Files!open,
     BusFacts!Files!open, Files!generate, BusFacts!Files!generate, Files!truncate,
     BusFacts!Files!truncate, Files!write, BusFacts!Files!write, Files!read,
     BusFacts!Files!read, Files!FreshReads, BusFacts!Files!FreshReads
<1>3. QED
  BY <1>1, <1>2

LEMMA BoardAsProved == Board!Spec => BusFacts!Board!Spec
<1>1. Board!Init => BusFacts!Board!Init
  BY DEF Board!Sleep, BusFacts!Board!Sleep, Board!Skipped, BusFacts!Board!Skipped, Board!ResetBme,
     BusFacts!Board!ResetBme, Board!Init, BusFacts!Board!Init
<1>2. Board!Next => BusFacts!Board!Next
  BY DEF Board!Sleep, BusFacts!Board!Sleep, Board!Forced, BusFacts!Board!Forced, Board!Normal,
     BusFacts!Board!Normal, Board!Modes, BusFacts!Board!Modes, Board!Skipped,
     BusFacts!Board!Skipped, Board!ResetBme, BusFacts!Board!ResetBme, Board!Taken,
     BusFacts!Board!Taken, Board!Dropout, BusFacts!Board!Dropout, Board!Refuses,
     BusFacts!Board!Refuses, Board!Accepts, BusFacts!Board!Accepts, Board!Measured,
     BusFacts!Board!Measured, Board!write_ctrl_hum, BusFacts!Board!write_ctrl_hum,
     Board!AfterMeasuring, BusFacts!Board!AfterMeasuring, Board!write_ctrl_meas,
     BusFacts!Board!write_ctrl_meas, Board!write_reset, BusFacts!Board!write_reset,
     Board!read_bme, BusFacts!Board!read_bme, Board!Converted, BusFacts!Board!Converted,
     Board!write_config, BusFacts!Board!write_config, Board!write_pointer,
     BusFacts!Board!write_pointer, Board!read_ads, BusFacts!Board!read_ads,
     Board!write_pwr_mgmt, BusFacts!Board!write_pwr_mgmt, Board!read_mpu,
     BusFacts!Board!read_mpu, Board!Next, BusFacts!Board!Next
<1>3. [Board!Next]_Board!vars => [BusFacts!Board!Next]_BusFacts!Board!vars
  BY <1>2 DEF Board!vars, BusFacts!Board!vars
<1>4. QED
  BY <1>1, <1>3, PTL DEF Board!Spec, BusFacts!Board!Spec

LEMMA BoardShows ==
    /\ BusFacts!Board!TypeOK => Board!TypeOK
    /\ BusFacts!Board!SettingsHold => Board!SettingsHold
<1>1. BusFacts!Board!TypeOK => Board!TypeOK
  BY DEF Board!Sleep, BusFacts!Board!Sleep, Board!Forced, BusFacts!Board!Forced, Board!Normal,
     BusFacts!Board!Normal, Board!Modes, BusFacts!Board!Modes, Board!Skipped,
     BusFacts!Board!Skipped, Board!TypeOK, BusFacts!Board!TypeOK
<1>2. BusFacts!Board!SettingsHold => Board!SettingsHold
  BY DEF Board!Forced, BusFacts!Board!Forced, Board!ForcedSleeps, BusFacts!Board!ForcedSleeps,
     Board!ConversionIsTheConfigs, BusFacts!Board!ConversionIsTheConfigs, Board!SettingsHold,
     BusFacts!Board!SettingsHold
<1>3. QED
  BY <1>1, <1>2

LEMMA DocumentAsProved == Document!Spec => BusFacts!Document!Spec
<1>1. Document!Init => BusFacts!Document!Init
  BY DEF Document!Init, BusFacts!Document!Init
<1>2. ASSUME Document!attach PROVE BusFacts!Document!attach
  BY <1>2, DocumentMeans DEF Document!attach, BusFacts!Document!attach
<1>3. [Document!Next]_Document!vars => [BusFacts!Document!Next]_BusFacts!Document!vars
  BY <1>2, DocumentMeans DEF Document!Next, Document!Write, Document!parse, Document!reset,
     Document!vars, BusFacts!Document!Next, BusFacts!Document!Write, BusFacts!Document!parse,
     BusFacts!Document!reset, BusFacts!Document!vars
<1>4. QED
  BY <1>1, <1>3, PTL DEF Document!Spec, BusFacts!Document!Spec

LEMMA DocumentShows ==
    /\ BusFacts!Document!TypeOK => Document!TypeOK
    /\ BusFacts!Document!NothingShadowed => Document!NothingShadowed
<1>1. BusFacts!Document!TypeOK => Document!TypeOK
  BY DEF Document!TypeOK, BusFacts!Document!TypeOK
<1>2. BusFacts!Document!NothingShadowed => Document!NothingShadowed
  BY DocumentMeans DEF Document!NothingShadowed, BusFacts!Document!NothingShadowed
<1>3. QED
  BY <1>1, <1>2

LEMMA PartsOfHardware ==
    HardwareSpec => /\ Spec /\ V2!Spec /\ V1!Spec /\ Bus!Spec /\ Port!Spec /\ Fifo!Spec
                    /\ Files!Spec /\ Board!Spec /\ Document!Spec
<1> DEFINE all == <<vars, v2, v1, bus, port, fifo, scratch, parts, document>>
<1>1. [HardwareNext]_all => [Next]_vars
  BY DEF HardwareNext, RpiStep, V2Step, V1Step, BusStep, PortStep, FifoStep, FileStep,
     PartStep, DocumentStep
<1>2. [HardwareNext]_all => [V2!Next]_V2!vars
  BY DEF HardwareNext, RpiStep, V2Step, V1Step, BusStep, PortStep, FifoStep, FileStep,
     PartStep, DocumentStep, V2!vars, v2
<1>3. [HardwareNext]_all => [V1!Next]_V1!vars
  BY DEF HardwareNext, RpiStep, V2Step, V1Step, BusStep, PortStep, FifoStep, FileStep,
     PartStep, DocumentStep, V1!vars, v1
<1>4. [HardwareNext]_all => [Bus!Next]_Bus!vars
  BY DEF HardwareNext, RpiStep, V2Step, V1Step, BusStep, PortStep, FifoStep, FileStep,
     PartStep, DocumentStep, Bus!vars, bus
<1>5. [HardwareNext]_all => [Port!Next]_Port!vars
  BY DEF HardwareNext, RpiStep, V2Step, V1Step, BusStep, PortStep, FifoStep, FileStep,
     PartStep, DocumentStep, Port!vars, port
<1>6. [HardwareNext]_all => [Fifo!Next]_Fifo!vars
  BY DEF HardwareNext, RpiStep, V2Step, V1Step, BusStep, PortStep, FifoStep, FileStep,
     PartStep, DocumentStep, Fifo!vars, fifo
<1>7. [HardwareNext]_all => [Files!Next]_Files!vars
  BY DEF HardwareNext, RpiStep, V2Step, V1Step, BusStep, PortStep, FifoStep, FileStep,
     PartStep, DocumentStep, Files!vars, scratch
<1>8. [HardwareNext]_all => [Board!Next]_Board!vars
  BY DEF HardwareNext, RpiStep, V2Step, V1Step, BusStep, PortStep, FifoStep, FileStep,
     PartStep, DocumentStep, Board!vars, parts
<1>9. [HardwareNext]_all => [Document!Next]_Document!vars
  BY DEF HardwareNext, RpiStep, V2Step, V1Step, BusStep, PortStep, FifoStep, FileStep,
     PartStep, DocumentStep, Document!vars, document
<1>10. QED
  BY <1>1, <1>2, <1>3, <1>4, <1>5, <1>6, <1>7, <1>8, <1>9, PTL
  DEF HardwareSpec, HardwareInit, Spec, V2!Spec, V1!Spec, Bus!Spec, Port!Spec, Fifo!Spec, Files!Spec,
      Board!Spec, Document!Spec

(* Lines, requests, transfers, bytes, pipes, files and parts are of their  *)
(* types, and a report has only listeners of the line, whichever component *)
(* of the process moves.                                                   *)
THEOREM HardwareTypeCorrect == ASSUME SensibleHardware PROVE HardwareSpec => []HardwareTypeOK
<1>1. Spec => []TypeOK
  BY RpiTypeCorrect DEF SensibleHardware
<1>2. V2Facts!Spec => []V2Facts!TypeOK
  BY V2Facts!RequestsTypeCorrect DEF SensibleHardware
<1>3. V1Facts!V1!Spec => []V1Facts!V1!TypeOK
  BY V1Facts!LinesTypeCorrect DEF SensibleHardware
<1>4. BusFacts!Bus!Spec => []BusFacts!Bus!TypeOK
  BY BusFacts!I2cTypeCorrect DEF SensibleHardware
<1>5. PortFacts!Spec => []PortFacts!TypeOK
  BY PortFacts!SerialTypeCorrect DEF SensibleHardware
<1>6. Fifo!Spec => []Fifo!TypeOK
  BY NotifyPipesTypeCorrect DEF SensibleHardware
<1>7. BusFacts!Files!Spec => []BusFacts!Files!TypeOK
  BY BusFacts!FilesTypeCorrect DEF SensibleHardware
<1>8. BusFacts!Board!Spec => []BusFacts!Board!TypeOK
  BY BusFacts!PartsTypeCorrect DEF SensibleHardware
<1>9. BusFacts!Document!Spec => []BusFacts!Document!TypeOK
  BY BusFacts!LayoutTypeCorrect DEF SensibleHardware
<1>10. QED
  BY <1>1, <1>2, <1>3, <1>4, <1>5, <1>6, <1>7, <1>8, <1>9, PartsOfHardware, V2AsProved, V2Shows,
     V1AsProved, V1Shows, BusAsProved, BusShows, PortAsProved, PortShows, FilesAsProved,
     FilesShows, BoardAsProved, BoardShows, DocumentAsProved, DocumentShows, PTL
  DEF HardwareTypeOK

(* Every buffer of edge events, bytes and reports hands over what is put   *)
(* in it once and in order: gpiod's, the serial port's and lgpio's.        *)
THEOREM HardwareBuffersEvents == ASSUME SensibleHardware PROVE HardwareSpec => BuffersEvents
<1>1. V2Facts!Spec => V2Facts!BuffersEvents
  BY V2Facts!RequestsBufferEvents DEF SensibleHardware
<1>2. V1Facts!V1!Spec => V1Facts!V1!BuffersEvents
  BY V1Facts!LinesBufferEvents DEF SensibleHardware
<1>3. PortFacts!Spec => PortFacts!BuffersEvents
  BY PortFacts!SerialBuffersEvents DEF SensibleHardware
<1>4. Fifo!Spec => Fifo!BuffersEvents
  BY PipesBufferEvents DEF SensibleHardware
<1>5. QED
  BY <1>1, <1>2, <1>3, <1>4, PartsOfHardware, V2AsProved, V2Buffers, V1AsProved, V1Buffers,
     PortAsProved, PortBuffers, PTL DEF BuffersEvents

(* Either gpiod: whoever polls a descriptor is woken for each event that   *)
(* waits, also while its line or request changes hands.                    *)
THEOREM WaitingEventsWakeReaders == ASSUME SensibleHardware PROVE HardwareSpec => []EventsWakeReaders
<1>1. V2Facts!Spec => []V2Facts!NoMissedWakeup
  BY V2Facts!EventsAreSignalled DEF SensibleHardware
<1>2. V1Facts!V1!Spec => []V1Facts!V1!FdSignalsEvents
  BY V1Facts!FdsSignalEvents DEF SensibleHardware
<1>3. QED
  BY <1>1, <1>2, PartsOfHardware, V2AsProved, V2Shows, V1AsProved, V1Shows, PTL
  DEF EventsWakeReaders

(* Either gpiod: a line is held by one request, or one chip, at a time,    *)
(* and by none that has not requested it, but for the lines that a v1      *)
(* request which ran out of descriptors has left behind.                   *)
THEOREM LinesHaveOneHolder == ASSUME SensibleHardware PROVE HardwareSpec => []OneHolder
<1>1. V2Facts!Spec => []V2Facts!HeldByTheLive
  BY V2Facts!LinesHeldByTheLive DEF SensibleHardware
<1>2. V1Facts!V1!Spec => []V1Facts!V1!OneHolder
  BY V1Facts!LinesHeldOnce DEF SensibleHardware
<1>3. QED
  BY <1>1, <1>2, PartsOfHardware, V2AsProved, V2Shows, V1AsProved, V1Shows, PTL DEF OneHolder

(* smbus and lgpio's I2C, and pyserial and lgpio's serial port: combined   *)
(* calls are not torn, and lines are read in the order of their bytes.     *)
THEOREM BusesKeepOrder == ASSUME SensibleHardware PROVE HardwareSpec => []BusesInOrder
<1>1. BusFacts!Bus!Spec => []BusFacts!Bus!ReadsAreWhole
  BY BusFacts!I2cReadsAreWhole DEF SensibleHardware
<1>2. PortFacts!Spec => []PortFacts!LinesInOrder
  BY PortFacts!SerialLinesInOrder DEF SensibleHardware
<1>3. QED
  BY <1>1, <1>2, PartsOfHardware, BusAsProved, BusShows, PortAsProved, PortShows, PTL
  DEF BusesInOrder

(* lgpio: reports go to open pipes only.                                   *)
THEOREM PipesStayOpen == ASSUME SensibleHardware PROVE HardwareSpec => []PipesAreOpen
<1>1. Fifo!Spec => []Fifo!PipesAreOpen
  BY ReportsGoToOpenPipes DEF SensibleHardware
<1>2. QED
  BY <1>1, PartsOfHardware, PTL DEF PipesAreOpen

(* hw/vfs.py: whoever opens a dynamic file reads a sample taken since.     *)
THEOREM FilesReadFresh == ASSUME SensibleHardware PROVE HardwareSpec => []FreshReads
<1>1. BusFacts!Files!Spec => []BusFacts!Files!FreshReads
  BY BusFacts!OpensReadFreshSamples DEF SensibleHardware
<1>2. QED
  BY <1>1, PartsOfHardware, FilesAsProved, FilesShows, PTL DEF FreshReads

(* hw/devices: a part does as it acknowledged.                             *)
THEOREM PartsKeepSettings == ASSUME SensibleHardware PROVE HardwareSpec => []SettingsHold
<1>1. BusFacts!Board!Spec => []BusFacts!Board!SettingsHold
  BY BusFacts!PartsDoAsTold DEF SensibleHardware
<1>2. QED
  BY <1>1, PartsOfHardware, BoardAsProved, BoardShows, PTL DEF SettingsHold

(* hw/layout.py: each part of an accepted layout is found.                 *)
THEOREM LayoutsShadowNothing == ASSUME SensibleHardware PROVE HardwareSpec => []NothingShadowed
<1>1. BusFacts!Document!Spec => []BusFacts!Document!NothingShadowed
  BY BusFacts!LayoutShadowsNothing DEF SensibleHardware
<1>2. QED
  BY <1>1, PartsOfHardware, DocumentAsProved, DocumentShows, PTL DEF NothingShadowed
=============================================================================
