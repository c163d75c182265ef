------------------------------ MODULE RpiGpio ------------------------------
(***************************************************************************)
(* p4n4_emu/hw/gpio_stub.py: the RPi.GPIO front end, on one channel.       *)
(*                                                                         *)
(* _alerts names the channel's edge detection, an _Alert made by           *)
(* add_event_detect or by a wait_for_edge that found none.  A driver finds *)
(* the alert and copies its callbacks under the module's lock and calls    *)
(* them after it, while others remove the detection, wait or clean up.     *)
(* An _Alert lives on while a waiter refers to it: alerts have identities, *)
(* and one that nobody refers to is used again.                            *)
(***************************************************************************)
EXTENDS Integers, FiniteSets

CONSTANTS
    Threads,    \* the script's threads
    Programs,   \* the operations each thread uses, in the programs considered
    Drivers,    \* threads that change the channel's level from outside
    Alerts,     \* identities of _Alert objects, as many as are in use at a time
    Edges,      \* the edges asked for: sets of levels
    Duties,     \* the settings PWM is used with
    Objects,    \* identities of PWM objects, as many as are alive at a time
    User,       \* the script's own callback
    None

VARIABLES
    pin,        \* function, level and PWM of the channel in pins
    used,       \* the channel is in _used
    current,    \* _alerts: the channel's alert
    alert,      \* the _Alert objects
    pwm,        \* the PWM objects: in _pwms, _running, and their settings (None: no object)
    pc, arg,    \* where each thread is, and what its call works with
    seen,       \* the Event of each wait_for_edge
    calls,      \* the callbacks each driver has still to call
    program     \* what each thread uses (fixed)

vars == <<pin, used, current, alert, pwm, pc, arg, seen, calls, program>>

NewAlert(edge, callbacks, by) ==
    [edge |-> edge, callbacks |-> callbacks, detected |-> FALSE, by |-> by, taken |-> FALSE]

(* The waits on an alert: they refer to it also when _alerts does not. *)
Waits(a) == {t \in Threads : pc[t] = "wait" /\ arg[t] = a}

Uses(t, op) == pc[t] = "idle" /\ op \in program[t]

(* _remove_alert(): "taken" is history, for the alert's waiters. *)
Removed ==
    IF current = None THEN alert
    ELSE [alert EXCEPT ![current] = IF Waits(current) = {} THEN None ELSE [@ EXCEPT !.taken = TRUE]]

-----------------------------------------------------------------------------
(* setup(): the alert goes first, _used comes last. *)
setup(t, function) ==
    /\ Uses(t, "setup")
    /\ current' = None /\ alert' = Removed
    /\ pc' = [pc EXCEPT ![t] = "setup"] /\ arg' = [arg EXCEPT ![t] = function]
    /\ UNCHANGED <<pin, used, pwm, seen, calls, program>>

setup_pin(t) ==
    /\ pc[t] = "setup"
    /\ pin' = [pin EXCEPT !.function = arg[t], !.pwm = IF arg[t] = "output" THEN @ ELSE None]
    /\ used' = TRUE
    /\ pc' = [pc EXCEPT ![t] = "idle"] /\ arg' = [arg EXCEPT ![t] = None]
    /\ UNCHANGED <<current, alert, pwm, seen, calls, program>>

(* output(), and the driver's set_input(): neither works on the other's pin. *)
output(t, level) ==
    /\ Uses(t, "output") /\ pin.function = "output"
    /\ pin' = [pin EXCEPT !.level = level]
    /\ UNCHANGED <<used, current, alert, pwm, pc, arg, seen, calls, program>>

set_input(d) ==
    /\ pc[d] = "idle" /\ pin.function # "output"
    /\ pin' = [pin EXCEPT !.level = 1 - @]
    /\ pc' = [pc EXCEPT ![d] = IF pin.function = "input" THEN "changed" ELSE "idle"]
    /\ arg' = [arg EXCEPT ![d] = IF pin.function = "input" THEN 1 - pin.level ELSE None]
    /\ UNCHANGED <<used, current, alert, pwm, seen, calls, program>>

(* _on_change() under the lock; an edge within bouncetime is left out. *)
on_change(d) ==
    /\ pc[d] = "changed"
    /\ IF current # None /\ arg[d] \in alert[current].edge
       THEN /\ alert' = [alert EXCEPT ![current].detected = TRUE]
            /\ calls' = [calls EXCEPT ![d] = alert[current].callbacks]
            /\ pc' = [pc EXCEPT ![d] = "calling"]
       ELSE pc' = [pc EXCEPT ![d] = "idle"] /\ UNCHANGED <<alert, calls>>
    /\ arg' = [arg EXCEPT ![d] = None]
    /\ UNCHANGED <<pin, used, current, pwm, seen, program>>

(* ... and after it: each callback is called, whatever became of the alert. *)
callback(d) ==
    /\ pc[d] = "calling"
    /\ IF calls[d] = {}
       THEN pc' = [pc EXCEPT ![d] = "idle"] /\ UNCHANGED <<seen, calls>>
       ELSE \E c \in calls[d] :
                /\ seen' = [t \in Threads |-> t = c \/ seen[t]]
                /\ calls' = [calls EXCEPT ![d] = @ \ {c}]
                /\ UNCHANGED pc
    /\ UNCHANGED <<pin, used, current, alert, pwm, arg, program>>

-----------------------------------------------------------------------------
add_event_detect(t, edge, callbacks) ==
    /\ Uses(t, "detect") /\ pin.function = "input" /\ current = None
    /\ \E a \in Alerts :
        /\ alert[a] = None
        /\ current' = a
        /\ alert' = [alert EXCEPT ![a] = NewAlert(edge, callbacks, None)]
    /\ UNCHANGED <<pin, used, pwm, pc, arg, seen, calls, program>>

add_event_callback(t) ==
    /\ Uses(t, "callback") /\ pin.function = "input" /\ current # None
    /\ alert' = [alert EXCEPT ![current].callbacks = @ \cup {User}]
    /\ UNCHANGED <<pin, used, current, pwm, pc, arg, seen, calls, program>>

remove_event_detect(t) ==
    /\ Uses(t, "remove") /\ current # None
    /\ current' = None /\ alert' = Removed
    /\ UNCHANGED <<pin, used, pwm, pc, arg, seen, calls, program>>

event_detected(t) ==
    /\ Uses(t, "detected") /\ current # None /\ alert[current].detected
    /\ alert' = [alert EXCEPT ![current].detected = FALSE]
    /\ UNCHANGED <<pin, used, current, pwm, pc, arg, seen, calls, program>>

(* wait_for_edge() joins a detection that has no callbacks, whatever its   *)
(* edge, or makes one; RuntimeError when there is one with callbacks.      *)
wait_for_edge(t, edge) ==
    /\ Uses(t, "wait") /\ pin.function = "input"
    /\ \/ /\ current = None
          /\ \E a \in Alerts :
                /\ alert[a] = None
                /\ current' = a
                /\ alert' = [alert EXCEPT ![a] = NewAlert(edge, {t}, t)]
                /\ arg' = [arg EXCEPT ![t] = a]
       \/ /\ current # None /\ alert[current].callbacks = {}
          /\ alert' = [alert EXCEPT ![current].callbacks = {t}]
          /\ arg' = [arg EXCEPT ![t] = current]
          /\ UNCHANGED current
    /\ pc' = [pc EXCEPT ![t] = "wait"]
    /\ UNCHANGED <<pin, used, pwm, seen, calls, program>>

(* Bug: whatever alert the channel has is deleted. *)
DeletedAny(t) == alert[arg[t]].by = t

(* Only the alert that the wait added itself is deleted. *)
Deleted(t) == alert[arg[t]].by = t /\ current = arg[t]

(* The edge was seen, or the wait has a timeout that ran out.  Nobody      *)
(* knows the wait's Event any more.                                        *)
wait_ends(t) ==
    /\ pc[t] = "wait" /\ (seen[t] \/ "timeout" \in program[t])
    /\ IF Deleted(t)
       THEN current' = None /\ alert' = [alert EXCEPT ![arg[t]] = None]
       ELSE /\ alert' = IF current = arg[t] THEN [alert EXCEPT ![arg[t]].callbacks = @ \ {t}]
                       ELSE [alert EXCEPT ![arg[t]] = None]
            /\ UNCHANGED current
    /\ seen' = [seen EXCEPT ![t] = FALSE]
    /\ calls' = [d \in Drivers |-> calls[d] \ {t}]
    /\ pc' = [pc EXCEPT ![t] = "idle"] /\ arg' = [arg EXCEPT ![t] = None]
    /\ UNCHANGED <<pin, used, pwm, program>>

-----------------------------------------------------------------------------
NewObject == [kept |-> FALSE, running |-> FALSE, duty |-> None]

(* PWM(): one object per channel in _pwms, on an output; an object that a  *)
(* cleanup() took out may live on, and be started again.                   *)
NewPWM(t, o, duty) ==
    /\ Uses(t, "pwm") /\ pwm[o] = NewObject /\ pin.function = "output"
    /\ \A other \in Objects : ~pwm[other].kept
    /\ pwm' = [pwm EXCEPT ![o] = [NewObject EXCEPT !.kept = TRUE, !.duty = duty]]
    /\ UNCHANGED <<pin, used, current, alert, pc, arg, seen, calls, program>>

(* start(), ChangeDutyCycle(), ChangeFrequency(): the object, then the pin. *)
Change(t, o, duty, start) ==
    /\ Uses(t, "pwm") /\ pwm[o].duty # None
    /\ pwm' = [pwm EXCEPT ![o] = [pwm[o] EXCEPT !.duty = duty, !.running = start \/ pwm[o].running]]
    /\ IF start \/ pwm[o].running
       THEN pc' = [pc EXCEPT ![t] = "set_pwm"] /\ arg' = [arg EXCEPT ![t] = duty]
       ELSE UNCHANGED <<pc, arg>>
    /\ UNCHANGED <<pin, used, current, alert, seen, calls, program>>

(* pins.set_pwm(): PinError unless the pin is (still) an output. *)
set_pwm(t) ==
    /\ pc[t] = "set_pwm"
    /\ pin' = [pin EXCEPT !.pwm = IF pin.function = "output" THEN arg[t] ELSE @]
    /\ pc' = [pc EXCEPT ![t] = "idle"] /\ arg' = [arg EXCEPT ![t] = None]
    /\ UNCHANGED <<used, current, alert, pwm, seen, calls, program>>

(* Bug: the object is told, the pin is not. *)
QuietlyStopped == pin

Stopped == IF pin.function = "output" THEN [pin EXCEPT !.pwm = None, !.level = 0] ELSE pin

stop(t, o) ==
    /\ Uses(t, "pwm") /\ pwm[o].running
    /\ pwm' = [pwm EXCEPT ![o].running = FALSE]
    /\ pin' = Stopped
    /\ UNCHANGED <<used, current, alert, pc, arg, seen, calls, program>>

(* The script lets an object go: __del__() stops it, _pwms forgets it. *)
drop(t, o) ==
    /\ Uses(t, "pwm") /\ pwm[o].duty # None
    /\ pwm' = [pwm EXCEPT ![o] = NewObject]
    /\ pin' = IF pwm[o].running THEN Stopped ELSE pin
    /\ UNCHANGED <<used, current, alert, pc, arg, seen, calls, program>>

(* cleanup(): the PWM stops, the alert goes, the pin is released. *)
cleanup(t) ==
    /\ Uses(t, "cleanup") /\ used
    /\ pwm' = [o \in Objects |-> IF pwm[o].kept THEN [NewObject EXCEPT !.duty = pwm[o].duty]
                                 ELSE pwm[o]]
    /\ pin' = IF \E o \in Objects : pwm[o].kept /\ pwm[o].running THEN Stopped ELSE pin
    /\ current' = None /\ alert' = Removed
    /\ pc' = [pc EXCEPT ![t] = "release"]
    /\ UNCHANGED <<used, arg, seen, calls, program>>

release(t) ==
    /\ pc[t] = "release"
    /\ pin' = [pin EXCEPT !.function = None, !.pwm = None]
    /\ used' = FALSE
    /\ pc' = [pc EXCEPT ![t] = "idle"]
    /\ UNCHANGED <<current, alert, pwm, arg, seen, calls, program>>

Init ==
    /\ pin = [function |-> None, level |-> 0, pwm |-> None]
    /\ used = FALSE
    /\ current = None
    /\ alert = [a \in Alerts |-> None]
    /\ pwm = [o \in Objects |-> NewObject]
    /\ pc = [t \in Threads \cup Drivers |-> "idle"]
    /\ arg = [t \in Threads \cup Drivers |-> None]
    /\ seen = [t \in Threads |-> FALSE]
    /\ calls = [d \in Drivers |-> {}]
    /\ program \in Programs

Script(t) ==
    \/ \E function \in {"input", "output"} : setup(t, function)
    \/ setup_pin(t)
    \/ \E level \in {0, 1} : output(t, level)
    \/ \E edge \in Edges :
        \/ \E callbacks \in {{}, {User}} : add_event_detect(t, edge, callbacks)
        \/ wait_for_edge(t, edge)
    \/ add_event_callback(t) \/ remove_event_detect(t) \/ event_detected(t) \/ wait_ends(t)
    \/ \E o \in Objects, duty \in Duties :
        NewPWM(t, o, duty) \/ \E start \in BOOLEAN : Change(t, o, duty, start)
    \/ \E o \in Objects : stop(t, o) \/ drop(t, o)
    \/ set_pwm(t) \/ cleanup(t) \/ release(t)

Driver(d) == set_input(d) \/ on_change(d) \/ callback(d)

Next == (\E t \in Threads : Script(t)) \/ (\E d \in Drivers : Driver(d))

Spec == Init /\ [][Next]_vars

-----------------------------------------------------------------------------
TypeOK ==
    /\ pin \in [function : {"input", "output", None}, level : {0, 1}, pwm : Duties \cup {None}]
    /\ current \in Alerts \cup {None}
    /\ \A a \in Alerts : alert[a] # None => alert[a].callbacks \subseteq Threads \cup {User}
    /\ \A o \in Objects : pwm[o].duty \in Duties \cup {None}
    /\ seen \in [Threads -> BOOLEAN]

(* Waits and edge detection keep out of each other's way, whatever ends    *)
(* while what else begins: a wait's alert stays until the wait is over     *)
(* unless somebody asked for its removal, and the wait leaves neither an   *)
(* alert nor a callback behind.                                            *)
WaitsKeepToThemselves ==
    /\ \A t \in Threads :
        pc[t] = "wait" => \/ current = arg[t] /\ t \in alert[current].callbacks
                          \/ alert[arg[t]].taken
    /\ current # None =>
        \A t \in Threads : t = alert[current].by \/ t \in alert[current].callbacks =>
            pc[t] = "wait" /\ arg[t] = current

Driven(duty) == \E o \in Objects : pwm[o].running /\ pwm[o].duty = duty

(* A level that PWM toggles is one that a PWM object runs, with the        *)
(* object's settings, also when another thread cleans up while an object   *)
(* is started or changed, and when an object taken out of _pwms is started *)
(* again beside a new one.                                                 *)
PwmIsTheObjects ==
    (\A t \in Threads : pc[t] \notin {"set_pwm", "release"}) /\ pin.pwm # None =>
        Driven(pin.pwm)
=============================================================================
