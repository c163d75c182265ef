------------------------------- MODULE MCPins -------------------------------
(* The instance of Pins TLC checks: a slow blink, high for one tick of     *)
(* three, and every operation in one thread or the other.                  *)
EXTENDS Pins, TLC

CONSTANTS t1, t2

Thirds == {[period |-> 3, high |-> 1]}

TwoScripts == t1 :> {"set_pwm", "setup_output", "drive", "reset"}
           @@ t2 :> {"setup_input", "release", "write", "stop_pwm"}

(* Only how long ago a PWM started matters, never when: states that differ *)
(* in nothing else are one.                                                *)
Ago(x) == [x EXCEPT !.since = (now - @) % Cycle]
PinAgo(pin) == IF pin.pwm = None THEN pin ELSE Ago(pin)
CallAgo(c) == IF c # None /\ c.op = "set_pwm" THEN Ago(c) ELSE c
ReportAgo(r) ==
    IF r = None THEN r ELSE [r EXCEPT !.pin = PinAgo(@), !.previous = PinAgo(@)]

TimeShift ==
    <<[g \in GPIO |-> PinAgo(pins[g])], watchers, pc, [t \in DOMAIN call |-> CallAgo(call[t])],
      [t \in DOMAIN report |-> ReportAgo(report[t])], due, sleep, heard>>
=============================================================================
