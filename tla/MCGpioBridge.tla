---------------------------- MODULE MCGpioBridge ----------------------------
(* Instances of GpioBridge for TLC. *)
EXTENDS GpioBridge

Thirds == {[period |-> 3, high |-> 1]}

BlinkCalls == [t \in Threads |-> {"setup_input", "setup_output", "release", "write", "set_pwm", "stop_pwm"}]
LevelCalls == [t \in Threads |-> {"setup_input", "setup_output", "write"}]
=============================================================================
