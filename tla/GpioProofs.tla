----------------------------- MODULE GpioProofs -----------------------------
(***************************************************************************)
(* What holds of the emulated pins, and of GPIO over MQTT on top of them,  *)
(* for any board, any threads and any PWM settings: Pins first (its lemmas *)
(* serve the bridge, whose steps are steps of the pins), then GpioBridge.  *)
(***************************************************************************)
EXTENDS GpioBridge, FiniteSetTheorems, SequenceTheorems, TLAPS

AllThreads == Threads \cup {Toggler}

(* What the type invariant says of a thread that holds a call or a report. *)
LEMMA TypeOfCall ==
    ASSUME TypeOK, NEW t \in AllThreads, pc[t] \in {"update", "report", "start"}
    PROVE  call[t] \in Call
BY DEF TypeOK, AllThreads

(* What the arguments of a call make of a pin is a pin. *)
LEMMA ReplaceType ==
    ASSUME NEW c \in Call, NEW pin \in Pin
    PROVE  Replace(c, pin) \in Pin
<1>1. 0 \in Ticks
  BY PinsAssumption DEF Ticks
<1>2. QED
  BY <1>1, PinsAssumption, ZenonT(60) DEF Replace, Pin, Call, Operations, Levels

(* A pin that is set up, written, driven or toggled is still a pin. *)
LEMMA UpdatedType ==
    ASSUME TypeOK, NEW c \in Call
    PROVE  Updated(c) \in Pin
<1>0. 0 \in Ticks
  BY PinsAssumption DEF Ticks
<1>1. pins[c.gpio] \in Pin
  BY DEF TypeOK, Call
<1>2. Replace(c, pins[c.gpio]) \in Pin
  BY <1>1, ReplaceType
<1>3. ASSUME NEW pin \in Pin PROVE Settle(pin) \in Pin
  BY <1>0, PinsAssumption DEF Settle, InputLevel, Pin, Levels
<1>4. QED
  BY <1>1, <1>2, <1>3 DEF Updated

(* The level of a PWM output is a level. *)
LEMMA PwmLevelType == \A pwm, since, t : pwm_level(pwm, since, t) \in Levels
BY DEF pwm_level, Levels

LEMMA GetType ==
    ASSUME TypeOK, NEW g \in GPIO
    PROVE  Get(g) \in Pin
<1>1. pins[g] \in Pin
  BY DEF TypeOK
<1>2. QED
  BY <1>1, PwmLevelType DEF Get, Pin

-----------------------------------------------------------------------------
(* Type correctness, one lemma per kind of step. *)

LEMMA InitType == Init => TypeOK
<1>1. 0 \in Ticks
  BY PinsAssumption DEF Ticks
<1>2. NewPin \in Pin
  BY <1>1 DEF NewPin, Pin, Levels
<1>3. QED
  BY <1>1, <1>2 DEF Init, TypeOK

LEMMA BeginType ==
    ASSUME TypeOK, NEW t \in Threads, NEW c \in Call, Begin(t, c)
    PROVE  TypeOK'
BY PinsAssumption DEF TypeOK, Begin

LEMMA ArgumentsType ==
    ASSUME NEW op \in Operations, NEW g \in GPIO,
           op \notin {"setup_output", "write", "set_pwm", "toggle"}
    PROVE  Arguments(op, g) \in Call
<1>1. 0 \in Ticks
  BY PinsAssumption DEF Ticks
<1>2. QED
  BY <1>1 DEF Arguments, Call

LEMMA CallSetupType ==
    ASSUME TypeOK, NEW t \in Threads, NEW g \in GPIO, CallSetup(t, g)
    PROVE  TypeOK'
<1>0. 0 \in Ticks
  BY PinsAssumption DEF Ticks
<1>1. ASSUME NEW pull \in Pulls, setup_input(t, g, pull)
      PROVE  TypeOK'
  <2>1. [Arguments("setup_input", g) EXCEPT !.pull = pull] \in Call
    BY <1>0, PinsAssumption DEF Arguments, Call, Operations
  <2>2. QED
    BY <1>1, <2>1, BeginType DEF setup_input
<1>2. ASSUME NEW level \in Outputs, setup_output(t, g, level)
      PROVE  TypeOK'
  <2>1. Get(g).level \in Levels
    BY GetType DEF Pin
  <2>2. [Arguments("setup_output", g) EXCEPT
            !.level = IF level = None THEN Get(g).level ELSE level] \in Call
    BY <1>0, <2>1, PinsAssumption DEF Arguments, Call, Operations
  <2>3. QED
    BY <1>2, <2>2, BeginType DEF setup_output
<1>3. CASE release(t, g)
  BY <1>3, ArgumentsType, BeginType DEF release, Operations
<1>4. QED
  BY <1>1, <1>2, <1>3 DEF CallSetup

LEMMA CallLevelType ==
    ASSUME TypeOK, NEW t \in Threads, NEW g \in GPIO, CallLevel(t, g)
    PROVE  TypeOK'
<1>0. 0 \in Ticks
  BY PinsAssumption DEF Ticks
<1>1. ASSUME NEW level \in Levels, write(t, g, level)
      PROVE  TypeOK'
  <2>1. [Arguments("write", g) EXCEPT !.level = level] \in Call
    BY <1>0 DEF Arguments, Call, Operations
  <2>2. QED
    BY <1>1, <2>1, BeginType DEF write
<1>2. ASSUME NEW level \in Drives, drive(t, g, level)
      PROVE  TypeOK'
  <2>1. [Arguments("drive", g) EXCEPT !.level = level] \in Call
    BY <1>0, PinsAssumption DEF Arguments, Call, Operations
  <2>2. QED
    BY <1>2, <2>1, BeginType DEF drive
<1>3. QED
  BY <1>1, <1>2 DEF CallLevel

LEMMA CallPwmType ==
    ASSUME TypeOK, NEW t \in Threads, NEW g \in GPIO, CallPwm(t, g)
    PROVE  TypeOK'
<1>1. CASE stop_pwm(t, g)
  BY <1>1, ArgumentsType, BeginType DEF stop_pwm, Operations
<1>2. ASSUME NEW pwm \in Pwms, set_pwm(t, g, pwm)
      PROVE  TypeOK'
  <2> DEFINE since == IF pins[g].pwm # None THEN pins[g].since ELSE now
             c == [Arguments("set_pwm", g) EXCEPT
                     !.pwm = pwm, !.since = since, !.level = pwm_level(pwm, since, now)]
  <2>1. since \in Ticks
    BY DEF TypeOK, Pin
  <2>2. pwm_level(pwm, since, now) \in Levels
    BY PwmLevelType
  <2>3. c \in Call
    BY <2>1, <2>2 DEF Arguments, Call, Operations
  <2>4. Begin(t, c)
    BY <1>2 DEF set_pwm
  <2>5. QED
    BY <2>3, <2>4, BeginType
<1>3. QED
  BY <1>1, <1>2 DEF CallPwm

(* A thread that returns from its call keeps the type, whatever else the   *)
(* step does to the pins and to its report.                                *)
LEMMA ReturnType ==
    ASSUME TypeOK, NEW t \in AllThreads, pc[t] \in {"update", "report"}, Return(t)
    PROVE  /\ pc' \in [AllThreads ->
                  {"idle", "update", "report", "start", "none", "scan", "next", "wait"}]
           /\ call' \in [AllThreads -> Call \cup {None}]
           /\ pc'[t] \notin {"update", "report"}
           /\ pc'[t] = "start" => call'[t] \in Call
           /\ \A other \in AllThreads \ {t} :
                 pc'[other] = pc[other] /\ call'[other] = call[other]
<1>1. call[t] \in Call
  BY TypeOfCall
<1>2. Resume(t) \in {"idle", "next", "start"}
  BY DEF Resume
<1>3. pc' = [pc EXCEPT ![t] = Resume(t)]
  BY DEF Return
<1>4. call' = IF Resume(t) = "start" THEN call ELSE [call EXCEPT ![t] = None]
  BY DEF Return
<1>5. QED
  BY <1>1, <1>2, <1>3, <1>4 DEF TypeOK, AllThreads

LEMMA UpdateType ==
    ASSUME TypeOK, NEW t \in AllThreads, Update(t)
    PROVE  TypeOK'
<1> DEFINE c        == call[t]
           previous == pins[c.gpio]
           pin      == Updated(c)
           told     == Differs(pin, previous) /\ watchers # <<>>
<1>1. c \in Call /\ c.gpio \in GPIO
  BY TypeOfCall DEF Update, Call
<1>2. pin \in Pin /\ previous \in Pin
  BY <1>1, UpdatedType DEF TypeOK
<1>3. pins' \in [GPIO -> Pin]
  BY <1>1, <1>2 DEF Update, TypeOK
<1>4. UNCHANGED <<watchers, now, due, sleep>>
  BY DEF Update
<1>5. CASE told
  <2> DEFINE r == [gpio |-> c.gpio, pin |-> pin, previous |-> previous, to |-> watchers]
  <2>1. r \in Report /\ r.to # <<>>
    BY <1>1, <1>2, <1>5 DEF Report, TypeOK
  <2>2. /\ pc' = [pc EXCEPT ![t] = "report"]
        /\ report' = [report EXCEPT ![t] = r]
        /\ call' = call
    BY <1>5 DEF Update
  <2> HIDE DEF r
  <2>3. report' \in [AllThreads -> Report \cup {None}]
    BY <2>1, <2>2 DEF TypeOK, AllThreads
  <2>4. \A other \in AllThreads :
           pc'[other] = "report" => report'[other] \in Report /\ report'[other].to # <<>>
    BY <2>1, <2>2 DEF TypeOK, AllThreads
  <2>5. QED
    BY <1>1, <1>3, <1>4, <2>2, <2>3, <2>4 DEF TypeOK, AllThreads
<1>6. CASE ~told
  <2>1. Return(t) /\ report' = report
    BY <1>6 DEF Update
  <2>2. pc[t] = "update"
    BY DEF Update
  <2>3. QED
    BY <1>3, <1>4, <2>1, <2>2, ReturnType DEF TypeOK, AllThreads
<1>7. QED
  BY <1>5, <1>6

LEMMA DeliverType ==
    ASSUME TypeOK, NEW t \in AllThreads, Deliver(t)
    PROVE  TypeOK'
<1>1. pc[t] = "report" /\ report[t] \in Report /\ report[t].to # <<>>
  BY DEF Deliver, TypeOK, AllThreads
<1>2. UNCHANGED <<pins, watchers, now, due, sleep>>
  BY DEF Deliver
<1>3. CASE Len(report[t].to) = 1
  <2>1. Return(t) /\ report' = [report EXCEPT ![t] = None]
    BY <1>3 DEF Deliver
  <2>2. QED
    BY <1>1, <1>2, <2>1, ReturnType DEF TypeOK, AllThreads
<1>4. CASE Len(report[t].to) # 1
  <2>1. report' = [report EXCEPT ![t].to = Tail(@)] /\ UNCHANGED <<pc, call>>
    BY <1>4 DEF Deliver
  <2>2. report[t].to \in Seq(Watchers) /\ Len(report[t].to) > 1
    <3>1. report[t].to \in Seq(Watchers)
      BY <1>1 DEF Report
    <3>2. Len(report[t].to) \in Nat \ {0}
      BY <1>1, <3>1, EmptySeq
    <3>3. ASSUME NEW n \in Nat \ {0}, n # 1 PROVE n > 1
      BY <3>3
    <3>4. QED
      BY <1>4, <3>1, <3>2, <3>3
  <2>3. Tail(report[t].to) \in Seq(Watchers) /\ Tail(report[t].to) # <<>>
    BY <2>2
  <2>4. [report[t] EXCEPT !.to = Tail(@)] \in Report
    BY <1>1, <2>3 DEF Report
  <2>5. QED
    BY <1>1, <1>2, <2>1, <2>3, <2>4 DEF TypeOK, AllThreads, Report
<1>5. QED
  BY <1>3, <1>4

LEMMA StartType ==
    ASSUME TypeOK, NEW t \in Threads, Start(t)
    PROVE  TypeOK'
BY PinsAssumption DEF Start, TypeOK

LEMMA ResetType ==
    ASSUME TypeOK, NEW t \in Threads, reset(t)
    PROVE  TypeOK'
<1>1. NewPin \in Pin
  BY PinsAssumption DEF NewPin, Pin, Levels, Ticks
<1>2. QED
  BY <1>1, PinsAssumption DEF reset, TypeOK

LEMMA UntilEdgeType ==
    ASSUME TypeOK, NEW g \in Toggling
    PROVE  UntilEdge(pins[g]) \in Nat \ {0}
<1>1. pins[g] \in Pin /\ pins[g].pwm \in Pwms
  BY DEF Toggling, Toggles, Slow, TypeOK, Pin
<1>2. pins[g].pwm.period \in Nat \ {0} /\ pins[g].pwm.high \in Nat
  BY <1>1, PinsAssumption
<1>3. now \in Int /\ pins[g].since \in Int
  BY <1>1, PinsAssumption DEF TypeOK, Ticks, Pin
<1>4. (now - pins[g].since) % pins[g].pwm.period \in 0..(pins[g].pwm.period - 1)
  BY <1>2, <1>3
<1>5. QED
  BY <1>2, <1>4 DEF UntilEdge

LEMMA TogglerType ==
    ASSUME TypeOK, TogglerStep
    PROVE  TypeOK'
<1>1. CASE Scan
  <2> DEFINE toggle(g) == [Arguments("toggle", g) EXCEPT
                 !.level = pwm_level(pins[g].pwm, pins[g].since, now),
                 !.pwm = pins[g].pwm]
  <2>0. 0 \in Ticks
    BY PinsAssumption DEF Ticks
  <2>1. ASSUME NEW g \in GPIO PROVE toggle(g) \in Call
    BY <2>0, PwmLevelType DEF Arguments, Call, Operations, TypeOK, Pin
  <2>2. due' \subseteq Call
    BY <1>1, <2>1 DEF Scan, Toggling
  <2>3. QED
    BY <1>1, <2>2 DEF Scan, TypeOK
<1>2. CASE Toggle
  BY <1>2 DEF Toggle, TypeOK
<1>3. CASE Wait
  <2>1. sleep' \in Nat
    BY <1>3, UntilEdgeType DEF Wait, TypeOK
  <2>2. QED
    BY <1>3, <2>1 DEF Wait, TypeOK
<1>4. CASE Wake
  BY <1>4 DEF Wake, TypeOK
<1>5. QED
  BY <1>1, <1>2, <1>3, <1>4 DEF TogglerStep

LEMMA TickType ==
    ASSUME TypeOK, Tick
    PROVE  TypeOK'
<1>1. now' \in Ticks
  BY PinsAssumption DEF Tick, TypeOK, Ticks
<1>2. sleep' \in Nat
  BY DEF Tick, TypeOK
<1>3. QED
  BY <1>1, <1>2 DEF Tick, TypeOK

LEMMA WatchType ==
    ASSUME TypeOK, NEW w \in Watchers, watch(w) \/ unwatch(w)
    PROVE  TypeOK'
<1>1. watchers' \in Seq(Watchers)
  <2>1. CASE watch(w)
    BY <2>1 DEF watch, TypeOK
  <2>2. CASE unwatch(w)
    BY <2>2 DEF unwatch, TypeOK, RemoveAt
  <2>3. QED
    BY <2>1, <2>2
<1>2. UNCHANGED <<pins, now, pc, call, report, due, sleep>>
  BY DEF watch, unwatch
<1>3. QED
  BY <1>1, <1>2 DEF TypeOK

LEMMA NextType == TypeOK /\ [Next]_vars => TypeOK'
<1> SUFFICES ASSUME TypeOK, [Next]_vars PROVE TypeOK'
  OBVIOUS
<1>1. ASSUME NEW t \in Threads, Thread(t) PROVE TypeOK'
  BY <1>1, CallSetupType, CallLevelType, CallPwmType, StartType, ResetType DEF Thread
<1>2. ASSUME NEW t \in AllThreads, Update(t) \/ Deliver(t) PROVE TypeOK'
  BY <1>2, UpdateType, DeliverType
<1>3. CASE TogglerStep
  BY <1>3, TogglerType
<1>4. CASE Tick
  BY <1>4, TickType
<1>5. ASSUME NEW w \in Watchers, watch(w) \/ unwatch(w) PROVE TypeOK'
  BY <1>5, WatchType
<1>6. CASE UNCHANGED vars
  BY <1>6 DEF vars, TypeOK
<1>7. QED
  BY <1>1, <1>2, <1>3, <1>4, <1>5, <1>6 DEF Next, AllThreads

(* Every variable of Pins keeps its type, and a thread in the middle of a  *)
(* call or of a report holds one.                                          *)
THEOREM PinsTypeCorrect == Spec => []TypeOK
BY InitType, NextType, PTL DEF Spec

-----------------------------------------------------------------------------
(* The safety of the races.  A commit re-reads the pin under the lock and  *)
(* settles it, so the invariant of the pins does not depend on what the    *)
(* caller saw before.                                                      *)

LEMMA SettleReadsDrive ==
    ASSUME NEW pin \in Pin
    PROVE  Settle(pin).function # "output" =>
             Settle(pin).level = InputLevel(Settle(pin)) /\ Settle(pin).pwm = None
BY DEF Settle, InputLevel, Pin

LEMMA UpdatedReadsDrive ==
    ASSUME TypeOK, InputsReadTheirDrive, NEW c \in Call
    PROVE  Updated(c).function # "output" =>
             Updated(c).level = InputLevel(Updated(c)) /\ Updated(c).pwm = None
<1>1. pins[c.gpio] \in Pin /\ c.gpio \in GPIO
  BY DEF TypeOK, Call
<1>2. Replace(c, pins[c.gpio]) \in Pin
  BY <1>1, ReplaceType
<1>3. QED
  BY <1>1, <1>2, SettleReadsDrive DEF Updated, InputsReadTheirDrive

LEMMA InitReadsDrive == Init => InputsReadTheirDrive
BY PinsAssumption DEF Init, InputsReadTheirDrive, NewPin, InputLevel

LEMMA NextReadsDrive == TypeOK /\ InputsReadTheirDrive /\ [Next]_vars => InputsReadTheirDrive'
<1> SUFFICES ASSUME TypeOK, InputsReadTheirDrive, [Next]_vars PROVE InputsReadTheirDrive'
  OBVIOUS
<1>1. ASSUME UNCHANGED pins PROVE InputsReadTheirDrive'
  BY <1>1 DEF InputsReadTheirDrive, InputLevel
<1>2. ASSUME NEW t \in AllThreads, Update(t) PROVE InputsReadTheirDrive'
  <2>1. call[t] \in Call /\ call[t].gpio \in GPIO
    BY <1>2, TypeOfCall DEF Update, Call
  <2>2. pins' = [pins EXCEPT ![call[t].gpio] = Updated(call[t])]
    BY <1>2 DEF Update
  <2>3. QED
    BY <2>1, <2>2, UpdatedReadsDrive DEF InputsReadTheirDrive, InputLevel, TypeOK
<1>3. ASSUME NEW t \in Threads, reset(t) PROVE InputsReadTheirDrive'
  BY <1>3, PinsAssumption DEF reset, InputsReadTheirDrive, NewPin, InputLevel
<1>4. ASSUME NEW t \in Threads, NEW g \in GPIO, CallSetup(t, g) \/ CallLevel(t, g) \/ CallPwm(t, g)
      PROVE  UNCHANGED pins
  BY <1>4 DEF CallSetup, CallLevel, CallPwm, setup_input, setup_output, release, write, drive,
              stop_pwm, set_pwm, Begin
<1>5. ASSUME NEW t \in AllThreads, Deliver(t) \/ Start(t) PROVE UNCHANGED pins
  BY <1>5 DEF Deliver, Start
<1>6. ASSUME TogglerStep \/ Tick \/ UNCHANGED vars PROVE UNCHANGED pins
  BY <1>6 DEF TogglerStep, Scan, Toggle, Wait, Wake, Tick, vars
<1>7. ASSUME NEW w \in Watchers, watch(w) \/ unwatch(w) PROVE UNCHANGED pins
  BY <1>7 DEF watch, unwatch
<1>8. QED
  BY <1>1, <1>2, <1>3, <1>4, <1>5, <1>6, <1>7 DEF Next, Thread, AllThreads

(* No race of calls, toggles or resets leaves an input at a level that is  *)
(* not what drives it or its pull, or running PWM.                         *)
THEOREM PinsReadTheirDrive == Spec => []InputsReadTheirDrive
BY InitType, NextType, InitReadsDrive, NextReadsDrive, PTL DEF Spec

-----------------------------------------------------------------------------
(* The exit and the start of the toggler.  A pin only begins to toggle by  *)
(* the commit of a slow set_pwm (an input runs no PWM, so setup_output     *)
(* cannot bring one back), whose thread then passes Start.                 *)

(* The witness of NoLostToggler: t has committed a slow set_pwm on g. *)
Starting(t, g) == Notifying(t, g) /\ Slow(call[t].pwm)

LEMMA NewTogglerHasStarter ==
    ASSUME TypeOK, InputsReadTheirDrive, NEW c \in Call,
           ~Toggles(pins[c.gpio]), Toggles(Updated(c)), c.op # "toggle"
    PROVE  c.op = "set_pwm" /\ Slow(c.pwm) /\ Differs(Updated(c), pins[c.gpio])
<1>1. pins[c.gpio] \in Pin /\ c.gpio \in GPIO
  BY DEF TypeOK, Call
<1>2. Updated(c) = Replace(c, pins[c.gpio]) /\ Replace(c, pins[c.gpio]).function = "output"
  BY PinsAssumption DEF Updated, Applies, Settle, Toggles
<1>3. pins[c.gpio].function # "output" => pins[c.gpio].pwm = None
  BY <1>1 DEF InputsReadTheirDrive
<1>4. c.op = "set_pwm"
  BY <1>1, <1>2, <1>3 DEF Toggles, Slow, Replace, Pin, Call, Operations
<1>5. Updated(c).pwm = c.pwm /\ Updated(c).function = pins[c.gpio].function
  BY <1>1, <1>2, <1>4 DEF Replace, Pin
<1>6. QED
  BY <1>2, <1>4, <1>5 DEF Toggles, Differs

(* A thread that commits a set_pwm reports it or goes to Start. *)
LEMMA UpdateNotifies ==
    ASSUME TypeOK, NEW t \in Threads, Update(t), call[t].op = "set_pwm"
    PROVE  pc'[t] \in {"report", "start"} /\ call'[t] = call[t]
BY PinsAssumption DEF Update, Return, Resume, TypeOK

(* The report of a set_pwm ends in Start, with its arguments. *)
LEMMA DeliverNotifies ==
    ASSUME TypeOK, NEW t \in Threads, Deliver(t), call[t].op = "set_pwm"
    PROVE  pc'[t] \in {"report", "start"} /\ call'[t] = call[t]
BY PinsAssumption DEF Deliver, Return, Resume, TypeOK

(* What a thread does to itself leaves the other threads alone. *)
LEMMA OthersKeep ==
    ASSUME TypeOK, NEW t \in AllThreads, Update(t) \/ Deliver(t), NEW other \in AllThreads \ {t}
    PROVE  pc'[other] = pc[other] /\ call'[other] = call[other]
BY DEF Update, Deliver, Return, TypeOK, AllThreads

LEMMA InitNoLost == Init => NoLostToggler
BY PinsAssumption DEF Init, NoLostToggler, Toggling, Toggles, NewPin

(* The general step: a thread that was starting the toggler still is, or   *)
(* has, and no pin toggles that did not.                                   *)
LEMMA KeepsStarters ==
    ASSUME NoLostToggler, Toggling' \subseteq Toggling,
           pc'[Toggler] = "none" => pc[Toggler] = "none",
           \A t \in Threads, g \in GPIO :
               pc'[Toggler] = "none" /\ Starting(t, g) => Starting(t, g)'
    PROVE  NoLostToggler'
<1> SUFFICES ASSUME pc'[Toggler] = "none", NEW g \in Toggling'
             PROVE  \E t \in Threads : Starting(t, g)'
  BY DEF NoLostToggler, Starting
<1>1. g \in GPIO /\ g \in Toggling
  BY DEF Toggling
<1>2. PICK t \in Threads : Starting(t, g)
  BY <1>1 DEF NoLostToggler, Starting
<1>3. QED
  BY <1>1, <1>2

LEMMA UpdateNoLost ==
    ASSUME TypeOK, InputsReadTheirDrive, NoLostToggler, NEW t \in AllThreads, Update(t)
    PROVE  NoLostToggler'
<1>1. call[t] \in Call /\ call[t].gpio \in GPIO /\ pc[t] = "update"
  BY TypeOfCall DEF Update, Call
<1>2. pins' = [pins EXCEPT ![call[t].gpio] = Updated(call[t])]
  BY DEF Update
<1>3. CASE t = Toggler
  <2>1. pc'[Toggler] \in {"report", "next"}
    BY <1>3 DEF Update, Return, Resume, TypeOK
  <2>2. QED
    BY <2>1 DEF NoLostToggler
<1>4. CASE t \in Threads
  <2> SUFFICES ASSUME pc'[Toggler] = "none", NEW g \in Toggling'
               PROVE  \E s \in Threads : Starting(s, g)'
    BY DEF NoLostToggler, Starting
  <2>1. pc[Toggler] = "none"
    BY <1>4, OthersKeep, PinsAssumption DEF AllThreads
  <2>2. g \in GPIO /\ Toggles(pins'[g])
    BY DEF Toggling
  <2>3. CASE g \in Toggling
    <3>1. PICK s \in Threads : Starting(s, g)
      BY <2>1, <2>3 DEF NoLostToggler, Starting
    <3>2. s # t
      BY <1>1, <3>1 DEF Starting, Notifying
    <3>3. pc'[s] = pc[s] /\ call'[s] = call[s]
      BY <3>2, OthersKeep DEF AllThreads
    <3>4. QED
      BY <3>1, <3>3 DEF Starting, Notifying
  <2>4. CASE g \notin Toggling
    <3>1. ~Toggles(pins[g])
      BY <2>2, <2>4 DEF Toggling
    <3>2. g = call[t].gpio /\ pins'[g] = Updated(call[t])
      BY <1>1, <1>2, <2>2, <3>1 DEF TypeOK
    <3>3. call[t].op # "toggle"
      BY <1>1, <2>2, <3>1, <3>2, ZenonT(60) DEF Updated, Applies, Replace, Settle, Toggles, TypeOK, Pin
    <3>4. call[t].op = "set_pwm" /\ Slow(call[t].pwm)
      BY <1>1, <2>2, <3>1, <3>2, <3>3, NewTogglerHasStarter
    <3>5. pc'[t] \in {"report", "start"} /\ call'[t] = call[t]
      BY <1>4, <3>4, UpdateNotifies
    <3>6. QED
      BY <1>4, <3>2, <3>4, <3>5 DEF Starting, Notifying
  <2>5. QED
    BY <2>3, <2>4
<1>5. QED
  BY <1>3, <1>4 DEF AllThreads

LEMMA DeliverNoLost ==
    ASSUME TypeOK, NoLostToggler, NEW t \in AllThreads, Deliver(t)
    PROVE  NoLostToggler'
<1>1. Toggling' = Toggling
  BY DEF Deliver, Toggling
<1>2. pc'[Toggler] = "none" => pc[Toggler] = "none"
  <2>1. CASE t = Toggler
    BY <2>1 DEF Deliver, Return, Resume, TypeOK
  <2>2. CASE t # Toggler
    BY <2>2, OthersKeep DEF AllThreads
  <2>3. QED
    BY <2>1, <2>2
<1>3. ASSUME NEW s \in Threads, NEW g \in GPIO, Starting(s, g) PROVE Starting(s, g)'
  <2>1. CASE s = t
    BY <1>3, <2>1, DeliverNotifies DEF Starting, Notifying
  <2>2. CASE s # t
    BY <1>3, <2>2, OthersKeep DEF Starting, Notifying, AllThreads
  <2>3. QED
    BY <2>1, <2>2
<1>4. QED
  BY <1>1, <1>2, <1>3, KeepsStarters

LEMMA CallNoLost ==
    ASSUME TypeOK, NoLostToggler, NEW t \in Threads, NEW c, Begin(t, c)
    PROVE  NoLostToggler'
<1>1. Toggling' = Toggling
  BY DEF Begin, Toggling
<1>2. pc'[Toggler] = pc[Toggler]
  BY PinsAssumption DEF Begin, TypeOK
<1>3. ASSUME NEW s \in Threads, NEW g \in GPIO, Starting(s, g) PROVE Starting(s, g)'
  BY <1>3 DEF Starting, Notifying, Begin, TypeOK
<1>4. QED
  BY <1>1, <1>2, <1>3, KeepsStarters

LEMMA StartNoLost ==
    ASSUME TypeOK, NoLostToggler, NEW t \in Threads, Start(t)
    PROVE  NoLostToggler'
<1>1. Toggling' = Toggling
  BY DEF Start, Toggling
<1>2. pc'[Toggler] = "none" => pc[Toggler] = "none" /\ ~Slow(call[t].pwm)
  BY PinsAssumption DEF Start, TypeOK
<1>3. ASSUME NEW s \in Threads, NEW g \in GPIO, pc'[Toggler] = "none", Starting(s, g)
      PROVE  Starting(s, g)'
  <2>1. s # t
    BY <1>2, <1>3 DEF Starting
  <2>2. pc'[s] = pc[s] /\ call'[s] = call[s]
    BY <2>1, PinsAssumption DEF Start, TypeOK
  <2>3. QED
    BY <1>3, <2>2 DEF Starting, Notifying
<1>4. QED
  BY <1>1, <1>2, <1>3, KeepsStarters

LEMMA ResetNoLost ==
    ASSUME TypeOK, NEW t \in Threads, reset(t)
    PROVE  NoLostToggler'
<1>1. \A g \in GPIO : pins'[g].function = None
  BY DEF reset, NewPin
<1>2. Toggling' = {}
  BY <1>1, PinsAssumption DEF Toggling, Toggles
<1>3. QED
  BY <1>2 DEF NoLostToggler

LEMMA TogglerNoLost ==
    ASSUME TypeOK, NoLostToggler, TogglerStep
    PROVE  NoLostToggler'
<1>1. UNCHANGED pins
  BY DEF TogglerStep, Scan, Toggle, Wait, Wake
<1>2. Toggling' = Toggling
  BY <1>1 DEF Toggling
<1>3. CASE Scan
  <2>1. pc'[Toggler] = "none" => Toggling = {}
    BY <1>3 DEF Scan, TypeOK
  <2>2. QED
    BY <1>2, <2>1 DEF NoLostToggler
<1>4. CASE Toggle \/ Wait \/ Wake
  <2>1. pc'[Toggler] # "none"
    BY <1>4 DEF Toggle, Wait, Wake, TypeOK
  <2>2. QED
    BY <2>1 DEF NoLostToggler
<1>5. QED
  BY <1>3, <1>4 DEF TogglerStep

LEMMA NextNoLost ==
    TypeOK /\ InputsReadTheirDrive /\ NoLostToggler /\ [Next]_vars => NoLostToggler'
<1> SUFFICES ASSUME TypeOK, InputsReadTheirDrive, NoLostToggler, [Next]_vars
             PROVE  NoLostToggler'
  OBVIOUS
<1>1. ASSUME NEW t \in Threads, NEW g \in GPIO, CallSetup(t, g) \/ CallLevel(t, g) \/ CallPwm(t, g)
      PROVE  NoLostToggler'
  <2>1. \E c : Begin(t, c)
    BY <1>1 DEF CallSetup, CallLevel, CallPwm, setup_input, setup_output, release, write, drive,
                stop_pwm, set_pwm
  <2>2. QED
    BY <2>1, CallNoLost
<1>2. ASSUME NEW t \in Threads, Start(t) \/ reset(t) PROVE NoLostToggler'
  BY <1>2, StartNoLost, ResetNoLost
<1>3. ASSUME NEW t \in AllThreads, Update(t) \/ Deliver(t) PROVE NoLostToggler'
  BY <1>3, UpdateNoLost, DeliverNoLost
<1>4. CASE TogglerStep
  BY <1>4, TogglerNoLost
<1>5. ASSUME UNCHANGED <<pins, pc, call>> PROVE NoLostToggler'
  BY <1>5 DEF NoLostToggler, Notifying, Toggling
<1>6. ASSUME Tick \/ UNCHANGED vars PROVE UNCHANGED <<pins, pc, call>>
  BY <1>6 DEF Tick, vars
<1>7. ASSUME NEW w \in Watchers, watch(w) \/ unwatch(w) PROVE UNCHANGED <<pins, pc, call>>
  BY <1>7 DEF watch, unwatch
<1>8. QED
  BY <1>1, <1>2, <1>3, <1>4, <1>5, <1>6, <1>7 DEF Next, Thread, AllThreads

(* However set_pwm, the toggler's exit and the end of PWM interleave, a    *)
(* pin with slow PWM is never left without a toggler.                      *)
THEOREM PinsNoLostToggler == Spec => []NoLostToggler
<1> DEFINE IInv == TypeOK /\ InputsReadTheirDrive /\ NoLostToggler
<1>1. Init => IInv
  BY InitType, InitReadsDrive, InitNoLost
<1>2. IInv /\ [Next]_vars => IInv'
  BY NextType, NextReadsDrive, NextNoLost
<1>3. QED
  BY <1>1, <1>2, PTL DEF Spec

-----------------------------------------------------------------------------
(* Facts about sequences that hold each of their elements once. *)

LEMMA TailOnce ==
    ASSUME NEW S, NEW s \in Seq(S), s # <<>>
    PROVE  /\ Head(s) \in S /\ Tail(s) \in Seq(S)
           /\ Range(s) = Range(Tail(s)) \cup {Head(s)}
           /\ IsInjective(s) => IsInjective(Tail(s)) /\ Head(s) \notin Range(Tail(s))
           /\ Len(s) = 1 => Range(s) = {Head(s)}
<1> DEFINE t == Tail(s)
<1>1. /\ DOMAIN s = 1 .. Len(s) /\ DOMAIN t = 1 .. Len(s) - 1 /\ Head(s) = s[1] /\ Len(s) \in Nat /\ Len(s) >= 1
      /\ \A i \in 1 .. Len(s) - 1 : t[i] = s[i + 1]
      /\ t \in Seq(S) /\ Head(s) \in S
  OBVIOUS
<1> HIDE DEF t
<1>2. \A i \in DOMAIN t : i \in Int /\ i + 1 \in DOMAIN s /\ i + 1 # 1 /\ t[i] = s[i + 1]
  BY <1>1
<1>3. \A i \in DOMAIN s : i = 1 \/ (i - 1 \in DOMAIN t /\ t[i - 1] = s[i])
  BY <1>1
<1>4. 1 \in DOMAIN s
  BY <1>1
<1>5. Range(s) = Range(t) \cup {Head(s)}
  <2>1. Range(s) \subseteq Range(t) \cup {Head(s)}
    BY <1>1, <1>3 DEF Range
  <2>2. Range(t) \cup {Head(s)} \subseteq Range(s)
    BY <1>1, <1>2, <1>4 DEF Range
  <2>3. QED
    BY <2>1, <2>2
<1>6. ASSUME IsInjective(s) PROVE IsInjective(t) /\ Head(s) \notin Range(t)
  <2>1. \A i, j \in DOMAIN s : s[i] = s[j] => i = j
    BY <1>6 DEF IsInjective
  <2>2. IsInjective(t)
    BY <1>2, <2>1 DEF IsInjective
  <2>3. Head(s) \notin Range(t)
    BY <1>1, <1>2, <1>4, <2>1 DEF Range
  <2>4. QED
    BY <2>2, <2>3
<1>7. Len(s) = 1 => Range(s) = {Head(s)}
  BY <1>1 DEF Range
<1>8. QED
  BY <1>1, <1>5, <1>6, <1>7 DEF t

LEMMA AppendOnce ==
    ASSUME NEW S, NEW s \in Seq(S), NEW e \in S, e \notin Range(s), IsInjective(s)
    PROVE  IsInjective(Append(s, e)) /\ Range(Append(s, e)) = Range(s) \cup {e}
<1> DEFINE a == Append(s, e)
<1>1. /\ DOMAIN s = 1 .. Len(s) /\ DOMAIN a = 1 .. Len(s) + 1 /\ Len(s) \in Nat
      /\ a[Len(s) + 1] = e /\ \A i \in 1 .. Len(s) : a[i] = s[i]
  OBVIOUS
<1> HIDE DEF a
<1>2. DOMAIN a = DOMAIN s \cup {Len(s) + 1}
  BY <1>1
<1>3. IsInjective(a)
  BY <1>1, <1>2 DEF IsInjective, Range
<1>4. Range(a) = Range(s) \cup {e}
  BY <1>1, <1>2 DEF Range
<1>5. QED
  BY <1>3, <1>4 DEF a

LEMMA RemoveOnce ==
    ASSUME NEW S, NEW s \in Seq(S), NEW i \in DOMAIN s
    PROVE  /\ Range(RemoveAt(s, i)) \subseteq Range(s)
           /\ IsInjective(s) => IsInjective(RemoveAt(s, i))
<1> DEFINE a == SubSeq(s, 1, i - 1)
           b == SubSeq(s, i + 1, Len(s))
           r == a \o b
<1>1. Len(s) \in Nat /\ i \in 1 .. Len(s) /\ DOMAIN s = 1 .. Len(s)
  OBVIOUS
<1>2. /\ a \in Seq(S) /\ Len(a) = i - 1 /\ \A j \in 1 .. i - 1 : a[j] = s[j]
      /\ b \in Seq(S) /\ Len(b) = Len(s) - i /\ \A j \in 1 .. Len(s) - i : b[j] = s[i + j]
  BY <1>1
<1> HIDE DEF a, b
<1>3. /\ Len(r) = Len(a) + Len(b) /\ r \in Seq(S)
      /\ \A j \in 1 .. Len(a) + Len(b) : r[j] = IF j <= Len(a) THEN a[j] ELSE b[j - Len(a)]
  BY <1>2, ConcatProperties
<1> HIDE DEF r
<1>4. DOMAIN r = 1 .. Len(s) - 1
  BY <1>1, <1>2, <1>3
<1>5. ASSUME NEW j \in DOMAIN r
      PROVE  /\ j \in Int
             /\ (j < i /\ j \in DOMAIN s /\ r[j] = s[j]) \/ (j >= i /\ j + 1 \in DOMAIN s /\ r[j] = s[j + 1])
  <2>1. CASE j < i
    BY <1>1, <1>2, <1>3, <1>4, <2>1
  <2>2. CASE j >= i
    <3>1. j - (i - 1) \in 1 .. Len(s) - i /\ i + (j - (i - 1)) = j + 1 /\ ~(j <= Len(a))
      BY <1>1, <1>2, <1>4, <2>2
    <3>2. r[j] = b[j - (i - 1)]
      BY <1>1, <1>2, <1>3, <1>4, <3>1, SMTT(30)
    <3>3. r[j] = s[j + 1]
      BY <1>2, <3>1, <3>2
    <3>4. QED
      BY <1>1, <1>4, <2>2, <3>3
  <2>3. QED
    BY <1>1, <1>4, <2>1, <2>2
<1>6. Range(r) \subseteq Range(s)
  BY <1>5 DEF Range
<1>7. IsInjective(s) => IsInjective(r)
  <2>1. ASSUME IsInjective(s), NEW j \in DOMAIN r, NEW k \in DOMAIN r, r[j] = r[k] PROVE j = k
    <3>1. \A m, n \in DOMAIN s : s[m] = s[n] => m = n
      BY <2>1 DEF IsInjective
    <3>2. QED
      BY <1>1, <1>5, <2>1, <3>1
  <2>2. QED
    BY <2>1 DEF IsInjective
<1>8. QED
  BY <1>6, <1>7 DEF r, a, b, RemoveAt

(* Sets that differ in one element at most. *)
LEMMA OneElement ==
    ASSUME NEW S, NEW T, IsFiniteSet(S), NEW t, S \ {t} = T \ {t}
    PROVE  /\ Cardinality(S) \in Nat /\ Cardinality(T) \in Nat
           /\ Cardinality(T) = Cardinality(S) + (IF t \in T THEN 1 ELSE 0)
                                              - (IF t \in S THEN 1 ELSE 0)
<1> DEFINE U == S \ {t}
<1>1. IsFiniteSet(U) /\ Cardinality(S) \in Nat
  BY FS_RemoveElement, FS_CardinalityType
<1>2. U = T \ {t} /\ t \notin U
  OBVIOUS
<1>3. (t \in S => S = U \cup {t}) /\ (t \notin S => S = U)
  OBVIOUS
<1>4. (t \in T => T = U \cup {t}) /\ (t \notin T => T = U)
  BY <1>2
<1> HIDE DEF U
<1>5. Cardinality(U) \in Nat /\ Cardinality(U \cup {t}) = Cardinality(U) + 1
  BY <1>1, <1>2, FS_AddElement, FS_CardinalityType
<1>6. Cardinality(S) = Cardinality(U) + (IF t \in S THEN 1 ELSE 0)
  BY <1>3, <1>5
<1>7. Cardinality(T) = Cardinality(U) + (IF t \in T THEN 1 ELSE 0)
  <2>1. CASE t \in T
    BY <1>4, <1>5, <2>1
  <2>2. CASE t \notin T
    BY <1>4, <1>5, <2>2
  <2>3. QED
    BY <2>1, <2>2
<1>8. QED
  BY <1>1, <1>5, <1>6, <1>7

-----------------------------------------------------------------------------
(* The edges.  A commit changes a level and the edges on their way by the  *)
(* same amount, for each watcher it is to tell; a delivery moves it from   *)
(* the way to what was heard, once, because a watcher is registered once.  *)

EdgesInv ==
    /\ heard \in [Watchers -> [GPIO -> Int]]
    /\ IsInjective(watchers)
    /\ \A t \in AllThreads : pc[t] = "report" => IsInjective(report[t].to)
    /\ EdgesConserved

LEMMA OnItsWayType ==
    ASSUME TypeOK, NEW t \in AllThreads, NEW w, NEW g
    PROVE  OnItsWay(t, w, g) \in {-1, 0, 1}
<1>1. pc[t] = "report" => report[t].pin.level \in {0, 1} /\ report[t].previous.level \in {0, 1}
  BY DEF TypeOK, AllThreads, Report, Pin, Levels
<1>2. QED
  BY <1>1 DEF OnItsWay

LEMMA PendingType ==
    ASSUME NEW w, NEW g, NEW e
    PROVE  IsFiniteSet(Edges(w, g, e)) /\ Pending(w, g) \in Int
<1>1. IsFiniteSet(AllThreads)
  BY PinsAssumption, FS_AddElement DEF AllThreads
<1>2. ASSUME NEW d PROVE IsFiniteSet(Edges(w, g, d)) /\ Cardinality(Edges(w, g, d)) \in Nat
  <2>1. Edges(w, g, d) \in SUBSET AllThreads
    BY DEF Edges, AllThreads
  <2>2. QED
    BY <1>1, <2>1, FS_Subset, FS_CardinalityType
<1>3. QED
  BY <1>2 DEF Pending

(* Only one thread's report changes in a step. *)
LEMMA PendingStep ==
    ASSUME TypeOK, TypeOK', NEW t \in AllThreads, NEW w, NEW g,
           \A u \in AllThreads \ {t} : OnItsWay(u, w, g)' = OnItsWay(u, w, g)
    PROVE  Pending(w, g)' = Pending(w, g) + OnItsWay(t, w, g)' - OnItsWay(t, w, g)
<1>1. ASSUME NEW e
      PROVE  /\ Cardinality(Edges(w, g, e)) \in Nat /\ Cardinality(Edges(w, g, e)') \in Nat
             /\ Cardinality(Edges(w, g, e)') = Cardinality(Edges(w, g, e))
                   + (IF OnItsWay(t, w, g)' = e THEN 1 ELSE 0)
                   - (IF OnItsWay(t, w, g) = e THEN 1 ELSE 0)
  <2> DEFINE S == Edges(w, g, e)
             T == Edges(w, g, e)'
  <2>1. IsFiniteSet(S)
    BY PendingType
  <2>2. S \ {t} = T \ {t}
    BY DEF Edges, AllThreads
  <2>3. (t \in S <=> OnItsWay(t, w, g) = e) /\ (t \in T <=> OnItsWay(t, w, g)' = e)
    BY DEF Edges, AllThreads
  <2> HIDE DEF S, T
  <2>4. /\ Cardinality(S) \in Nat /\ Cardinality(T) \in Nat
        /\ Cardinality(T) = Cardinality(S) + (IF t \in T THEN 1 ELSE 0) - (IF t \in S THEN 1 ELSE 0)
    BY <2>1, <2>2, OneElement
  <2>5. QED
    BY <2>3, <2>4 DEF S, T
<1>2. OnItsWay(t, w, g) \in {-1, 0, 1}
  BY OnItsWayType
<1>3. OnItsWay(t, w, g)' \in {-1, 0, 1}
  <2>1. pc'[t] = "report" =>
            report'[t].pin.level \in {0, 1} /\ report'[t].previous.level \in {0, 1}
    BY DEF TypeOK, AllThreads, Report, Pin, Levels
  <2>2. QED
    BY <2>1 DEF OnItsWay
<1> DEFINE up == Cardinality(Edges(w, g, 1))
           down == Cardinality(Edges(w, g, -1))
           before == OnItsWay(t, w, g)
           after == OnItsWay(t, w, g)'
<1>4. /\ up \in Nat /\ up' \in Nat /\ down \in Nat /\ down' \in Nat
      /\ up' = up + (IF after = 1 THEN 1 ELSE 0) - (IF before = 1 THEN 1 ELSE 0)
      /\ down' = down + (IF after = -1 THEN 1 ELSE 0) - (IF before = -1 THEN 1 ELSE 0)
  BY <1>1
<1>5. Pending(w, g) = up - down /\ Pending(w, g)' = up' - down'
  BY DEF Pending
<1> HIDE DEF up, down, before, after
<1>6. before \in {-1, 0, 1} /\ after \in {-1, 0, 1}
  BY <1>2, <1>3 DEF before, after
<1>7. up' - down' = up - down + after - before
  BY <1>4, <1>6
<1>8. QED
  BY <1>5, <1>7 DEF before, after

(* The reports stay: so does what is on its way. *)
LEMMA PendingStays ==
    ASSUME report' = report, \A u \in AllThreads : pc'[u] = "report" <=> pc[u] = "report",
           NEW w, NEW g
    PROVE  Pending(w, g)' = Pending(w, g)
<1>1. \A u \in AllThreads : OnItsWay(u, w, g)' = OnItsWay(u, w, g)
  BY DEF OnItsWay
<1>2. \A e : Edges(w, g, e)' = Edges(w, g, e)
  BY <1>1 DEF Edges, AllThreads
<1>3. QED
  BY <1>2 DEF Pending

LEMMA QuietEdges ==
    ASSUME TypeOK, EdgesInv, UNCHANGED <<pins, watchers, report, heard>>,
           \A u \in AllThreads : pc'[u] = "report" <=> pc[u] = "report"
    PROVE  EdgesInv'
<1>1. \A w, g : Pending(w, g)' = Pending(w, g)
  BY PendingStays
<1>2. EdgesConserved'
  BY <1>1 DEF EdgesInv, EdgesConserved
<1>3. QED
  BY <1>2 DEF EdgesInv

LEMMA EdgesInit == Init => EdgesInv
<1> SUFFICES ASSUME Init PROVE EdgesInv
  OBVIOUS
<1>1. watchers = <<>> /\ Range(watchers) = {} /\ IsInjective(watchers)
  BY DEF Init, Range, IsInjective
<1>2. \A t \in AllThreads : pc[t] # "report"
  BY DEF Init, AllThreads
<1>3. heard \in [Watchers -> [GPIO -> Int]]
  BY DEF Init
<1>4. QED
  BY <1>1, <1>2, <1>3 DEF EdgesInv, EdgesConserved

LEMMA UpdateEdges ==
    ASSUME TypeOK, TypeOK', EdgesInv, NEW t \in AllThreads, Update(t)
    PROVE  EdgesInv'
<1> DEFINE c        == call[t]
           previous == pins[c.gpio]
           pin      == Updated(c)
           told     == Differs(pin, previous) /\ watchers # <<>>
           r        == [gpio |-> c.gpio, pin |-> pin, previous |-> previous, to |-> watchers]
<1>1. pc[t] = "update" /\ c \in Call /\ c.gpio \in GPIO
  BY TypeOfCall DEF Update, Call
<1>2. pin \in Pin /\ previous \in Pin /\ pin.level \in Int /\ previous.level \in Int
  BY <1>1, UpdatedType DEF TypeOK, Pin, Levels
<1>3. pins' = [pins EXCEPT ![c.gpio] = pin] /\ UNCHANGED <<watchers, heard>>
  BY DEF Update
<1>4. IF told THEN pc' = [pc EXCEPT ![t] = "report"] /\ report' = [report EXCEPT ![t] = r]
              ELSE pc'[t] # "report" /\ report' = report
  <2>1. CASE told
    BY <2>1 DEF Update
  <2>2. CASE ~told
    <3>1. Return(t) /\ report' = report
      BY <2>2 DEF Update
    <3>2. pc'[t] # "report"
      BY <1>1, <3>1, ReturnType
    <3>3. QED
      BY <2>2, <3>1, <3>2
  <2>3. QED
    BY <2>1, <2>2
<1>5. \A u \in AllThreads \ {t} : pc'[u] = pc[u]
  BY OthersKeep
<1>6. \A u \in AllThreads \ {t} : report'[u] = report[u]
  BY <1>4 DEF TypeOK, AllThreads
<1>7. told => pc'[t] = "report" /\ report'[t] = r
  BY <1>4 DEF TypeOK, AllThreads
<1>8. told <=> Differs(pin, previous) /\ watchers # <<>>
  OBVIOUS
<1>9. r.gpio = c.gpio /\ r.pin = pin /\ r.previous = previous /\ r.to = watchers
  OBVIOUS
<1> HIDE DEF c, previous, pin, told, r
<1>10. ASSUME NEW w \in Range(watchers), NEW g \in GPIO
       PROVE  heard'[w][g] + Pending(w, g)' = pins'[g].level
  <2>1. w \in Watchers /\ heard[w][g] \in Int /\ pins[g].level \in Int /\ watchers # <<>>
    BY <1>10 DEF TypeOK, Range, EdgesInv, Pin, Levels
  <2>2. heard[w][g] + Pending(w, g) = pins[g].level
    BY <1>10 DEF EdgesInv, EdgesConserved
  <2>3. \A u \in AllThreads \ {t} : OnItsWay(u, w, g)' = OnItsWay(u, w, g)
    BY <1>5, <1>6 DEF OnItsWay
  <2>4. OnItsWay(t, w, g) = 0
    BY <1>1 DEF OnItsWay
  <2>5. Pending(w, g) \in Int
    BY PendingType
  <2>6. Pending(w, g)' = Pending(w, g) + OnItsWay(t, w, g)' - OnItsWay(t, w, g)
    BY <2>3, PendingStep
  <2>7. OnItsWay(t, w, g)' = IF told /\ g = c.gpio THEN pin.level - previous.level ELSE 0
    BY <1>4, <1>7, <1>9, <1>10 DEF OnItsWay
  <2>8. CASE g # c.gpio
    BY <1>3, <2>1, <2>2, <2>4, <2>5, <2>6, <2>7, <2>8 DEF TypeOK
  <2>9. CASE g = c.gpio
    <3>1. pins'[g].level = pin.level /\ pins[g].level = previous.level
      BY <1>1, <1>3, <2>9 DEF TypeOK, previous
    <3>2. ~told => pin.level = previous.level
      BY <1>8, <2>1 DEF Differs
    <3>3. QED
      BY <1>2, <1>3, <2>1, <2>2, <2>4, <2>5, <2>6, <2>7, <2>9, <3>1, <3>2
  <2>10. QED
    BY <2>8, <2>9
<1>11. ASSUME NEW u \in AllThreads, pc'[u] = "report" PROVE IsInjective(report'[u].to)
  BY <1>3, <1>4, <1>5, <1>6, <1>7, <1>9, <1>11 DEF EdgesInv
<1>12. QED
  BY <1>3, <1>10, <1>11 DEF EdgesInv, EdgesConserved

LEMMA DeliverEdges ==
    ASSUME TypeOK, TypeOK', EdgesInv, NEW t \in AllThreads, Deliver(t)
    PROVE  EdgesInv'
<1> DEFINE r == report[t]
           first == Head(r.to)
           edge == r.pin.level - r.previous.level
<1>1. /\ pc[t] = "report" /\ r \in Report /\ r.to # <<>> /\ r.to \in Seq(Watchers)
      /\ r.gpio \in GPIO /\ edge \in Int
  BY DEF Deliver, TypeOK, AllThreads, Report, Pin, Levels
<1>2. UNCHANGED <<pins, watchers>>
  BY DEF Deliver
<1>3. /\ first \in Watchers /\ Tail(r.to) \in Seq(Watchers)
      /\ Range(r.to) = Range(Tail(r.to)) \cup {first}
      /\ IsInjective(Tail(r.to)) /\ first \notin Range(Tail(r.to))
      /\ Len(r.to) = 1 => Range(r.to) = {first}
  BY <1>1, TailOnce DEF EdgesInv
<1>4. /\ heard' \in [Watchers -> [GPIO -> Int]]
      /\ \A w \in Watchers, g \in GPIO :
            heard'[w][g] = heard[w][g] + (IF w = first /\ g = r.gpio THEN edge ELSE 0)
  <2>1. heard' = [heard EXCEPT ![first][r.gpio] = @ + r.pin.level - r.previous.level]
    BY DEF Deliver
  <2>2. heard \in [Watchers -> [GPIO -> Int]] /\ r.pin.level \in Int /\ r.previous.level \in Int
    BY <1>1 DEF EdgesInv, Report, Pin, Levels
  <2>3. heard[first][r.gpio] \in Int /\ heard[first] \in [GPIO -> Int]
    BY <1>1, <1>3, <2>2
  <2>4. heard[first][r.gpio] + r.pin.level - r.previous.level = heard[first][r.gpio] + edge
    BY <2>2, <2>3
  <2>5. heard' = [heard EXCEPT ![first][r.gpio] = heard[first][r.gpio] + edge]
    BY <2>1, <2>4
  <2>6. heard[first][r.gpio] + edge \in Int
    BY <1>1, <2>3
  <2> HIDE DEF r, first, edge
  <2>7. heard' \in [Watchers -> [GPIO -> Int]]
    BY <1>1, <1>3, <2>2, <2>5, <2>6
  <2>8. ASSUME NEW w \in Watchers, NEW g \in GPIO
        PROVE  heard'[w][g] = heard[w][g] + (IF w = first /\ g = r.gpio THEN edge ELSE 0)
    <3>1. CASE w = first /\ g = r.gpio
      BY <1>1, <1>3, <2>2, <2>5, <3>1
    <3>2. CASE ~(w = first /\ g = r.gpio)
      <4>1. heard'[w][g] = heard[w][g] /\ heard[w][g] \in Int
        BY <1>1, <1>3, <2>2, <2>5, <3>2
      <4>2. QED
        BY <3>2, <4>1
    <3>3. QED
      BY <3>1, <3>2
  <2>9. QED
    BY <2>7, <2>8
<1>5. \A u \in AllThreads \ {t} : pc'[u] = pc[u]
  BY OthersKeep
<1>6. /\ \A u \in AllThreads \ {t} : report'[u] = report[u]
      /\ pc'[t] = "report" =>
            /\ report'[t].gpio = r.gpio /\ report'[t].pin = r.pin /\ report'[t].previous = r.previous
            /\ report'[t].to = Tail(r.to)
      /\ pc'[t] # "report" => Len(r.to) = 1
  <2>1. CASE Len(r.to) = 1
    <3>1. Return(t) /\ report' = [report EXCEPT ![t] = None]
      BY <2>1 DEF Deliver
    <3>2. pc'[t] # "report"
      BY <1>1, <3>1, ReturnType
    <3>3. QED
      BY <2>1, <3>1, <3>2 DEF TypeOK, AllThreads
  <2>2. CASE Len(r.to) # 1
    <3>1. report' = [report EXCEPT ![t].to = Tail(@)] /\ pc' = pc
      BY <2>2 DEF Deliver
    <3>2. QED
      BY <1>1, <2>2, <3>1 DEF TypeOK, AllThreads, Report
  <2>3. QED
    BY <2>1, <2>2
<1>7. ASSUME NEW w \in Range(watchers), NEW g \in GPIO
      PROVE  heard'[w][g] + Pending(w, g)' = pins'[g].level
  <2>1. w \in Watchers /\ heard[w][g] \in Int
    BY <1>7 DEF TypeOK, Range, EdgesInv
  <2>2. heard[w][g] + Pending(w, g) = pins[g].level /\ Pending(w, g) \in Int
    BY <1>7, PendingType DEF EdgesInv, EdgesConserved
  <2>3. \A u \in AllThreads \ {t} : OnItsWay(u, w, g)' = OnItsWay(u, w, g)
    BY <1>5, <1>6 DEF OnItsWay
  <2>4. Pending(w, g)' = Pending(w, g) + OnItsWay(t, w, g)' - OnItsWay(t, w, g)
    BY <2>3, PendingStep
  <2>5. OnItsWay(t, w, g) = IF r.gpio = g /\ w \in Range(r.to) THEN edge ELSE 0
    BY <1>1 DEF OnItsWay
  <2>6. OnItsWay(t, w, g)' = IF pc'[t] = "report" /\ r.gpio = g /\ w \in Range(Tail(r.to)) THEN edge ELSE 0
    BY <1>6 DEF OnItsWay
  <2>7. heard'[w][g] = heard[w][g] + (IF w = first /\ g = r.gpio THEN edge ELSE 0)
    BY <1>4, <2>1
  <2> HIDE DEF r, first, edge
  <2>8. OnItsWay(t, w, g)' - OnItsWay(t, w, g) = 0 - (IF w = first /\ g = r.gpio THEN edge ELSE 0)
    BY <1>1, <1>3, <1>6, <2>5, <2>6
  <2>9. OnItsWay(t, w, g) \in Int /\ OnItsWay(t, w, g)' \in Int
    BY <1>1, <2>5, <2>6
  <2> DEFINE part == IF w = first /\ g = r.gpio THEN edge ELSE 0
  <2>10. part \in Int
    BY <1>1
  <2> HIDE DEF part
  <2>11. heard'[w][g] = heard[w][g] + part /\ OnItsWay(t, w, g)' - OnItsWay(t, w, g) = 0 - part
    BY <2>7, <2>8 DEF part
  <2>12. QED
    BY <1>2, <2>1, <2>2, <2>4, <2>9, <2>10, <2>11
<1>8. ASSUME NEW u \in AllThreads, pc'[u] = "report" PROVE IsInjective(report'[u].to)
  BY <1>3, <1>5, <1>6, <1>8 DEF EdgesInv
<1>9. QED
  BY <1>2, <1>4, <1>7, <1>8 DEF EdgesInv, EdgesConserved

LEMMA ResetEdges ==
    ASSUME TypeOK, EdgesInv, NEW t \in Threads, reset(t)
    PROVE  EdgesInv'
<1>1. /\ UNCHANGED <<watchers, report>>
      /\ pins' = [g \in GPIO |-> NewPin]
      /\ heard' = [w \in Watchers |-> [g \in GPIO |-> 0 - Pending(w, g)]]
  BY DEF reset
<1>2. \A u \in AllThreads : pc'[u] = "report" <=> pc[u] = "report"
  BY DEF reset, TypeOK, AllThreads
<1>3. \A w, g : Pending(w, g)' = Pending(w, g)
  BY <1>1, <1>2, PendingStays
<1>4. heard' \in [Watchers -> [GPIO -> Int]]
  <2>1. \A w, g : Pending(w, g) \in Int
    BY PendingType
  <2>2. \A w, g : 0 - Pending(w, g) \in Int
    BY <2>1
  <2>3. QED
    BY <1>1, <2>2
<1>5. ASSUME NEW w \in Range(watchers), NEW g \in GPIO
      PROVE  heard'[w][g] + Pending(w, g)' = pins'[g].level
  <2>1. w \in Watchers /\ Pending(w, g) \in Int
    BY <1>5, PendingType DEF TypeOK, Range
  <2>2. heard'[w][g] = 0 - Pending(w, g) /\ pins'[g].level = 0
    BY <1>1, <2>1 DEF NewPin
  <2>3. QED
    BY <1>3, <2>1, <2>2
<1>6. QED
  BY <1>1, <1>2, <1>4, <1>5 DEF EdgesInv, EdgesConserved

LEMMA WatchEdges ==
    ASSUME TypeOK, EdgesInv, NEW w \in Watchers, watch(w)
    PROVE  EdgesInv'
<1>1. /\ UNCHANGED <<pins, pc, report>>
      /\ watchers' = Append(watchers, w) /\ w \notin Range(watchers)
      /\ heard' = [heard EXCEPT ![w] = [g \in GPIO |-> pins[g].level - Pending(w, g)]]
  BY DEF watch
<1>2. \A v, g : Pending(v, g)' = Pending(v, g)
  BY <1>1, PendingStays
<1>3. watchers \in Seq(Watchers) /\ IsInjective(watchers)
  BY DEF TypeOK, EdgesInv
<1>4. IsInjective(watchers') /\ Range(watchers') = Range(watchers) \cup {w}
  BY <1>1, <1>3, AppendOnce
<1>5. \A g \in GPIO : pins[g].level \in Int
  BY DEF TypeOK, Pin, Levels
<1> DEFINE new == [g \in GPIO |-> pins[g].level - Pending(w, g)]
<1>6. new \in [GPIO -> Int] /\ \A g \in GPIO : new[g] = pins[g].level - Pending(w, g)
  BY <1>5, PendingType
<1> HIDE DEF new
<1>7. heard' = [heard EXCEPT ![w] = new] /\ heard \in [Watchers -> [GPIO -> Int]]
  BY <1>1 DEF new, EdgesInv
<1>8. heard' \in [Watchers -> [GPIO -> Int]]
  BY <1>6, <1>7
<1>9. ASSUME NEW v \in Range(watchers'), NEW g \in GPIO
      PROVE  heard'[v][g] + Pending(v, g)' = pins'[g].level
  <2>1. Pending(v, g) \in Int /\ Pending(v, g)' = Pending(v, g)
    BY <1>2, PendingType
  <2>2. CASE v = w
    <3>1. heard'[v][g] = pins[g].level - Pending(w, g)
      BY <1>6, <1>7, <2>2
    <3>2. QED
      BY <1>1, <1>5, <2>1, <2>2, <3>1
  <2>3. CASE v # w
    <3>1. v \in Range(watchers) /\ v \in Watchers
      BY <1>3, <1>4, <1>9, <2>3 DEF Range
    <3>2. heard[v][g] + Pending(v, g) = pins[g].level
      BY <3>1 DEF EdgesInv, EdgesConserved
    <3>3. heard'[v][g] = heard[v][g]
      BY <1>7, <2>3, <3>1
    <3>4. QED
      BY <1>1, <2>1, <3>2, <3>3
  <2>4. QED
    BY <2>2, <2>3
<1>10. QED
  BY <1>1, <1>4, <1>8, <1>9 DEF EdgesInv, EdgesConserved

LEMMA UnwatchEdges ==
    ASSUME TypeOK, EdgesInv, NEW w \in Watchers, unwatch(w)
    PROVE  EdgesInv'
<1>1. UNCHANGED <<pins, pc, report, heard>>
  BY DEF unwatch
<1>2. \A v, g : Pending(v, g)' = Pending(v, g)
  BY <1>1, PendingStays
<1>3. watchers \in Seq(Watchers) /\ IsInjective(watchers)
  BY DEF TypeOK, EdgesInv
<1>4. PICK i \in DOMAIN watchers : watchers' = RemoveAt(watchers, i)
  BY DEF unwatch
<1>5. IsInjective(watchers') /\ Range(watchers') \subseteq Range(watchers)
  BY <1>3, <1>4, RemoveOnce
<1>6. EdgesConserved'
  BY <1>1, <1>2, <1>5 DEF EdgesInv, EdgesConserved
<1>7. QED
  BY <1>1, <1>5, <1>6 DEF EdgesInv

LEMMA NextEdges == TypeOK /\ TypeOK' /\ EdgesInv /\ [Next]_vars => EdgesInv'
<1> SUFFICES ASSUME TypeOK, TypeOK', EdgesInv, [Next]_vars PROVE EdgesInv'
  OBVIOUS
<1>1. ASSUME NEW t \in Threads, NEW g \in GPIO, CallSetup(t, g) \/ CallLevel(t, g) \/ CallPwm(t, g)
      PROVE  EdgesInv'
  <2>1. PICK c : Begin(t, c)
    BY <1>1 DEF CallSetup, CallLevel, CallPwm, setup_input, setup_output, release, write, drive,
                stop_pwm, set_pwm
  <2>2. \A u \in AllThreads : pc'[u] = "report" <=> pc[u] = "report"
    BY <2>1 DEF Begin, TypeOK, AllThreads
  <2>3. UNCHANGED <<pins, watchers, report, heard>>
    BY <2>1 DEF Begin
  <2>4. QED
    BY <2>2, <2>3, QuietEdges
<1>2. ASSUME NEW t \in Threads, Start(t) PROVE EdgesInv'
  <2>1. \A u \in AllThreads : pc'[u] = "report" <=> pc[u] = "report"
    BY <1>2 DEF Start, TypeOK, AllThreads
  <2>2. UNCHANGED <<pins, watchers, report, heard>>
    BY <1>2 DEF Start
  <2>3. QED
    BY <2>1, <2>2, QuietEdges
<1>3. ASSUME NEW t \in Threads, reset(t) PROVE EdgesInv'
  BY <1>3, ResetEdges
<1>4. ASSUME NEW t \in AllThreads, Update(t) \/ Deliver(t) PROVE EdgesInv'
  BY <1>4, UpdateEdges, DeliverEdges
<1>5. CASE TogglerStep \/ Tick \/ UNCHANGED vars
  <2>1. \A u \in AllThreads : pc'[u] = "report" <=> pc[u] = "report"
    BY <1>5 DEF TogglerStep, Scan, Toggle, Wait, Wake, Tick, vars, TypeOK, AllThreads
  <2>2. UNCHANGED <<pins, watchers, report, heard>>
    BY <1>5 DEF TogglerStep, Scan, Toggle, Wait, Wake, Tick, vars
  <2>3. QED
    BY <2>1, <2>2, QuietEdges
<1>6. ASSUME NEW w \in Watchers, watch(w) \/ unwatch(w) PROVE EdgesInv'
  BY <1>6, WatchEdges, UnwatchEdges
<1>7. QED
  BY <1>1, <1>2, <1>3, <1>4, <1>5, <1>6 DEF Next, Thread, AllThreads

(* Whatever the threads do between a commit and its report, no edge of a   *)
(* line is lost, told twice or made up: for every watcher, any number of   *)
(* threads and any lines, the edges heard and those on their way add up to *)
(* the level.                                                              *)
THEOREM PinsEdgesConserved == Spec => []EdgesConserved
<1> DEFINE IInv == TypeOK /\ EdgesInv
<1>1. Init => IInv
  BY InitType, EdgesInit
<1>2. IInv /\ [Next]_vars => IInv'
  BY NextType, NextEdges
<1>3. IInv => EdgesConserved
  BY DEF EdgesInv
<1>4. QED
  BY <1>1, <1>2, <1>3, PTL DEF Spec

-----------------------------------------------------------------------------
(* Remainders: what a tick, and a turn of the clock, do to a position in a *)
(* cycle.                                                                  *)

LEMMA DivMod ==
    ASSUME NEW x \in Int, NEW p \in Int, p > 0
    PROVE  \E d \in Int, m \in 0 .. p - 1 : x % p = m /\ x = p * d + m
<1> DEFINE d == x \div p
           m == x % p
<1>1. x % p = x - p * (x \div p)
  BY SMT
<1>2. m \in 0 .. p - 1 /\ d \in Int
  BY SMT
<1>3. m = x - p * d /\ m \in Int
  BY <1>1, <1>2
<1>4. x % p = m
  OBVIOUS
<1> HIDE DEF d, m
<1>5. x = p * d + m
  BY <1>2, <1>3
<1>6. QED
  BY <1>2, <1>4, <1>5

LEMMA ModUnique ==
    ASSUME NEW q \in Int, NEW r \in Int, NEW p \in Int, p > 0, 0 <= r, r < p
    PROVE  (p * q + r) % p = r
BY SMT

LEMMA ModSucc ==
    ASSUME NEW x \in Int, NEW p \in Int, p > 0
    PROVE  (x + 1) % p = IF x % p = p - 1 THEN 0 ELSE (x % p) + 1
<1>1. PICK d \in Int, m \in 0 .. p - 1 : x % p = m /\ x = p * d + m
  BY DivMod
<1>2. CASE m = p - 1
  <2>1. x + 1 = p * (d + 1) + 0
    BY <1>1, <1>2
  <2>2. d + 1 \in Int /\ 0 \in Int /\ 0 <= 0 /\ 0 < p /\ x + 1 \in Int
    BY <1>1
  <2>3. (x + 1) % p = 0
    BY <2>1, <2>2, ModUnique
  <2>4. QED
    BY <1>1, <1>2, <2>3
<1>3. CASE m # p - 1
  <2>1. x + 1 = p * d + (m + 1)
    BY <1>1, <1>3
  <2>2. m + 1 \in Int /\ 0 <= m + 1 /\ m + 1 < p /\ x + 1 \in Int
    BY <1>1, <1>3
  <2>3. (x + 1) % p = m + 1
    BY <1>1, <2>1, <2>2, ModUnique
  <2>4. QED
    BY <1>1, <1>3, <2>3
<1>4. QED
  BY <1>2, <1>3

LEMMA ModShift ==
    ASSUME NEW x \in Int, NEW k \in Int, NEW p \in Int, p > 0
    PROVE  (x + p * k) % p = x % p
<1>1. PICK d \in Int, m \in 0 .. p - 1 : x % p = m /\ x = p * d + m
  BY DivMod
<1>2. x + p * k = p * (d + k) + m
  BY <1>1
<1>3. d + k \in Int /\ m \in Int /\ 0 <= m /\ m < p /\ x + p * k \in Int
  BY <1>1
<1>4. (p * (d + k) + m) % p = m
  BY <1>3, ModUnique
<1>5. QED
  BY <1>1, <1>2, <1>4

(* The clock turns over at a multiple of the period: nobody sees it. *)
LEMMA ClockTurns ==
    ASSUME NEW x \in Int, NEW s \in Int, NEW p \in Int, NEW c \in Int,
           p > 0, c > 0, c % p = 0
    PROVE  ((x % c) - s) % p = (x - s) % p
<1>1. PICK d \in Int, m \in 0 .. c - 1 : x % c = m /\ x = c * d + m
  BY DivMod
<1>2. PICK e \in Int, n \in 0 .. p - 1 : c % p = n /\ c = p * e + n
  BY DivMod
<1>3. c = p * e
  BY <1>2
<1>4. c * d = p * (e * d)
  BY <1>1, <1>2, <1>3
<1>5. e * d \in Int /\ m - s \in Int
  BY <1>1, <1>2
<1>6. x - s = (m - s) + p * (e * d)
  BY <1>1, <1>4, <1>5
<1>7. ((m - s) + p * (e * d)) % p = (m - s) % p
  BY <1>5, ModShift, ZenonT(60)
<1>8. QED
  BY <1>1, <1>6, <1>7

(* The position in a cycle after one more tick of the clock. *)
LEMMA PositionSucc ==
    \A n, s, p, c \in Int : p > 0 /\ c > 0 /\ c % p = 0 =>
        /\ (n - s) % p \in 0 .. p - 1
        /\ (((n + 1) % c) - s) % p =
              IF (n - s) % p = p - 1 THEN 0 ELSE ((n - s) % p) + 1
<1> SUFFICES ASSUME NEW n \in Int, NEW s \in Int, NEW p \in Int, NEW c \in Int,
                    p > 0, c > 0, c % p = 0
             PROVE  /\ (n - s) % p \in 0 .. p - 1
                    /\ (((n + 1) % c) - s) % p =
                          IF (n - s) % p = p - 1 THEN 0 ELSE ((n - s) % p) + 1
  OBVIOUS
<1>1. n + 1 \in Int /\ n - s \in Int /\ n + 1 - s = (n - s) + 1
  OBVIOUS
<1>2. (((n + 1) % c) - s) % p = (n + 1 - s) % p
  BY <1>1, ClockTurns
<1>3. ((n - s) + 1) % p = IF (n - s) % p = p - 1 THEN 0 ELSE ((n - s) % p) + 1
  BY <1>1, ModSucc
<1>4. QED
  BY <1>1, <1>2, <1>3

-----------------------------------------------------------------------------
(* The toggler's sleep. *)

(* A tick brings the next edge of a toggling pin one tick nearer, or is it. *)
LEMMA TickNearsEdge ==
    ASSUME TypeOK, Tick, NEW g \in Toggling
    PROVE  UntilEdge(pins[g])' >= UntilEdge(pins[g]) - 1
<1> DEFINE pin  == pins[g]
           p    == pin.pwm.period
           high == pin.pwm.high
           into == (now - pin.since) % p
           after == (now' - pin.since) % p
<1>1. pin \in Pin /\ pin.pwm \in Pwms /\ 0 < high /\ high < p
  BY DEF Toggling, Toggles, Slow, TypeOK, Pin
<1>2. p \in Nat \ {0} /\ high \in Nat /\ Cycle % p = 0 /\ Cycle \in Nat \ {0}
  BY <1>1, PinsAssumption
<1>3. now \in Int /\ pin.since \in Int
  BY <1>1, PinsAssumption DEF TypeOK, Ticks, Pin
<1>4. now' = (now + 1) % Cycle /\ pins' = pins
  BY DEF Tick
<1>5. UntilEdge(pins[g]) = IF into < high THEN high - into ELSE p - into
  BY DEF UntilEdge
<1>6. UntilEdge(pins[g])' = IF after < high THEN high - after ELSE p - after
  BY <1>4 DEF UntilEdge
<1>7. into \in 0 .. p - 1 /\ after = IF into = p - 1 THEN 0 ELSE into + 1
  <2>1. PICK n \in Int, s \in Int, q \in Int, c \in Int :
          n = now /\ s = pin.since /\ q = p /\ c = Cycle
    BY <1>2, <1>3
  <2>2. q > 0 /\ c > 0 /\ c % q = 0
    BY <1>2, <2>1
  <2>3. /\ (n - s) % q \in 0 .. q - 1
        /\ (((n + 1) % c) - s) % q = IF (n - s) % q = q - 1 THEN 0 ELSE ((n - s) % q) + 1
    BY <2>2, PositionSucc
  <2>4. QED
    BY <1>4, <2>1, <2>3
<1> HIDE DEF pin, p, high
<1> HIDE DEF into, after
<1>8. QED
  BY <1>1, <1>2, <1>5, <1>6, <1>7

(* The general step: the pins that toggle kept their PWM, or are notified. *)
LEMMA KeepsSleep ==
    ASSUME NoOversleep, UNCHANGED <<now, sleep>>, pc'[Toggler] = "wait" => pc[Toggler] = "wait",
           \A g \in Toggling' :
              \/ g \in Toggling /\ pins'[g].pwm = pins[g].pwm /\ pins'[g].since = pins[g].since
              \/ \E t \in Threads : Notifying(t, g)',
           \A t \in Threads, g \in GPIO :
              pc'[Toggler] = "wait" /\ Notifying(t, g) => Notifying(t, g)'
    PROVE  NoOversleep'
<1> SUFFICES ASSUME pc'[Toggler] = "wait", NEW g \in Toggling',
                    ~ \E t \in Threads : Notifying(t, g)'
             PROVE  sleep' <= UntilEdge(pins[g])'
  BY DEF NoOversleep
<1>1. g \in GPIO /\ g \in Toggling /\ pins'[g].pwm = pins[g].pwm /\ pins'[g].since = pins[g].since
  BY DEF Toggling
<1>2. UntilEdge(pins[g])' = UntilEdge(pins[g])
  BY <1>1 DEF UntilEdge
<1>3. ~ \E t \in Threads : Notifying(t, g)
  BY <1>1
<1>4. QED
  BY <1>1, <1>2, <1>3 DEF NoOversleep

LEMMA UpdateSleep ==
    ASSUME TypeOK, InputsReadTheirDrive, NoOversleep, NEW t \in AllThreads, Update(t)
    PROVE  NoOversleep'
<1>1. call[t] \in Call /\ call[t].gpio \in GPIO /\ pc[t] = "update"
  BY TypeOfCall DEF Update, Call
<1>2. pins' = [pins EXCEPT ![call[t].gpio] = Updated(call[t])] /\ UNCHANGED <<now, sleep>>
  BY DEF Update
<1>3. CASE t = Toggler
  <2>1. pc'[Toggler] \in {"report", "next"}
    BY <1>3 DEF Update, Return, Resume, TypeOK
  <2>2. QED
    BY <2>1 DEF NoOversleep
<1>4. CASE t \in Threads
  <2>1. pc'[Toggler] = pc[Toggler]
    BY <1>4, OthersKeep, PinsAssumption DEF AllThreads
  <2>2. ASSUME NEW s \in Threads, NEW g \in GPIO, Notifying(s, g) PROVE Notifying(s, g)'
    <3>1. s # t
      BY <1>1, <2>2 DEF Notifying
    <3>2. QED
      BY <2>2, <3>1, OthersKeep DEF Notifying, AllThreads
  <2>3. ASSUME NEW g \in Toggling'
        PROVE  \/ g \in Toggling /\ pins'[g].pwm = pins[g].pwm /\ pins'[g].since = pins[g].since
               \/ \E s \in Threads : Notifying(s, g)'
    <3>1. g \in GPIO /\ Toggles(pins'[g])
      BY DEF Toggling
    <3>2. CASE g # call[t].gpio
      BY <1>2, <3>1, <3>2 DEF Toggling, TypeOK
    <3>3. CASE g = call[t].gpio /\ call[t].op = "set_pwm"
      <4>1. pc'[t] \in {"report", "start"} /\ call'[t] = call[t]
        BY <1>4, <3>3, UpdateNotifies
      <4>2. QED
        BY <1>4, <3>3, <4>1 DEF Notifying
    <3>4. CASE g = call[t].gpio /\ call[t].op # "set_pwm"
      <4>1. pins'[g] = Updated(call[t]) /\ pins[g] \in Pin
        BY <1>1, <1>2, <3>1, <3>4 DEF TypeOK
      <4>2. pins[g].function # "output" => pins[g].pwm = None
        BY <3>1 DEF InputsReadTheirDrive
      <4>3. pins'[g].pwm = pins[g].pwm /\ pins'[g].since = pins[g].since
        <5>1. PICK c : c = call[t]
          OBVIOUS
        <5>2. c \in Call /\ c.op # "set_pwm" /\ g = c.gpio /\ pins'[g] = Updated(c)
          BY <1>1, <3>4, <4>1, <5>1
        <5>3. Toggles(Updated(c)) => Updated(c).pwm # None
          BY DEF Toggles, Slow
        <5>4. CASE ~Applies(c)
          BY <5>2, <5>4 DEF Updated
        <5>5. CASE Applies(c)
          <6>1. Updated(c) = Settle(Replace(c, pins[g]))
            BY <5>2, <5>5 DEF Updated
          <6>2. Updated(c) = Replace(c, pins[g])
            <7>1. Replace(c, pins[g]) \in Pin
              BY <4>1, <5>2, ReplaceType
            <7>2. Settle(Replace(c, pins[g])).pwm # None
              BY <3>1, <5>2, <5>3, <6>1
            <7>3. QED
              BY <6>1, <7>1, <7>2 DEF Settle, Pin
          <6>3. c.op # "stop_pwm"
            <7>1. c.op = "stop_pwm" => Replace(c, pins[g]).pwm = None
              BY <4>1 DEF Replace, Pin
            <7>2. QED
              BY <3>1, <5>2, <5>3, <6>2, <7>1
          <6>4. Replace(c, pins[g]).pwm = pins[g].pwm /\ Replace(c, pins[g]).since = pins[g].since
            BY <4>1, <5>2, <6>3 DEF Replace, Pin
          <6>5. QED
            BY <5>2, <6>2, <6>4
        <5>6. QED
          BY <5>4, <5>5
      <4>4. Toggles(pins[g])
        BY <3>1, <4>2, <4>3 DEF Toggles, Slow
      <4>5. QED
        BY <3>1, <4>3, <4>4 DEF Toggling
    <3>5. QED
      BY <3>2, <3>3, <3>4
  <2>4. QED
    BY <1>2, <2>1, <2>2, <2>3, KeepsSleep
<1>5. QED
  BY <1>3, <1>4 DEF AllThreads

LEMMA DeliverSleep ==
    ASSUME TypeOK, NoOversleep, NEW t \in AllThreads, Deliver(t)
    PROVE  NoOversleep'
<1>1. UNCHANGED <<pins, now, sleep>> /\ Toggling' = Toggling
  BY DEF Deliver, Toggling
<1>2. pc'[Toggler] = "wait" => pc[Toggler] = "wait"
  <2>1. CASE t = Toggler
    BY <2>1 DEF Deliver, Return, Resume, TypeOK
  <2>2. CASE t # Toggler
    BY <2>2, OthersKeep DEF AllThreads
  <2>3. QED
    BY <2>1, <2>2
<1>3. ASSUME NEW s \in Threads, NEW g \in GPIO, Notifying(s, g) PROVE Notifying(s, g)'
  <2>1. CASE s = t
    BY <1>3, <2>1, DeliverNotifies DEF Notifying
  <2>2. CASE s # t
    BY <1>3, <2>2, OthersKeep DEF Notifying, AllThreads
  <2>3. QED
    BY <2>1, <2>2
<1>4. QED
  BY <1>1, <1>2, <1>3, KeepsSleep

LEMMA CallSleep ==
    ASSUME TypeOK, NoOversleep, NEW t \in Threads, NEW c, Begin(t, c)
    PROVE  NoOversleep'
<1>1. UNCHANGED <<pins, now, sleep>> /\ Toggling' = Toggling
  BY DEF Begin, Toggling
<1>2. pc'[Toggler] = pc[Toggler]
  BY PinsAssumption DEF Begin, TypeOK
<1>3. ASSUME NEW s \in Threads, NEW g \in GPIO, Notifying(s, g) PROVE Notifying(s, g)'
  BY <1>3 DEF Notifying, Begin, TypeOK
<1>4. QED
  BY <1>1, <1>2, <1>3, KeepsSleep

LEMMA TogglerSleep ==
    ASSUME TypeOK, TogglerStep
    PROVE  NoOversleep'
<1>1. CASE Wait /\ pc'[Toggler] = "wait"
  <2>1. UNCHANGED <<pins, now, call>> /\ Toggling' = Toggling
    BY <1>1 DEF Wait, Toggling
  <2>2. PICK g \in Toggling : /\ \A other \in Toggling : UntilEdge(pins[g]) <= UntilEdge(pins[other])
                              /\ sleep' = UntilEdge(pins[g])
    BY <1>1 DEF Wait, TypeOK
  <2>3. ASSUME NEW other \in Toggling' PROVE sleep' <= UntilEdge(pins[other])'
    <3>1. UntilEdge(pins[other])' = UntilEdge(pins[other])
      BY <2>1 DEF UntilEdge
    <3>2. QED
      BY <2>1, <2>2, <3>1
  <2>4. QED
    BY <2>3 DEF NoOversleep
<1>2. CASE Scan \/ Toggle \/ Wake \/ (Wait /\ pc'[Toggler] # "wait")
  <2>1. pc'[Toggler] # "wait"
    BY <1>2 DEF Scan, Toggle, Wake, TypeOK
  <2>2. QED
    BY <2>1 DEF NoOversleep
<1>3. QED
  BY <1>1, <1>2 DEF TogglerStep

LEMMA TickSleep ==
    ASSUME TypeOK, TypeOK', NoOversleep, Tick
    PROVE  NoOversleep'
<1>1. UNCHANGED <<pins, pc, call>> /\ Toggling' = Toggling
  BY DEF Tick, Toggling
<1>2. ASSUME pc[Toggler] = "wait", NEW g \in Toggling, sleep <= UntilEdge(pins[g])
      PROVE  sleep' <= UntilEdge(pins[g])'
  <2>1. UntilEdge(pins[g]) \in Nat \ {0}
    BY UntilEdgeType
  <2>2. UntilEdge(pins[g])' \in Nat \ {0}
    <3>1. pins[g] \in Pin /\ pins[g].pwm \in Pwms /\ now' \in Int /\ pins' = pins
      BY <1>1, PinsAssumption DEF Toggling, Toggles, Slow, TypeOK, Pin, Ticks
    <3>2. pins[g].pwm.period \in Nat \ {0} /\ pins[g].pwm.high \in Nat /\ pins[g].since \in Int
      BY <3>1, PinsAssumption DEF Pin, Ticks
    <3>3. (now' - pins[g].since) % pins[g].pwm.period \in 0..(pins[g].pwm.period - 1)
      BY <3>1, <3>2
    <3>4. QED
      BY <3>1, <3>2, <3>3 DEF UntilEdge
  <2>3. UntilEdge(pins[g])' >= UntilEdge(pins[g]) - 1
    BY TickNearsEdge
  <2>4. sleep \in Nat /\ sleep' = IF sleep > 0 THEN sleep - 1 ELSE sleep
    BY <1>2 DEF Tick, TypeOK
  <2> DEFINE before == UntilEdge(pins[g])
             after == UntilEdge(pins[g])'
  <2>5. before \in Nat \ {0} /\ after \in Nat \ {0} /\ after >= before - 1 /\ sleep <= before
    BY <1>2, <2>1, <2>2, <2>3
  <2> HIDE DEF before, after
  <2>6. sleep' <= after
    BY <2>4, <2>5
  <2>7. QED
    BY <2>6 DEF after
<1>3. ASSUME NEW s \in Threads, NEW g, Notifying(s, g) PROVE Notifying(s, g)'
  BY <1>1, <1>3 DEF Notifying
<1>4. QED
  BY <1>1, <1>2, <1>3 DEF NoOversleep

LEMMA NextSleep ==
    TypeOK /\ TypeOK' /\ InputsReadTheirDrive /\ NoOversleep /\ [Next]_vars => NoOversleep'
<1> SUFFICES ASSUME TypeOK, TypeOK', InputsReadTheirDrive, NoOversleep, [Next]_vars
             PROVE  NoOversleep'
  OBVIOUS
<1>1. ASSUME NEW t \in Threads, NEW g \in GPIO, CallSetup(t, g) \/ CallLevel(t, g) \/ CallPwm(t, g)
      PROVE  NoOversleep'
  <2>1. \E c : Begin(t, c)
    BY <1>1 DEF CallSetup, CallLevel, CallPwm, setup_input, setup_output, release, write, drive,
                stop_pwm, set_pwm
  <2>2. QED
    BY <2>1, CallSleep
<1>2. ASSUME NEW t \in Threads, Start(t) \/ reset(t) PROVE NoOversleep'
  <2>1. pc'[Toggler] # "wait"
    BY <1>2, PinsAssumption DEF Start, reset, TypeOK
  <2>2. QED
    BY <2>1 DEF NoOversleep
<1>3. ASSUME NEW t \in AllThreads, Update(t) \/ Deliver(t) PROVE NoOversleep'
  BY <1>3, UpdateSleep, DeliverSleep
<1>4. CASE TogglerStep
  BY <1>4, TogglerSleep
<1>5. CASE Tick
  BY <1>5, TickSleep
<1>6. ASSUME UNCHANGED <<pins, now, sleep, pc, call>> PROVE NoOversleep'
  <2>1. Toggling' = Toggling
    BY <1>6 DEF Toggling
  <2>2. QED
    BY <1>6, <2>1, KeepsSleep DEF Notifying
<1>7. ASSUME NEW w \in Watchers, watch(w) \/ unwatch(w) PROVE NoOversleep'
  BY <1>6, <1>7 DEF watch, unwatch
<1>8. CASE UNCHANGED vars
  BY <1>6, <1>8 DEF vars
<1>9. QED
  BY <1>1, <1>2, <1>3, <1>4, <1>5, <1>7, <1>8 DEF Next, Thread, AllThreads

LEMMA InitSleep == Init => NoOversleep
BY PinsAssumption DEF Init, NoOversleep

(* Whatever PWM settings come and go while the toggler waits, and however  *)
(* late it is scheduled, its wait ends no later than the next edge of any  *)
(* toggling pin, or a set_pwm is about to wake it.                         *)
THEOREM PinsNoOversleep == Spec => []NoOversleep
<1> DEFINE IInv == TypeOK /\ InputsReadTheirDrive /\ NoOversleep
<1>1. Init => IInv
  BY InitType, InitReadsDrive, InitSleep
<1>2. IInv /\ [Next]_vars => IInv'
  BY NextType, NextReadsDrive, NextSleep
<1>3. QED
  BY <1>1, <1>2, PTL DEF Spec

-----------------------------------------------------------------------------
(* GPIO over MQTT *)

(* The types of the pins and of the bridge. *)
BridgeType == TypeOK /\ BridgeTypeOK

-----------------------------------------------------------------------------
(* Type correctness.  The bridge's steps are steps of the pins, or leave    *)
(* them alone; the exception is on_message, whose drive no thread's program *)
(* holds.                                                                   *)

LEMMA MessageType ==
    ASSUME TypeOK, NEW g \in GPIO, NEW level \in Drives, drive(Net, g, level)
    PROVE  TypeOK'
<1>1. [Arguments("drive", g) EXCEPT !.level = level] \in Call
  BY PinsAssumption DEF Arguments, Call, Operations, Ticks
<1>2. QED
  BY <1>1, BridgeAssumption, BeginType DEF drive

LEMMA BridgeInitType == BridgeInit => BridgeType
<1> SUFFICES ASSUME BridgeInit PROVE BridgeType
  OBVIOUS
<1>1. TypeOK
  BY InitType DEF BridgeInit
<1>2. BridgeTypeOK
  BY DEF BridgeInit, BridgeTypeOK
<1>3. QED
  BY <1>1, <1>2 DEF BridgeType

(* What is published of a change, or of a pin, has the topics' types. *)
LEMMA ChangeType ==
    ASSUME BridgeTypeOK, NEW r \in Report, on_change(r)
    PROVE  /\ state' \in [GPIO -> Levels \cup {None}]
           /\ pwmTopic' \in [GPIO -> Pwms \cup {None, Unset}]
<1>1. r.gpio \in GPIO /\ r.pin.level \in Levels /\ r.pin.pwm \in Pwms \cup {None}
  BY DEF Report, Pin
<1>2. state' \in [GPIO -> Levels \cup {None}]
  BY <1>1 DEF on_change, publish_state, BridgeTypeOK
<1>3. QED
  BY <1>1, <1>2 DEF on_change, BridgeTypeOK

LEMMA BridgeStepType ==
    ASSUME BridgeType, BridgeNext
    PROVE  BridgeTypeOK'
<1>1. CASE start \/ stop
  BY <1>1 DEF start, stop, BridgeType, BridgeTypeOK
<1>2. CASE on_connect
  <2>1. \A g \in GPIO : pins[g] \in Pin
    BY DEF BridgeType, TypeOK
  <2>2. snapshot' \in [GPIO -> Pin \cup {None}] /\ \A g \in known : snapshot'[g] \in Pin
    BY <1>2, <2>1 DEF on_connect, BridgeType, BridgeTypeOK
  <2>3. QED
    BY <1>2, <2>2 DEF on_connect, BridgeType, BridgeTypeOK
<1>3. ASSUME NEW g \in GPIO, PublishSnapshot(g) PROVE BridgeTypeOK'
  <2>1. snapshot[g] \in Pin /\ snapshot[g].level \in Levels
    BY <1>3 DEF PublishSnapshot, BridgeType, BridgeTypeOK, Pin
  <2>2. state' \in [GPIO -> Levels \cup {None}]
    BY <1>3, <2>1 DEF PublishSnapshot, publish_state, BridgeType, BridgeTypeOK
  <2>3. /\ snapshot' \in [GPIO -> Pin \cup {None}]
        /\ \A other \in toPublish' : snapshot'[other] \in Pin
    BY <1>3 DEF PublishSnapshot, BridgeType, BridgeTypeOK
  <2>4. QED
    BY <1>3, <2>2, <2>3 DEF PublishSnapshot, BridgeType, BridgeTypeOK
<1>4. ASSUME UNCHANGED bridgeVars PROVE BridgeTypeOK'
  BY <1>4 DEF bridgeVars, BridgeType, BridgeTypeOK
<1>5. CASE LinkLost
  BY <1>5 DEF LinkLost, BridgeType, BridgeTypeOK
<1>6. ASSUME NEW t \in AllThreads, UpdatePins(t) PROVE BridgeTypeOK'
  <2>1. call[t].gpio \in GPIO
    BY <1>6, TypeOfCall DEF UpdatePins, Update, Call, BridgeType
  <2>2. QED
    BY <1>6, <2>1 DEF UpdatePins, BridgeType, BridgeTypeOK
<1>7. ASSUME NEW t \in AllThreads, DeliverChange(t) PROVE BridgeTypeOK'
  <2>1. report[t] \in Report
    BY <1>7 DEF DeliverChange, Deliver, BridgeType, TypeOK, AllThreads
  <2>2. on_change(report[t]) \/ UNCHANGED <<state, pwmTopic>>
    BY <1>7 DEF DeliverChange
  <2>3. /\ state' \in [GPIO -> Levels \cup {None}]
        /\ pwmTopic' \in [GPIO -> Pwms \cup {None, Unset}]
    BY <2>1, <2>2, ChangeType DEF BridgeType, BridgeTypeOK
  <2>4. QED
    BY <1>7, <2>3 DEF DeliverChange, BridgeType, BridgeTypeOK
<1>8. QED
  BY <1>1, <1>2, <1>3, <1>4, <1>5, <1>6, <1>7
     DEF BridgeNext, NetStep, ThreadStep, TogglerRuns, on_message, ScriptCall, AllThreads

LEMMA PinsStepType ==
    ASSUME TypeOK, BridgeNext
    PROVE  TypeOK'
<1>1. CASE start \/ stop
  BY <1>1, BridgeAssumption, WatchType DEF start, stop
<1>2. ASSUME UNCHANGED vars PROVE TypeOK'
  BY <1>2, NextType
<1>3. CASE NetStep \/ LinkLost
  BY <1>2, <1>3 DEF NetStep, on_connect, PublishSnapshot, LinkLost
<1>4. ASSUME NEW g \in GPIO, NEW level \in Drives, on_message(g, level) PROVE TypeOK'
  BY <1>4, MessageType DEF on_message
<1>5. ASSUME NEW t \in Scripts, ScriptCall(t) PROVE TypeOK'
  BY <1>5, BridgeAssumption, CallSetupType, CallLevelType, CallPwmType DEF ScriptCall
<1>6. ASSUME NEW t \in AllThreads, UpdatePins(t) \/ DeliverChange(t) PROVE TypeOK'
  BY <1>6, UpdateType, DeliverType DEF UpdatePins, DeliverChange
<1>7. ASSUME NEW t \in Threads, Start(t) PROVE TypeOK'
  BY <1>7, StartType
<1>8. CASE TogglerStep \/ Tick
  BY <1>8, TogglerType, TickType
<1>9. QED
  BY <1>1, <1>3, <1>4, <1>5, <1>6, <1>7, <1>8
     DEF BridgeNext, ThreadStep, TogglerRuns, AllThreads

LEMMA BridgeNextType == BridgeType /\ [BridgeNext]_allVars => BridgeType'
<1> SUFFICES ASSUME BridgeType, [BridgeNext]_allVars PROVE BridgeType'
  OBVIOUS
<1>1. CASE BridgeNext
  BY <1>1, BridgeStepType, PinsStepType DEF BridgeType
<1>2. CASE UNCHANGED allVars
  BY <1>2 DEF allVars, BridgeType, BridgeTypeOK, TypeOK
<1>3. QED
  BY <1>1, <1>2

(* The bridge's variables and its topics keep their types, a snapshot still *)
(* to publish holds a pin, and only pins something has set up are published. *)
THEOREM BridgeTypeCorrect == BridgeSpec => []BridgeTypeOK
<1>1. BridgeType => BridgeTypeOK
  BY DEF BridgeType
<1>2. QED
  BY <1>1, BridgeInitType, BridgeNextType, PTL DEF BridgeSpec

-----------------------------------------------------------------------------
(* The bridge and the pins.  Where the network thread's program holds the   *)
(* drive that on_message calls, every step of the bridge is a step of the   *)
(* pins or leaves them alone.                                               *)

LEMMA BridgeStepIsPinsStep ==
    ASSUME "drive" \in Calls[Net], BridgeNext
    PROVE  [Next]_vars
<1>1. CASE start \/ stop
  BY <1>1, BridgeAssumption DEF start, stop, Next
<1>2. CASE NetStep \/ LinkLost
  BY <1>2 DEF NetStep, on_connect, PublishSnapshot, LinkLost
<1>3. ASSUME NEW g \in GPIO, NEW level \in Drives, on_message(g, level) PROVE Next
  <2>1. CallLevel(Net, g)
    BY <1>3 DEF on_message, CallLevel
  <2>2. QED
    BY <2>1, BridgeAssumption DEF Next, Thread
<1>4. ASSUME NEW t \in Scripts, ScriptCall(t) PROVE Next
  BY <1>4, BridgeAssumption DEF ScriptCall, Next, Thread
<1>5. ASSUME NEW t \in AllThreads, UpdatePins(t) \/ DeliverChange(t) PROVE Next
  BY <1>5 DEF UpdatePins, DeliverChange, Next, AllThreads
<1>6. ASSUME NEW t \in Threads, Start(t) PROVE Next
  BY <1>6 DEF Next, Thread
<1>7. CASE TogglerStep \/ Tick
  BY <1>7 DEF Next
<1>8. QED
  BY <1>1, <1>2, <1>3, <1>4, <1>5, <1>6, <1>7
     DEF BridgeNext, ThreadStep, TogglerRuns, AllThreads

(* Under the bridge the pins still behave as Pins says: what holds of every *)
(* behaviour of the pins holds of them while they are published and driven  *)
(* over MQTT.                                                               *)
THEOREM BridgeImplementsPins == "drive" \in Calls[Net] => (BridgeSpec => Spec)
<1> SUFFICES ASSUME "drive" \in Calls[Net] PROVE BridgeSpec => Spec
  OBVIOUS
<1>1. BridgeInit => Init
  BY DEF BridgeInit
<1>2. [BridgeNext]_allVars => [Next]_vars
  <2>1. CASE UNCHANGED allVars
    BY <2>1 DEF allVars, vars
  <2>2. QED
    BY <2>1, BridgeStepIsPinsStep
<1>3. QED
  BY <1>1, <1>2, PTL DEF BridgeSpec, Spec

(* So no edge of a line is lost, told twice or made up on its way to the    *)
(* bridge, whatever the link and the scripts do.                            *)
THEOREM BridgeHearsEveryEdge == "drive" \in Calls[Net] => (BridgeSpec => []EdgesConserved)
BY BridgeImplementsPins, PinsEdgesConserved

-----------------------------------------------------------------------------
(* The pwm topic.  Reports of one line overtake one another when threads    *)
(* commit and report at the same time; where one thread makes all the calls *)
(* that change a PWM, its reports are in order, and no other report says    *)
(* anything of a PWM, the toggler's in particular.                          *)

PwmCalls == {"setup_input", "release", "set_pwm", "stop_pwm"}

OwnsPwms(s) == \A t \in Threads \ {s} : Calls[t] \cap PwmCalls = {}

OnePwmThread == \E s \in Threads : OwnsPwms(s)

(* The change is one of PWM, which on_change publishes. *)
OfPwm(r) == r.pin.pwm # r.previous.pwm

(* Nobody but s commits or reports a change of PWM. *)
OthersKeepPwm(s) ==
    /\ \A t \in AllThreads \ {s} :
        /\ pc[t] = "update" => call[t].op \notin PwmCalls
        /\ pc[t] = "report" => ~OfPwm(report[t])
    /\ \A c \in due : c.op = "toggle"

(* The pin has not changed since s committed what it reports. *)
ReportIsCurrent(s) ==
    pc[s] = "report" /\ OfPwm(report[s]) => report[s].pin.pwm = pins[report[s].gpio].pwm

(* A topic is unset, current, or s is about to make it current. *)
TopicFollows(s) ==
    phase = "running" => \A g \in GPIO :
        \/ pwmTopic[g] \in {Unset, pins[g].pwm}
        \/ pc[s] = "report" /\ OfPwm(report[s]) /\ report[s].gpio = g

(* The bridge is the only watcher, from start() to stop(). *)
OnlyTheBridge ==
    /\ watchers = IF phase = "running" THEN <<Bridge>> ELSE <<>>
    /\ \A t \in AllThreads : pc[t] = "report" => report[t].to = <<Bridge>> /\ phase # "new"
    /\ phase = "new" => \A g \in GPIO : pwmTopic[g] = Unset

PwmInv(s) == OnlyTheBridge /\ OthersKeepPwm(s) /\ ReportIsCurrent(s) /\ TopicFollows(s)

LEMMA PwmInit ==
    ASSUME BridgeInit, NEW s \in Threads
    PROVE  PwmInv(s)
BY PinsAssumption DEF BridgeInit, Init, PwmInv, OnlyTheBridge, OthersKeepPwm, ReportIsCurrent,
                      TopicFollows, AllThreads

(* A commit that is not of a PwmCall leaves the pin the PWM it has: an      *)
(* output keeps it, any other pin has none.                                 *)
LEMMA UpdatedKeepsPwm ==
    ASSUME TypeOK, InputsReadTheirDrive, NEW c \in Call, c.op \notin PwmCalls
    PROVE  Updated(c).pwm = pins[c.gpio].pwm
<1>1. pins[c.gpio] \in Pin /\ c.gpio \in GPIO
  BY DEF TypeOK, Call
<1>2. pins[c.gpio].function # "output" => pins[c.gpio].pwm = None
  BY <1>1 DEF InputsReadTheirDrive
<1>3. c.op \in {"setup_output", "write", "drive", "toggle"}
  BY DEF PwmCalls, Call, Operations
<1>4. Replace(c, pins[c.gpio]).pwm = pins[c.gpio].pwm
  BY <1>1, <1>3 DEF Replace, Pin
<1>5. Replace(c, pins[c.gpio]).function # "output" => pins[c.gpio].pwm = None
  BY <1>1, <1>2, <1>3 DEF Replace, Pin
<1>6. Replace(c, pins[c.gpio]) \in Pin
  BY <1>1, <1>3, PinsAssumption DEF Replace, Pin, Call, Levels
<1>7. QED
  BY <1>1, <1>4, <1>5, <1>6 DEF Updated, Settle, Pin

(* The thread whose calls they are. *)
LEMMA CallsOwnPwms ==
    ASSUME NEW s \in Threads, OwnsPwms(s), NEW t \in Threads, t # s, NEW g \in GPIO,
           CallSetup(t, g) \/ CallLevel(t, g) \/ CallPwm(t, g)
    PROVE  \E c : Begin(t, c) /\ c.op \notin PwmCalls
<1>1. Calls[t] \cap PwmCalls = {}
  BY DEF OwnsPwms
<1>2. ASSUME NEW level, setup_output(t, g, level)
      PROVE  \E c : Begin(t, c) /\ c.op \notin PwmCalls
  BY <1>2 DEF setup_output, Arguments, PwmCalls
<1>3. ASSUME NEW level, write(t, g, level) \/ drive(t, g, level)
      PROVE  \E c : Begin(t, c) /\ c.op \notin PwmCalls
  BY <1>3 DEF write, drive, Arguments, PwmCalls
<1>4. QED
  BY <1>1, <1>2, <1>3 DEF CallSetup, CallLevel, CallPwm, PwmCalls

LEMMA BeginPwm ==
    ASSUME TypeOK, NEW s \in Threads, PwmInv(s), NEW t \in Threads, NEW c, Begin(t, c),
           t = s \/ c.op \notin PwmCalls, UNCHANGED <<phase, pwmTopic>>
    PROVE  PwmInv(s)'
<1>1. /\ pc' = [pc EXCEPT ![t] = "update"] /\ call' = [call EXCEPT ![t] = c]
      /\ UNCHANGED <<pins, watchers, report, due>>
  BY DEF Begin
<1>2. \A u \in AllThreads : pc'[u] = "report" => pc[u] = "report"
  BY <1>1 DEF TypeOK, AllThreads
<1>3. OnlyTheBridge' /\ ReportIsCurrent(s)'
  BY <1>1, <1>2 DEF PwmInv, OnlyTheBridge, ReportIsCurrent, OfPwm, AllThreads
<1>4. TopicFollows(s)'
  <2>1. pc[s] = "report" => pc'[s] = "report"
    BY <1>1 DEF TypeOK, Begin
  <2>2. QED
    BY <1>1, <2>1 DEF PwmInv, TopicFollows, OfPwm
<1>5. OthersKeepPwm(s)'
  BY <1>1 DEF PwmInv, OthersKeepPwm, OfPwm, TypeOK, AllThreads
<1>6. QED
  BY <1>3, <1>4, <1>5 DEF PwmInv

(* Steps that neither commit nor report, nor make a thread begin a call. *)
LEMMA QuietPwm ==
    ASSUME NEW s \in Threads, PwmInv(s), UNCHANGED <<pins, report, pwmTopic>>,
           \A t \in AllThreads : pc'[t] = "report" <=> pc[t] = "report",
           \A t \in AllThreads \ {s} : pc'[t] = "update" => call'[t].op \notin PwmCalls,
           \A c \in due' : c.op = "toggle",
           watchers' = IF phase' = "running" THEN <<Bridge>> ELSE <<>>,
           phase' \in {phase, "running", "stopped"}, phase' = "running" => phase \in {"new", "running"}
    PROVE  PwmInv(s)'
<1>1. OnlyTheBridge'
  BY DEF PwmInv, OnlyTheBridge
<1>2. OthersKeepPwm(s)' /\ ReportIsCurrent(s)'
  BY DEF PwmInv, OthersKeepPwm, ReportIsCurrent, OfPwm, AllThreads
<1>3. TopicFollows(s)'
  BY DEF PwmInv, OnlyTheBridge, TopicFollows, OfPwm, AllThreads
<1>4. QED
  BY <1>1, <1>2, <1>3 DEF PwmInv

LEMMA UpdatePwm ==
    ASSUME TypeOK, InputsReadTheirDrive, BridgeTypeOK, NEW s \in Threads, PwmInv(s),
           NEW t \in AllThreads, UpdatePins(t)
    PROVE  PwmInv(s)'
<1> DEFINE c   == call[t]
           pin == Updated(c)
           r   == [gpio |-> c.gpio, pin |-> pin, previous |-> pins[c.gpio], to |-> watchers]
<1>1. c \in Call /\ c.gpio \in GPIO /\ pc[t] = "update"
  BY TypeOfCall DEF UpdatePins, Update, Call
<1>2. pins' = [pins EXCEPT ![c.gpio] = pin] /\ UNCHANGED <<watchers, due, phase, pwmTopic>>
  BY DEF UpdatePins, Update
<1>3. ASSUME NEW u \in AllThreads, u # t
      PROVE  pc'[u] = pc[u] /\ call'[u] = call[u] /\ report'[u] = report[u]
  <2>1. pc'[u] = pc[u] /\ call'[u] = call[u]
    BY <1>3, OthersKeep DEF UpdatePins
  <2>2. report'[u] = report[u]
    BY <1>3 DEF UpdatePins, Update, TypeOK, AllThreads
  <2>3. QED
    BY <2>1, <2>2
<1>4. pc'[t] # "update"
  BY DEF UpdatePins, Update, Return, Resume, TypeOK, AllThreads
<1>5. IF Differs(pin, pins[c.gpio]) /\ watchers # <<>>
      THEN pc'[t] = "report" /\ report'[t] = r
      ELSE pc'[t] # "report"
  BY DEF UpdatePins, Update, Return, Resume, TypeOK, AllThreads
<1>6. t # s => pin.pwm = pins[c.gpio].pwm
  BY <1>1, UpdatedKeepsPwm DEF PwmInv, OthersKeepPwm
<1> HIDE DEF pin, c
<1>7. \A g \in GPIO : pins'[g] = IF g = c.gpio THEN pin ELSE pins[g]
  BY <1>2 DEF TypeOK
<1>8. OnlyTheBridge'
  <2>1. ASSUME NEW u \in AllThreads, pc'[u] = "report"
        PROVE  report'[u].to = <<Bridge>> /\ phase # "new"
    <3>1. CASE u = t
      <4>1. report'[u].to = watchers /\ watchers # <<>>
        BY <1>5, <2>1, <3>1
      <4>2. watchers = IF phase = "running" THEN <<Bridge>> ELSE <<>>
        BY DEF PwmInv, OnlyTheBridge
      <4>3. QED
        BY <4>1, <4>2
    <3>2. CASE u # t
      BY <1>3, <2>1, <3>2 DEF PwmInv, OnlyTheBridge
    <3>3. QED
      BY <3>1, <3>2
  <2>2. QED
    BY <1>2, <2>1 DEF PwmInv, OnlyTheBridge
<1>9. OthersKeepPwm(s)'
  <2>1. ASSUME NEW u \in AllThreads \ {s}
        PROVE  /\ pc'[u] = "update" => call'[u].op \notin PwmCalls
               /\ pc'[u] = "report" => ~OfPwm(report'[u])
    <3>1. CASE u = t
      BY <1>4, <1>5, <1>6, <3>1 DEF OfPwm
    <3>2. CASE u # t
      BY <1>3, <3>2 DEF PwmInv, OthersKeepPwm
    <3>3. QED
      BY <3>1, <3>2
  <2>2. QED
    BY <1>2, <2>1 DEF PwmInv, OthersKeepPwm, OfPwm
<1>10. ReportIsCurrent(s)'
  <2>1. CASE s = t
    BY <1>1, <1>5, <1>7, <2>1 DEF ReportIsCurrent, c
  <2>2. CASE s # t
    <3>1. SUFFICES ASSUME pc[s] = "report", OfPwm(report[s])
                   PROVE  report[s].pin.pwm = pins'[report[s].gpio].pwm
      BY <1>3, <2>2 DEF ReportIsCurrent, OfPwm, AllThreads
    <3>2. report[s].gpio \in GPIO
      BY <3>1 DEF TypeOK, Report, AllThreads
    <3>3. QED
      BY <1>6, <1>7, <2>2, <3>1, <3>2 DEF PwmInv, ReportIsCurrent
  <2>3. QED
    BY <2>1, <2>2
<1>11. TopicFollows(s)'
  <2> SUFFICES ASSUME phase = "running", NEW g \in GPIO
               PROVE  \/ pwmTopic[g] \in {Unset, pins'[g].pwm}
                      \/ pc'[s] = "report" /\ OfPwm(report'[s]) /\ report'[s].gpio = g
    BY <1>2 DEF TopicFollows, OfPwm
  <2>1. \/ pwmTopic[g] \in {Unset, pins[g].pwm}
        \/ pc[s] = "report" /\ OfPwm(report[s]) /\ report[s].gpio = g
    BY DEF PwmInv, TopicFollows
  <2>2. CASE s # t
    BY <1>3, <1>6, <1>7, <2>1, <2>2 DEF AllThreads
  <2>3. CASE s = t /\ (g # c.gpio \/ pin.pwm = pins[g].pwm)
    BY <1>1, <1>7, <2>1, <2>3 DEF c
  <2>4. CASE s = t /\ g = c.gpio /\ pin.pwm # pins[g].pwm
    <3>1. watchers # <<>>
      BY DEF PwmInv, OnlyTheBridge
    <3>2. Differs(pin, pins[c.gpio])
      BY <2>4 DEF Differs
    <3>3. QED
      BY <1>5, <2>4, <3>1, <3>2 DEF OfPwm
  <2>5. QED
    BY <2>2, <2>3, <2>4
<1>12. QED
  BY <1>8, <1>9, <1>10, <1>11 DEF PwmInv

LEMMA DeliverPwm ==
    ASSUME TypeOK, BridgeTypeOK, NEW s \in Threads, PwmInv(s),
           NEW t \in AllThreads, DeliverChange(t)
    PROVE  PwmInv(s)'
<1> DEFINE r == report[t]
<1>1. r \in Report /\ r.gpio \in GPIO /\ pc[t] = "report" /\ r.to = <<Bridge>>
  BY DEF DeliverChange, Deliver, TypeOK, Report, PwmInv, OnlyTheBridge, AllThreads
<1>2. Head(r.to) = Bridge /\ Len(r.to) = 1
  BY <1>1
<1>3. /\ pwmTopic' = IF OfPwm(r) THEN [pwmTopic EXCEPT ![r.gpio] = r.pin.pwm] ELSE pwmTopic
      /\ UNCHANGED <<phase, pins, watchers, due>>
  BY <1>2 DEF DeliverChange, Deliver, on_change, OfPwm
<1>4. Return(t) /\ report' = [report EXCEPT ![t] = None]
  BY <1>2 DEF DeliverChange, Deliver
<1>5. pc'[t] \notin {"update", "report"}
  BY <1>1, <1>4, ReturnType
<1>6. ASSUME NEW u \in AllThreads, u # t
      PROVE  pc'[u] = pc[u] /\ call'[u] = call[u] /\ report'[u] = report[u]
  <2>1. pc'[u] = pc[u] /\ call'[u] = call[u]
    BY <1>6, OthersKeep DEF DeliverChange
  <2>2. QED
    BY <1>4, <1>6, <2>1 DEF TypeOK, AllThreads
<1>7. t # s => ~OfPwm(r)
  BY <1>1 DEF PwmInv, OthersKeepPwm
<1>8. OnlyTheBridge'
  <2>1. phase # "new"
    BY <1>1 DEF PwmInv, OnlyTheBridge
  <2>2. QED
    BY <1>3, <1>5, <1>6, <2>1 DEF PwmInv, OnlyTheBridge
<1>9. OthersKeepPwm(s)'
  <2>1. ASSUME NEW u \in AllThreads \ {s}
        PROVE  /\ pc'[u] = "update" => call'[u].op \notin PwmCalls
               /\ pc'[u] = "report" => ~OfPwm(report'[u])
    BY <1>5, <1>6 DEF PwmInv, OthersKeepPwm
  <2>2. QED
    BY <1>3, <2>1 DEF PwmInv, OthersKeepPwm, OfPwm
<1>10. ReportIsCurrent(s)'
  BY <1>3, <1>5, <1>6 DEF PwmInv, ReportIsCurrent, OfPwm, AllThreads
<1>11. TopicFollows(s)'
  <2> SUFFICES ASSUME phase = "running", NEW g \in GPIO
               PROVE  \/ pwmTopic'[g] \in {Unset, pins[g].pwm}
                      \/ pc'[s] = "report" /\ OfPwm(report'[s]) /\ report'[s].gpio = g
    BY <1>3 DEF TopicFollows, OfPwm
  <2>1. \/ pwmTopic[g] \in {Unset, pins[g].pwm}
        \/ pc[s] = "report" /\ OfPwm(report[s]) /\ report[s].gpio = g
    BY DEF PwmInv, TopicFollows
  <2>2. CASE t # s
    BY <1>3, <1>6, <1>7, <2>1, <2>2 DEF AllThreads
  <2>3. CASE t = s /\ OfPwm(r)
    <3>1. r.pin.pwm = pins[r.gpio].pwm
      BY <1>1, <2>3 DEF PwmInv, ReportIsCurrent
    <3>2. QED
      BY <1>1, <1>3, <2>1, <2>3, <3>1 DEF BridgeTypeOK
  <2>4. CASE t = s /\ ~OfPwm(r)
    BY <1>3, <2>1, <2>4
  <2>5. QED
    BY <2>2, <2>3, <2>4
<1>12. QED
  BY <1>8, <1>9, <1>10, <1>11 DEF PwmInv

LEMMA BridgeNextPwm ==
    ASSUME TypeOK, InputsReadTheirDrive, BridgeTypeOK, NEW s \in Threads, OwnsPwms(s),
           PwmInv(s), [BridgeNext]_allVars
    PROVE  PwmInv(s)'
<1>1. ASSUME UNCHANGED <<pins, report, pwmTopic, pc, call, due, watchers, phase>>
      PROVE  PwmInv(s)'
  BY <1>1, QuietPwm DEF PwmInv, OthersKeepPwm, OnlyTheBridge
<1>2. CASE start
  <2>1. watchers' = <<Bridge>> /\ phase = "new" /\ phase' = "running"
    BY <1>2 DEF start, watch, PwmInv, OnlyTheBridge
  <2>2. UNCHANGED <<pins, report, pwmTopic, pc, call, due>>
    BY <1>2 DEF start, watch
  <2>3. QED
    BY <2>1, <2>2, QuietPwm DEF PwmInv, OthersKeepPwm
<1>3. CASE stop
  <2>1. watchers = <<Bridge>> /\ phase' = "stopped"
    BY <1>3 DEF stop, PwmInv, OnlyTheBridge
  <2>2. watchers' = <<>>
    <3>1. PICK i \in DOMAIN watchers : watchers' = RemoveAt(watchers, i)
      BY <1>3 DEF stop, unwatch
    <3>2. i = 1
      BY <2>1, <3>1
    <3>3. QED
      BY <2>1, <3>1, <3>2 DEF RemoveAt
  <2>3. UNCHANGED <<pins, report, pwmTopic, pc, call, due>>
    BY <1>3 DEF stop, unwatch
  <2>4. QED
    BY <2>1, <2>2, <2>3, QuietPwm DEF PwmInv, OthersKeepPwm
<1>4. CASE NetStep \/ LinkLost
  BY <1>1, <1>4 DEF NetStep, on_connect, PublishSnapshot, LinkLost, vars
<1>5. ASSUME NEW g \in GPIO, NEW level \in Drives, on_message(g, level) PROVE PwmInv(s)'
  <2> DEFINE c == [Arguments("drive", g) EXCEPT !.level = level]
  <2>1. Begin(Net, c) /\ UNCHANGED <<phase, pwmTopic>>
    BY <1>5 DEF on_message, drive, bridgeVars
  <2>2. c.op \notin PwmCalls
    BY DEF Arguments, PwmCalls
  <2> HIDE DEF c
  <2>3. QED
    BY <2>1, <2>2, BridgeAssumption, BeginPwm
<1>6. ASSUME NEW t \in Scripts, ScriptCall(t) PROVE PwmInv(s)'
  <2>1. t \in Threads /\ UNCHANGED <<phase, pwmTopic>>
    BY <1>6, BridgeAssumption DEF ScriptCall, bridgeVars
  <2>2. PICK g \in GPIO : CallSetup(t, g) \/ CallLevel(t, g) \/ CallPwm(t, g)
    BY <1>6 DEF ScriptCall
  <2>3. CASE t = s
    <3>1. \E c : Begin(t, c)
      BY <2>2 DEF CallSetup, CallLevel, CallPwm, setup_input, setup_output, release, write,
                  drive, stop_pwm, set_pwm
    <3>2. QED
      BY <2>1, <2>3, <3>1, BeginPwm
  <2>4. CASE t # s
    BY <2>1, <2>2, <2>4, CallsOwnPwms, BeginPwm
  <2>5. QED
    BY <2>3, <2>4
<1>7. ASSUME NEW t \in AllThreads, UpdatePins(t) \/ DeliverChange(t) PROVE PwmInv(s)'
  BY <1>7, UpdatePwm, DeliverPwm
<1>8. ASSUME NEW t \in Threads, Start(t), UNCHANGED bridgeVars PROVE PwmInv(s)'
  <2>1. \A u \in AllThreads : /\ pc'[u] = "report" <=> pc[u] = "report"
                              /\ pc'[u] = "update" => pc[u] = "update" /\ call'[u] = call[u]
    BY <1>8 DEF Start, TypeOK, AllThreads
  <2>2. UNCHANGED <<pins, report, pwmTopic, due, watchers, phase>>
    BY <1>8 DEF Start, bridgeVars
  <2>3. QED
    BY <2>1, <2>2, QuietPwm DEF PwmInv, OthersKeepPwm, OnlyTheBridge
<1>9. ASSUME TogglerStep, UNCHANGED bridgeVars PROVE PwmInv(s)'
  <2>1. UNCHANGED <<pins, report, pwmTopic, watchers, phase>>
    BY <1>9 DEF TogglerStep, Scan, Toggle, Wait, Wake, bridgeVars
  <2>2. \A u \in AllThreads : pc'[u] = "report" <=> pc[u] = "report"
    BY <1>9 DEF TogglerStep, Scan, Toggle, Wait, Wake, TypeOK, AllThreads
  <2>3. \A c \in due' : c.op = "toggle"
    <3>1. CASE Scan
      BY <3>1 DEF Scan, Arguments
    <3>2. CASE ~Scan
      BY <1>9, <3>2 DEF TogglerStep, Toggle, Wait, Wake, PwmInv, OthersKeepPwm
    <3>3. QED
      BY <3>1, <3>2
  <2>4. ASSUME NEW u \in AllThreads \ {s}, pc'[u] = "update" PROVE call'[u].op \notin PwmCalls
    <3>1. CASE Toggle /\ u = Toggler
      <4>1. PICK c \in due : call' = [call EXCEPT ![Toggler] = c]
        BY <3>1 DEF Toggle
      <4>2. call'[u] = c /\ c.op = "toggle"
        BY <3>1, <4>1 DEF TypeOK, PwmInv, OthersKeepPwm
      <4>3. QED
        BY <4>2 DEF PwmCalls
    <3>2. CASE ~(Toggle /\ u = Toggler)
      <4>1. pc[u] = "update" /\ call'[u] = call[u]
        BY <1>9, <2>4, <3>2 DEF TogglerStep, Scan, Toggle, Wait, Wake, TypeOK, AllThreads
      <4>2. QED
        BY <4>1 DEF PwmInv, OthersKeepPwm
    <3>3. QED
      BY <3>1, <3>2
  <2>5. QED
    BY <2>1, <2>2, <2>3, <2>4, QuietPwm DEF PwmInv, OnlyTheBridge
<1>10. ASSUME Tick, UNCHANGED bridgeVars PROVE PwmInv(s)'
  BY <1>1, <1>10 DEF Tick, bridgeVars
<1>11. CASE UNCHANGED allVars
  BY <1>1, <1>11 DEF allVars
<1>12. QED
  BY <1>2, <1>3, <1>4, <1>5, <1>6, <1>7, <1>8, <1>9, <1>10, <1>11
     DEF BridgeNext, ThreadStep, TogglerRuns, AllThreads

(* No step of the bridge resets the pins: they read what drives them.       *)
LEMMA BridgeReadsDrive ==
    ASSUME TypeOK, InputsReadTheirDrive, [BridgeNext]_allVars
    PROVE  InputsReadTheirDrive'
<1>1. ASSUME UNCHANGED pins PROVE InputsReadTheirDrive'
  BY <1>1 DEF InputsReadTheirDrive, InputLevel
<1>2. ASSUME NEW t \in AllThreads, UpdatePins(t) PROVE InputsReadTheirDrive'
  BY <1>2, NextReadsDrive DEF UpdatePins, Next, AllThreads
<1>3. ASSUME NEW t \in Scripts, ScriptCall(t) PROVE UNCHANGED pins
  BY <1>3 DEF ScriptCall, CallSetup, CallLevel, CallPwm, setup_input, setup_output, release,
              write, drive, stop_pwm, set_pwm, Begin
<1>4. ASSUME NEW g \in GPIO, NEW level \in Drives, on_message(g, level) PROVE UNCHANGED pins
  BY <1>4 DEF on_message, drive, Begin
<1>5. ASSUME NEW t \in AllThreads, DeliverChange(t) \/ Start(t) PROVE UNCHANGED pins
  BY <1>5 DEF DeliverChange, Deliver, Start
<1>6. ASSUME TogglerStep \/ Tick PROVE UNCHANGED pins
  BY <1>6 DEF TogglerStep, Scan, Toggle, Wait, Wake, Tick
<1>7. ASSUME start \/ stop \/ NetStep \/ LinkLost \/ UNCHANGED allVars PROVE UNCHANGED pins
  BY <1>7 DEF start, stop, watch, unwatch, NetStep, on_connect, PublishSnapshot, LinkLost, vars,
              allVars
<1>8. QED
  BY <1>1, <1>2, <1>3, <1>4, <1>5, <1>6, <1>7
     DEF BridgeNext, ThreadStep, TogglerRuns, AllThreads

(* Where one thread makes the calls that change a PWM, however many others  *)
(* write, drive and set up outputs, and however the link comes and goes,    *)
(* the pwm topic shows the line's PWM once nothing is on its way.           *)
THEOREM BridgePwmTopicIsCurrent == OnePwmThread => (BridgeSpec => []PwmTopicIsCurrent)
<1> SUFFICES ASSUME NEW s \in Threads, OwnsPwms(s) PROVE BridgeSpec => []PwmTopicIsCurrent
  BY DEF OnePwmThread
<1> DEFINE IInv == BridgeType /\ InputsReadTheirDrive /\ PwmInv(s)
<1>1. BridgeInit => IInv
  BY BridgeInitType, InitReadsDrive, PwmInit DEF BridgeInit
<1>2. IInv /\ [BridgeNext]_allVars => IInv'
  <2> SUFFICES ASSUME IInv, [BridgeNext]_allVars PROVE IInv'
    OBVIOUS
  <2>1. TypeOK /\ BridgeTypeOK
    BY DEF BridgeType
  <2>2. QED
    BY <2>1, BridgeNextType, BridgeReadsDrive, BridgeNextPwm
<1>3. IInv => PwmTopicIsCurrent
  BY DEF PwmInv, TopicFollows, PwmTopicIsCurrent, Settled
<1>4. QED
  BY <1>1, <1>2, <1>3, PTL DEF BridgeSpec

=============================================================================
