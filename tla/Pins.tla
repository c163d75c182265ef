-------------------------------- MODULE Pins --------------------------------
(***************************************************************************)
(* p4n4_emu/hw/pins.py: the emulated GPIO lines every front end shares.    *)
(*                                                                         *)
(* A call runs in a thread of its caller: it may first look at the pin     *)
(* (get), it then commits one _update under the module's lock, and after   *)
(* the lock is released it hands the Change to the watchers registered at  *)
(* the commit, one after the other.  Between any two of these steps other  *)
(* threads run.  The toggler is the daemon thread that turns slow PWM into *)
(* level changes.                                                          *)
(*                                                                         *)
(* Time is counted in ticks modulo Cycle, a common multiple of the PWM     *)
(* periods: only the position in a PWM cycle is ever observed.             *)
(***************************************************************************)
EXTENDS Integers, Sequences, FiniteSets, SequencesExt

CONSTANTS
    GPIO,           \* the lines of the board
    Threads,        \* threads that call the module
    Toggler,        \* the PWM thread
    Watchers,       \* callbacks given to watch()
    Calls,          \* the operations each thread calls
    Pulls,          \* the pulls setup_input is called with
    Outputs,        \* the levels setup_output is called with, None: the level read
    Drives,         \* the levels drive is called with, None: stop driving
    Pwms,           \* the PWM settings in use, as periods and high parts in ticks
    Cycle,          \* a common multiple of the periods
    TogglePeriod,   \* the period of TOGGLE_MAX_HZ
    Prompt,         \* TRUE: the toggler thread runs within the tick it is due in
    None            \* Python's None

Levels == {0, 1}
Ticks  == 0..(Cycle - 1)

Operations == {"setup_input", "setup_output", "release", "write", "drive",
               "set_pwm", "stop_pwm", "toggle"}

ASSUME PinsAssumption ==
    /\ Toggler \notin Threads /\ IsFiniteSet(Threads)
    /\ Calls \in [Threads -> SUBSET (Operations \cup {"reset"})]
    /\ Pulls \subseteq {"off", "up", "down"}
    /\ Outputs \subseteq Levels \cup {None}
    /\ Drives \subseteq Levels \cup {None}
    /\ Cycle \in Nat \ {0}
    /\ TogglePeriod \in Nat
    /\ Pwms \subseteq [period : Nat \ {0}, high : Nat]
    /\ \A p \in Pwms : p.high <= p.period /\ Cycle % p.period = 0
    /\ Prompt \in BOOLEAN
    /\ None \notin Pwms /\ None \notin Levels /\ None \notin {"input", "output"}

VARIABLES
    pins,       \* _pins, a default Pin for a line nothing has touched
    watchers,   \* _watchers
    now,        \* time.monotonic_ns()
    pc,         \* where each thread is
    call,       \* the arguments of the _update a thread is about to make, or made
    report,     \* the Change a thread is handing over, and the watchers still to call
    due,        \* the toggles the toggler has found and not applied yet
    sleep,      \* what is left of the toggler's wait
    heard       \* (history) the net edges each watcher was told of, by line

vars == <<pins, watchers, now, pc, call, report, due, sleep, heard>>

-----------------------------------------------------------------------------
Pin == [level : Levels, function : {"input", "output", None},
        pull : {"off", "up", "down"}, driven : Levels \cup {None},
        pwm : Pwms \cup {None}, since : Ticks]

NewPin == [level |-> 0, function |-> None, pull |-> "off", driven |-> None,
           pwm |-> None, since |-> 0]

(* The keyword arguments an _update is called with.  Only drive may be     *)
(* asked for no level.                                                     *)
Call ==
    {c \in [op : Operations, gpio : GPIO, level : Levels \cup {None},
            pull : {"off", "up", "down"}, pwm : Pwms \cup {None}, since : Ticks] :
        c.op \in {"setup_output", "write", "set_pwm", "toggle"} => c.level \in Levels}

pwm_level(pwm, since, t) == IF (t - since) % pwm.period < pwm.high THEN 1 ELSE 0

(* get(): a running PWM shows in the level read, however fast it is. *)
Get(g) ==
    IF pins[g].function = "output" /\ pins[g].pwm # None
    THEN [pins[g] EXCEPT !.level = pwm_level(pins[g].pwm, pins[g].since, now)]
    ELSE pins[g]

(* Bug: an input's level when only its pull is looked at first. *)
PullOrDrive(pin) == IF pin.pull = "up" THEN 1 ELSE pin.driven

InputLevel(pin) ==
    IF pin.driven # None THEN pin.driven ELSE IF pin.pull = "up" THEN 1 ELSE 0

Slow(pwm) ==
    /\ pwm # None
    /\ pwm.period >= TogglePeriod
    /\ 0 < pwm.high /\ pwm.high < pwm.period

Toggles(pin) == pin.function = "output" /\ Slow(pin.pwm)

Toggling == {g \in GPIO : Toggles(pins[g])}

(* _next_edge(): how long until the next edge of a toggling pin. *)
UntilEdge(pin) ==
    LET into == (now - pin.since) % pin.pwm.period
    IN  IF into < pin.pwm.high THEN pin.pwm.high - into ELSE pin.pwm.period - into

-----------------------------------------------------------------------------
(* _update(): what the keyword arguments of each caller make of the pin. *)
Replace(c, pin) ==
    CASE c.op = "setup_input"  -> [pin EXCEPT !.function = "input", !.pull = c.pull]
      [] c.op = "setup_output" -> [pin EXCEPT !.function = "output", !.pull = "off",
                                              !.level = c.level]
      [] c.op = "release"      -> [pin EXCEPT !.function = None, !.pull = "off"]
      [] c.op = "drive"        -> [pin EXCEPT !.driven = c.level]
      [] c.op = "set_pwm"      -> [pin EXCEPT !.pwm = c.pwm, !.since = c.since,
                                              !.level = c.level]
      [] c.op = "stop_pwm"     -> [pin EXCEPT !.pwm = None, !.since = 0, !.level = 0]
      [] OTHER                 -> [pin EXCEPT !.level = c.level]   \* write, toggle

(* Bug: only a released pin is settled, an input is left as it was written. *)
SettleUnclaimed(pin) ==
    IF pin.function = None THEN [pin EXCEPT !.level = InputLevel(pin), !.pwm = None] ELSE pin

(* A pin that is not an output reads what drives it, and runs no PWM.      *)
(* (Nobody looks at pwm_since_ns without a PWM: the model forgets it.)     *)
Settle(pin) ==
    IF pin.function # "output"
    THEN [pin EXCEPT !.level = InputLevel(pin), !.pwm = None, !.since = 0]
    ELSE pin

(* only_if: a toggle is for the PWM the toggler saw. *)
Applies(c) == c.op = "toggle" => pins[c.gpio].pwm = c.pwm

Updated(c) == IF Applies(c) THEN Settle(Replace(c, pins[c.gpio])) ELSE pins[c.gpio]

(* Bug: a plain change of level is not reported. *)
DiffersInSetup(pin, previous) == pin.function # previous.function \/ pin.pwm # previous.pwm

Differs(pin, previous) ==
    \/ pin.level # previous.level
    \/ pin.function # previous.function
    \/ pin.pwm # previous.pwm

(* The statement a thread goes on to once its _update has returned. *)
Resume(t) ==
    IF t = Toggler THEN "next" ELSE IF call[t].op = "set_pwm" THEN "start" ELSE "idle"

(* Its arguments die with the call; set_pwm still looks at its own. *)
Return(t) ==
    /\ pc' = [pc EXCEPT ![t] = Resume(t)]
    /\ call' = IF Resume(t) = "start" THEN call ELSE [call EXCEPT ![t] = None]

-----------------------------------------------------------------------------
Arguments(op, g) == [op |-> op, gpio |-> g, level |-> None, pull |-> "off",
                     pwm |-> None, since |-> 0]

(* A call checks its arguments against the pin as it is now; what it found *)
(* may no longer hold when its _update takes the lock.                     *)
Begin(t, c) ==
    /\ pc[t] = "idle"
    /\ call' = [call EXCEPT ![t] = c]
    /\ pc' = [pc EXCEPT ![t] = "update"]
    /\ UNCHANGED <<pins, watchers, now, report, due, sleep, heard>>

setup_input(t, g, pull) ==
    Begin(t, [Arguments("setup_input", g) EXCEPT !.pull = pull])

setup_output(t, g, level) ==
    Begin(t, [Arguments("setup_output", g) EXCEPT
                 !.level = IF level = None THEN Get(g).level ELSE level])

release(t, g) == Begin(t, Arguments("release", g))

write(t, g, level) ==
    /\ Get(g).function = "output"
    /\ Begin(t, [Arguments("write", g) EXCEPT !.level = level])

drive(t, g, level) ==
    /\ Get(g).function # "output"
    /\ Begin(t, [Arguments("drive", g) EXCEPT !.level = level])

stop_pwm(t, g) ==
    /\ pins[g].function = "output"
    /\ Begin(t, Arguments("stop_pwm", g))

(* A running PWM keeps the instant it started at; a new one starts now. *)
set_pwm(t, g, pwm) ==
    LET since == IF pins[g].pwm # None THEN pins[g].since ELSE now
    IN  /\ pins[g].function = "output"
        /\ Begin(t, [Arguments("set_pwm", g) EXCEPT
                        !.pwm = pwm, !.since = since, !.level = pwm_level(pwm, since, now)])

CallSetup(t, g) ==
    \/ "setup_input" \in Calls[t] /\ \E pull \in Pulls : setup_input(t, g, pull)
    \/ "setup_output" \in Calls[t] /\ \E level \in Outputs : setup_output(t, g, level)
    \/ "release" \in Calls[t] /\ release(t, g)

CallLevel(t, g) ==
    \/ "write" \in Calls[t] /\ \E level \in Levels : write(t, g, level)
    \/ "drive" \in Calls[t] /\ \E level \in Drives : drive(t, g, level)

CallPwm(t, g) ==
    \/ "stop_pwm" \in Calls[t] /\ stop_pwm(t, g)
    \/ "set_pwm" \in Calls[t] /\ \E pwm \in Pwms : set_pwm(t, g, pwm)

(* _update() under the lock: the pin, and who is to hear of the change. *)
Update(t) ==
    LET c        == call[t]
        previous == pins[c.gpio]
        pin      == Updated(c)
        told     == Differs(pin, previous) /\ watchers # <<>>
    IN  /\ pc[t] = "update"
        /\ pins' = [pins EXCEPT ![c.gpio] = pin]
        /\ IF told
           THEN /\ pc' = [pc EXCEPT ![t] = "report"]
                /\ report' = [report EXCEPT ![t] =
                      [gpio |-> c.gpio, pin |-> pin, previous |-> previous, to |-> watchers]]
                /\ UNCHANGED call
           ELSE Return(t) /\ UNCHANGED report
        /\ UNCHANGED <<watchers, now, due, sleep, heard>>

(* The next watcher of the Change is called, outside the lock. *)
Deliver(t) ==
    LET r == report[t]
        w == Head(r.to)
    IN  /\ pc[t] = "report"
        /\ heard' = [heard EXCEPT ![w][r.gpio] = @ + r.pin.level - r.previous.level]
        /\ IF Len(r.to) = 1
           THEN Return(t) /\ report' = [report EXCEPT ![t] = None]
           ELSE report' = [report EXCEPT ![t].to = Tail(@)] /\ UNCHANGED <<pc, call>>
        /\ UNCHANGED <<pins, watchers, now, due, sleep>>

(* Bug: a running toggler is not told of the new PWM. *)
StartOnly(t) ==
    /\ pc[t] = "start"
    /\ pc' = [pc EXCEPT ![t] = "idle",
                        ![Toggler] = IF @ = "none" /\ Slow(call[t].pwm) THEN "scan" ELSE @]
    /\ call' = [call EXCEPT ![t] = None]
    /\ UNCHANGED <<pins, watchers, now, report, due, sleep, heard>>

(* The end of set_pwm(): start the toggler if there is none, and wake it. *)
Start(t) ==
    LET woken == CASE pc[Toggler] = "none" /\ Slow(call[t].pwm) -> "scan"
                   [] pc[Toggler] = "wait" -> "scan"
                   [] OTHER -> pc[Toggler]
    IN  /\ pc[t] = "start"
        /\ pc' = [pc EXCEPT ![t] = "idle", ![Toggler] = woken]
        /\ call' = [call EXCEPT ![t] = None]
        /\ UNCHANGED <<pins, watchers, now, report, due, sleep, heard>>

(* What a change still on its way to w adds to what w has heard of g: an    *)
(* edge up or down; and the sum over the threads.                          *)
OnItsWay(t, w, g) ==
    IF pc[t] = "report" /\ report[t].gpio = g /\ w \in Range(report[t].to)
    THEN report[t].pin.level - report[t].previous.level
    ELSE 0

Edges(w, g, edge) == {t \in Threads \cup {Toggler} : OnItsWay(t, w, g) = edge}

Pending(w, g) == Cardinality(Edges(w, g, 1)) - Cardinality(Edges(w, g, -1))

(* reset() forgets every pin, and wakes the toggler; nobody hears of it,   *)
(* so what was heard is counted anew.                                      *)
reset(t) ==
    /\ "reset" \in Calls[t]
    /\ pc[t] = "idle"
    /\ pins' = [g \in GPIO |-> NewPin]
    /\ pc' = [pc EXCEPT ![Toggler] = IF @ = "wait" THEN "scan" ELSE @]
    /\ heard' = [w \in Watchers |-> [g \in GPIO |-> 0 - Pending(w, g)]]
    /\ UNCHANGED <<watchers, now, call, report, due, sleep>>

-----------------------------------------------------------------------------
(* Bug: the toggler ends when it finds nothing to toggle right now. *)
ScanOnce ==
    LET late == {g \in Toggling : pwm_level(pins[g].pwm, pins[g].since, now) # pins[g].level}
    IN  /\ pc[Toggler] = "scan"
        /\ pc' = [pc EXCEPT ![Toggler] = IF late = {} THEN "none" ELSE "next"]
        /\ due' = {[Arguments("toggle", g) EXCEPT !.level = 1 - pins[g].level, !.pwm = pins[g].pwm] :
                     g \in late}
        /\ UNCHANGED <<pins, watchers, now, call, report, sleep, heard>>

(* _toggle_loop(): snapshot the pins whose stored level is behind their    *)
(* cycle, apply each toggle unless the PWM changed, and wait for the next  *)
(* edge or for a set_pwm.                                                  *)
Scan ==
    LET late == {g \in Toggling : pwm_level(pins[g].pwm, pins[g].since, now) # pins[g].level}
        toggle(g) == [Arguments("toggle", g) EXCEPT
                         !.level = pwm_level(pins[g].pwm, pins[g].since, now),
                         !.pwm = pins[g].pwm]
    IN  /\ pc[Toggler] = "scan"
        /\ pc' = [pc EXCEPT ![Toggler] = IF Toggling = {} THEN "none" ELSE "next"]
        /\ due' = {toggle(g) : g \in late}
        /\ UNCHANGED <<pins, watchers, now, call, report, sleep, heard>>

Toggle ==
    /\ pc[Toggler] = "next"
    /\ \E c \in due :
        /\ call' = [call EXCEPT ![Toggler] = c]
        /\ due' = due \ {c}
    /\ pc' = [pc EXCEPT ![Toggler] = "update"]
    /\ UNCHANGED <<pins, watchers, now, report, sleep, heard>>

Wait ==
    /\ pc[Toggler] = "next"
    /\ due = {}
    /\ \/ /\ Toggling = {}
          /\ pc' = [pc EXCEPT ![Toggler] = "scan"]
          /\ UNCHANGED sleep
       \/ /\ pc' = [pc EXCEPT ![Toggler] = "wait"]
          /\ \E g \in Toggling :
                /\ \A other \in Toggling : UntilEdge(pins[g]) <= UntilEdge(pins[other])
                /\ sleep' = UntilEdge(pins[g])
    /\ UNCHANGED <<pins, watchers, now, call, report, due, heard>>

Wake ==
    /\ pc[Toggler] = "wait"
    /\ sleep = 0
    /\ pc' = [pc EXCEPT ![Toggler] = "scan"]
    /\ UNCHANGED <<pins, watchers, now, call, report, due, sleep, heard>>

(* Time passes; a prompt toggler is waiting, with time left, or not there. *)
Tick ==
    /\ Prompt => pc[Toggler] = "none" \/ (pc[Toggler] = "wait" /\ sleep > 0)
    /\ now' = (now + 1) % Cycle
    /\ sleep' = IF pc[Toggler] = "wait" /\ sleep > 0 THEN sleep - 1 ELSE sleep
    /\ UNCHANGED <<pins, watchers, pc, call, report, due, heard>>

-----------------------------------------------------------------------------
(* Every user of the module registers its watcher once. *)
watch(w) ==
    /\ w \notin Range(watchers)
    /\ watchers' = Append(watchers, w)
    /\ heard' = [heard EXCEPT ![w] = [g \in GPIO |-> pins[g].level - Pending(w, g)]]
    /\ UNCHANGED <<pins, now, pc, call, report, due, sleep>>

unwatch(w) ==
    /\ \E i \in DOMAIN watchers : watchers[i] = w /\ watchers' = RemoveAt(watchers, i)
    /\ UNCHANGED <<pins, now, pc, call, report, due, sleep, heard>>

Init ==
    /\ pins = [g \in GPIO |-> NewPin]
    /\ watchers = <<>>
    /\ now = 0
    /\ pc = [t \in Threads \cup {Toggler} |-> IF t = Toggler THEN "none" ELSE "idle"]
    /\ call = [t \in Threads \cup {Toggler} |-> None]
    /\ report = [t \in Threads \cup {Toggler} |-> None]
    /\ due = {}
    /\ sleep = 0
    /\ heard = [w \in Watchers |-> [g \in GPIO |-> 0]]

Thread(t) ==
    \/ \E g \in GPIO : CallSetup(t, g) \/ CallLevel(t, g) \/ CallPwm(t, g)
    \/ Start(t)
    \/ reset(t)

TogglerStep == Scan \/ Toggle \/ Wait \/ Wake

Next ==
    \/ \E t \in Threads : Thread(t)
    \/ \E t \in Threads \cup {Toggler} : Update(t) \/ Deliver(t)
    \/ TogglerStep
    \/ Tick
    \/ \E w \in Watchers : watch(w) \/ unwatch(w)

Spec == Init /\ [][Next]_vars

-----------------------------------------------------------------------------
Report == [gpio : GPIO, pin : Pin, previous : Pin, to : Seq(Watchers)]

(* The type of every variable but the history, and what a thread holds     *)
(* where it is.                                                            *)
TypeOK ==
    /\ pins \in [GPIO -> Pin]
    /\ watchers \in Seq(Watchers)
    /\ now \in Ticks
    /\ pc \in [Threads \cup {Toggler} ->
               {"idle", "update", "report", "start", "none", "scan", "next", "wait"}]
    /\ call \in [Threads \cup {Toggler} -> Call \cup {None}]
    /\ report \in [Threads \cup {Toggler} -> Report \cup {None}]
    /\ due \subseteq Call
    /\ sleep \in Nat
    /\ \A t \in Threads \cup {Toggler} :
        /\ pc[t] \in {"update", "report", "start"} => call[t] \in Call
        /\ pc[t] = "report" => report[t] \in Report /\ report[t].to # <<>>

(* Whatever races, a pin that is not an output reads what drives it from   *)
(* outside, or its pull, and runs no PWM (pins.py:7-8): a write, a toggle  *)
(* or a set_pwm that lost the race with setup_input or release leaves no   *)
(* trace on it.                                                            *)
InputsReadTheirDrive ==
    \A g \in GPIO : pins[g].function # "output" =>
        pins[g].level = InputLevel(pins[g]) /\ pins[g].pwm = None

(* No edge is lost, reported twice or made up, though changes commit under *)
(* the lock and are reported outside it: for every watcher the edges heard *)
(* and those on their way add up to the pin's level.                       *)
EdgesConserved ==
    \A w \in Range(watchers), g \in GPIO :
        heard[w][g] + Pending(w, g) = pins[g].level

(* A set_pwm on g has committed and not yet reached its notify_all. *)
Notifying(t, g) ==
    pc[t] \in {"report", "start"} /\ call[t].op = "set_pwm" /\ call[t].gpio = g

(* The toggler's exit and its start by set_pwm never miss each other: a    *)
(* pin that toggles has a toggler, or a set_pwm about to start it.         *)
NoLostToggler ==
    pc[Toggler] = "none" =>
        \A g \in Toggling : \E t \in Threads : Notifying(t, g) /\ Slow(call[t].pwm)

(* A toggler that waits does not sleep past an edge of any toggling pin,   *)
(* unless a set_pwm is about to wake it.                                   *)
NoOversleep ==
    pc[Toggler] = "wait" =>
        \A g \in Toggling :
            sleep <= UntilEdge(pins[g]) \/ \E t \in Threads : Notifying(t, g)
=============================================================================
