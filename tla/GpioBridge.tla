----------------------------- MODULE GpioBridge -----------------------------
(***************************************************************************)
(* p4n4_emu/hw/mqtt_bridge.py on top of Pins: GPIO over MQTT.              *)
(*                                                                         *)
(* The bridge is a watcher of the pins: the thread that reports a change   *)
(* publishes it.  When the link comes up, the MQTT client's network thread *)
(* publishes every claimed pin from a snapshot, one message at a time; the *)
(* same thread drives pins as `set` messages arrive.  The topics are what  *)
(* the retained messages converge to: the client queues QoS 1 messages     *)
(* while the link is down and sends them in the order they were published. *)
(***************************************************************************)
EXTENDS Pins

CONSTANTS
    Net,        \* the client's network thread
    Scripts,    \* the threads that call the GPIO libraries
    Bridge,     \* the bridge's watcher, on_change
    Unset       \* a topic nothing has been published on

ASSUME BridgeAssumption ==
    /\ Net \in Threads
    /\ Scripts \subseteq Threads
    /\ Bridge \in Watchers

VARIABLES
    phase,      \* "new", "running" after start(), "stopped" after stop()
    link,       \* TRUE: connected to the broker
    known,      \* the keys of pins._pins: every pin set up or driven
    snapshot,   \* what claimed() returned to on_connect
    toPublish,  \* the pins of the snapshot it has still to publish
    synced,     \* (history) a snapshot has been published in full
    state,      \* emu/gpio/<pin>/state, retained
    pwmTopic    \* emu/gpio/<pin>/pwm, retained

bridgeVars == <<phase, link, known, snapshot, toPublish, synced, state, pwmTopic>>
allVars == <<pins, watchers, now, pc, call, report, due, sleep, heard,
             phase, link, known, snapshot, toPublish, synced, state, pwmTopic>>

-----------------------------------------------------------------------------
publish_state(g, pin) == state' = [state EXCEPT ![g] = pin.level]

(* Bug: the end of a PWM is not published. *)
PublishRunningPwm(r) ==
    /\ IF r.pin.level # r.previous.level \/ r.pin.function # r.previous.function
       THEN publish_state(r.gpio, r.pin)
       ELSE UNCHANGED state
    /\ pwmTopic' = IF r.pin.pwm # r.previous.pwm /\ r.pin.pwm # None
                   THEN [pwmTopic EXCEPT ![r.gpio] = r.pin.pwm]
                   ELSE pwmTopic

(* Bug: the levels of a pin are not published while it runs PWM. *)
PublishPlainLevels(r) ==
    /\ IF r.pin.pwm = None /\ r.pin # r.previous
       THEN publish_state(r.gpio, r.pin)
       ELSE UNCHANGED state
    /\ pwmTopic' = IF r.pin.pwm # r.previous.pwm
                   THEN [pwmTopic EXCEPT ![r.gpio] = r.pin.pwm]
                   ELSE pwmTopic

(* One call of the watcher: the level on an edge or a change of function,  *)
(* the PWM when it changed.                                                *)
on_change(r) ==
    /\ IF r.pin.level # r.previous.level \/ r.pin.function # r.previous.function
       THEN publish_state(r.gpio, r.pin)
       ELSE UNCHANGED state
    /\ pwmTopic' = IF r.pin.pwm # r.previous.pwm
                   THEN [pwmTopic EXCEPT ![r.gpio] = r.pin.pwm]
                   ELSE pwmTopic

DeliverChange(t) ==
    /\ Deliver(t)
    /\ IF Head(report[t].to) = Bridge
       THEN on_change(report[t])
       ELSE UNCHANGED <<state, pwmTopic>>
    /\ UNCHANGED <<phase, link, known, snapshot, toPublish, synced>>

(* The network thread runs one callback at a time. *)
NetIdle == pc[Net] = "idle" /\ toPublish = {}

start ==
    /\ phase = "new"
    /\ watch(Bridge)
    /\ phase' = "running"
    /\ UNCHANGED <<link, known, snapshot, toPublish, synced, state, pwmTopic>>

(* loop_stop() waits for the callback the network thread is in. *)
stop ==
    /\ phase = "running" /\ NetIdle
    /\ unwatch(Bridge)
    /\ phase' = "stopped"
    /\ link' = FALSE
    /\ UNCHANGED <<known, snapshot, toPublish, synced, state, pwmTopic>>

(* Bug: every line is published, not only those something has set up. *)
PublishEveryLine ==
    /\ phase = "running" /\ ~link /\ NetIdle
    /\ link' = TRUE
    /\ toPublish' = GPIO
    /\ snapshot' = pins
    /\ UNCHANGED <<vars, phase, known, synced, state, pwmTopic>>

on_connect ==
    /\ phase = "running" /\ ~link /\ NetIdle
    /\ link' = TRUE
    /\ toPublish' = known
    /\ snapshot' = [g \in GPIO |-> IF g \in known THEN pins[g] ELSE None]
    /\ synced' = (synced \/ known = {})
    /\ UNCHANGED <<vars, phase, known, state, pwmTopic>>

(* The next publish_state of on_connect's loop. *)
PublishSnapshot(g) ==
    /\ g \in toPublish
    /\ publish_state(g, snapshot[g])
    /\ toPublish' = toPublish \ {g}
    /\ snapshot' = [snapshot EXCEPT ![g] = None]
    /\ synced' = (synced \/ toPublish = {g})
    /\ UNCHANGED <<vars, phase, link, known, pwmTopic>>

(* A `set` message: a level drives the pin, "release" stops driving it. *)
on_message(g, level) ==
    /\ link /\ NetIdle
    /\ drive(Net, g, level)
    /\ UNCHANGED bridgeVars

LinkLost ==
    /\ link /\ NetIdle
    /\ link' = FALSE
    /\ UNCHANGED <<vars, phase, known, snapshot, toPublish, synced, state, pwmTopic>>

UpdatePins(t) ==
    /\ Update(t)
    /\ known' = known \cup {call[t].gpio}
    /\ UNCHANGED <<phase, link, snapshot, toPublish, synced, state, pwmTopic>>

ScriptCall(t) ==
    /\ t = Net => toPublish = {}
    /\ \E g \in GPIO : CallSetup(t, g) \/ CallLevel(t, g) \/ CallPwm(t, g)
    /\ UNCHANGED bridgeVars

BridgeInit ==
    /\ Init
    /\ phase = "new"
    /\ link = FALSE
    /\ known = {}
    /\ snapshot = [g \in GPIO |-> None]
    /\ toPublish = {}
    /\ synced = FALSE
    /\ state = [g \in GPIO |-> None]
    /\ pwmTopic = [g \in GPIO |-> Unset]

ThreadStep(t) ==
    \/ UpdatePins(t)
    \/ DeliverChange(t)
    \/ Start(t) /\ UNCHANGED bridgeVars

TogglerRuns ==
    \/ UpdatePins(Toggler)
    \/ DeliverChange(Toggler)
    \/ TogglerStep /\ UNCHANGED bridgeVars

NetStep ==
    \/ on_connect
    \/ \E g \in GPIO : PublishSnapshot(g)

BridgeNext ==
    \/ start
    \/ stop
    \/ NetStep
    \/ \E g \in GPIO, level \in Drives : on_message(g, level)
    \/ LinkLost
    \/ \E t \in Scripts : ScriptCall(t)
    \/ \E t \in Threads : ThreadStep(t)
    \/ TogglerRuns
    \/ Tick /\ UNCHANGED bridgeVars

(* As for Pins, and the client reconnects while the bridge runs. *)
BridgeFairness ==
    /\ \A t \in Threads : WF_allVars(ThreadStep(t))
    /\ WF_allVars(TogglerRuns)
    /\ WF_allVars(NetStep)
    /\ SF_allVars(Tick /\ UNCHANGED bridgeVars)

BridgeSpec == BridgeInit /\ [][BridgeNext]_allVars

FairBridgeSpec == BridgeSpec /\ BridgeFairness

-----------------------------------------------------------------------------
BridgeTypeOK ==
    /\ phase \in {"new", "running", "stopped"}
    /\ link \in BOOLEAN /\ synced \in BOOLEAN
    /\ toPublish \subseteq known /\ known \subseteq GPIO
    /\ snapshot \in [GPIO -> Pin \cup {None}]
    /\ \A g \in toPublish : snapshot[g] \in Pin
    /\ state \in [GPIO -> Levels \cup {None}]
    /\ pwmTopic \in [GPIO -> Pwms \cup {None, Unset}]

(* No call, change or snapshot is on its way. *)
Settled ==
    /\ toPublish = {}
    /\ \A t \in Threads : pc[t] = "idle"
    /\ pc[Toggler] \notin {"update", "report"}

(* mqtt_bridge.py:5: the state topic is "the pin's level, published        *)
(* (retained) on every change", so once nothing is on its way the topic of *)
(* every claimed pin that has one shows the pin's level.                   *)
RetainedIsCurrent ==
    (phase = "running" /\ synced /\ Settled) =>
        \A g \in known : state[g] \in {None, pins[g].level}

(* mqtt_bridge.py:6: the pwm topic shows the PWM while it runs and {} once *)
(* it has stopped, as soon as it has been published at all.                *)
PwmTopicIsCurrent ==
    (phase = "running" /\ Settled) =>
        \A g \in GPIO : pwmTopic[g] = Unset \/ pwmTopic[g] = pins[g].pwm

(* pins.py:12: a blinking LED blinks on emu/gpio/<pin>/state, as long as   *)
(* nobody touches its PWM and the bridge runs: the toggler's wake-ups, its *)
(* reports and the topic go through every period to the end.               *)
TopicBlinks ==
    \A g \in GPIO, p \in Pwms :
        <>[](phase = "running" /\ pins[g].function = "output" /\ pins[g].pwm = p /\ Slow(p))
            => \A level \in Levels : []<>(state[g] = level)
=============================================================================
