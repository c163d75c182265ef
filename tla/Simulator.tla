----------------------------- MODULE Simulator -----------------------------
(***************************************************************************)
(* p4n4_emu/sim/sensor_sim.py's loop, with the faults of faults.py and the *)
(* replay of a recording of replay.py.                                     *)
(*                                                                         *)
(* Each turn of the loop reads the clock once and does what is due by it:  *)
(* it samples devices, ticks the nodes, publishes from the recording and   *)
(* then the delayed readings.  It then sleeps until the next thing is due. *)
(*                                                                         *)
(* Time is modelled by what is left until each moment, which is negative   *)
(* when it is late: a turn takes up to Busy, and a sleep ends up to Jitter *)
(* after its time.  Intervals, delays and durations are in the same units. *)
(***************************************************************************)
EXTENDS Integers, Sequences, FiniteSets, SequencesExt, FiniteSetsExt

CONSTANTS
    Interval,       \* the intervals of the devices, which are numbered from 1
    Measurements,
    Samples,        \* the values a generator may give
    Faults,         \* each device's faults, [type, measurement, time], no two of a type for
                    \* one measurement
    Naps,           \* the times until a firmware-like node may be due again (see Mcu)
    Delays,         \* the delays of a node's readings
    Scenarios,      \* [devices, nodes, rec, speed, loop]: rec is the recording's times
    Busy, Jitter,
    MaxHeld,        \* a bound of the model: delayed readings at a time
    All             \* a fault of all measurements, or of the device

VARIABLES
    pc,         \* what of the loop's turn is next
    due,        \* per device: time until its next round
    silent,     \* FaultInjector._silent, by device and measurement: time left and
                \* (history) time since
    stuck,      \* FaultInjector._stuck: value and time left
    held,       \* the delayed readings: a heap, in the order they come off it
    node,       \* McuNode.due, per node
    replay,     \* the recording, its speed and loop, the index, time to the next reading
    out,        \* what the last step published
    told        \* the stop event: SIGTERM has come, or the caller has set it

vars == <<pc, due, silent, stuck, held, node, replay, out, told>>

Keys == Measurements \cup {All}

Devices == DOMAIN due

Nodes == DOMAIN node

-----------------------------------------------------------------------------
(* faults.py.  Which faults a round's rolls have hit is a choice: rolled.  *)
Matching(type, m, rolled) == {f \in rolled : f.type = type /\ f.measurement \in {All, m}}

Dropouts(d, m, rolled) == {f \in rolled : f.type = "dropout" /\ f.measurement = m}

IsSilent(d, m) == silent[d][m].left > 0

(* device_silent(), dropped(): silent still, or from now on. *)
Dropped(d, m, rolled) == IsSilent(d, m) \/ Dropouts(d, m, rolled) # {}

Settings(F) == {f.time : f \in F}

(* Silences that begin: of the device, or else of its measurements. *)
Silences(d, rolled) ==
    [m \in Keys |->
        IF (m # All /\ Dropped(d, All, rolled)) \/ IsSilent(d, m) \/ Dropouts(d, m, rolled) = {}
        THEN silent[d][m] ELSE [left |-> Max(Settings(Dropouts(d, m, rolled))), since |-> 0]]

(* value(): a stuck sensor's value is neither new nor spiked. *)
IsStuck(d, m) == stuck[d][m].left > 0

value(d, m, sample, rolled) ==
    CASE IsStuck(d, m) -> stuck[d][m].value
      [] ~IsStuck(d, m) /\ Matching("stuck", m, rolled) # {} -> sample
      [] OTHER -> sample + 10 * Cardinality(Matching("spike", m, rolled))

Sticks(d, m, sample, rolled) ==
    LET F == Matching("stuck", m, rolled)
    IN  IF IsStuck(d, m) \/ F = {} THEN stuck[d][m] ELSE [value |-> sample, left |-> Max(Settings(F))]

delay(m, rolled) == Max(Settings(Matching("delay", m, rolled)) \cup {0})

(* DeviceSim.readings(): the round's readings, each with its delay. *)
Reading(d, m, sample, rolled) ==
    [device |-> d, measurement |-> m, value |-> value(d, m, sample, rolled),
     broken |-> Matching("malformed", m, rolled) # {}, in |-> delay(m, rolled), age |-> 0]

Taken(d, rolled) ==
    IF Dropped(d, All, rolled) THEN {} ELSE {m \in Measurements : ~Dropped(d, m, rolled)}

readings(d, sample, rolled) ==
    {Reading(d, m, sample[m], rolled) : m \in Taken(d, rolled)}

-----------------------------------------------------------------------------
(* Bug: a list in place of the heap. *)
holdLast(queue, order) == queue \o order

(* The heap's entries are (now + delay, seq, ...): of what is due at one   *)
(* time, what was pushed first comes off first.                            *)
Before(all, i, j) == all[i].in < all[j].in \/ (all[i].in = all[j].in /\ i < j)

Place(all, j) == Cardinality({i \in DOMAIN all : Before(all, i, j)}) + 1

(* heappush(held, (now + delay, seq, ...)), for one reading after another. *)
hold(queue, order) ==
    LET all == queue \o order
    IN  [k \in DOMAIN all |-> all[CHOOSE j \in DOMAIN all : Place(all, j) = k]]

Hold(late) ==
    /\ Len(held) + Cardinality(late) <= MaxHeld
    /\ \E order \in SetToSeqs(late) : held' = hold(held, order)

(* heapq's first of due: the earliest, of them the one first in the list. *)
First(d) == \A e \in Devices \ {d} : due[d] < due[e] \/ (due[d] = due[e] /\ d < e)

SampleDevice(d) ==
    /\ pc = "devices" /\ due[d] <= 0 /\ First(d)
    /\ \E rolled \in SUBSET Faults, sample \in [Measurements -> Samples] :
        LET R == readings(d, sample, rolled)
        IN  /\ out' = {r \in R : r.in = 0}
            /\ Hold({r \in R : r.in > 0})
            /\ silent' = [silent EXCEPT ![d] = Silences(d, rolled)]
            /\ stuck' = [stuck EXCEPT ![d] =
                  [m \in Measurements |->
                      IF m \in Taken(d, rolled) THEN Sticks(d, m, sample[m], rolled) ELSE @[m]]]
    /\ due' = [due EXCEPT ![d] = Interval[d]]
    /\ UNCHANGED <<pc, node, replay, told>>

DevicesDone ==
    /\ pc = "devices" /\ \A d \in Devices : due[d] > 0
    /\ pc' = "nodes" /\ out' = {}
    /\ UNCHANGED <<due, silent, stuck, held, node, replay, told>>

(* node.tick(now): publishes on its own connection, and may delay some.    *)
TickNodes ==
    /\ pc = "nodes"
    /\ \E nap \in [Nodes -> Naps], late \in [Nodes -> Delays \cup {0}] :
        /\ node' = [n \in Nodes |-> IF node[n] <= 0 THEN nap[n] ELSE node[n]]
        /\ Hold({[device |-> n, measurement |-> All, value |-> 0, broken |-> FALSE,
                  in |-> late[n], age |-> 0] : n \in {n \in Nodes : node[n] <= 0 /\ late[n] > 0}})
    /\ pc' = "replay" /\ out' = {}
    /\ UNCHANGED <<due, silent, stuck, replay, told>>

-----------------------------------------------------------------------------
(* Replayer.__init__(): the period is the span and the median of the gaps. *)
Gaps(rec) == [i \in 1..Len(rec) - 1 |-> rec[i + 1] - rec[i]]

TypicalGap(rec) ==
    LET Shorter(g) == {i \in DOMAIN Gaps(rec) : Gaps(rec)[i] <= g}
    IN  IF Len(rec) <= 1 THEN 1
        ELSE Min({g \in ToSet(Gaps(rec)) : Cardinality(Shorter(g)) > (Len(rec) - 1) \div 2})

(* _due(index, lap): with speed 0, everything is due at the start. *)
GapAfter(i) ==
    CASE replay.speed = 0          -> 0
      [] replay.speed > 0 /\ i < Len(replay.rec) -> Gaps(replay.rec)[i] \div replay.speed
      [] OTHER                     -> TypicalGap(replay.rec) \div replay.speed

Ended == replay.index > Len(replay.rec)

(* pop_due(): one reading after the other, for as long as they are due. *)
pop_due ==
    /\ pc = "replay" /\ ~Ended /\ replay.next <= 0
    /\ LET i == replay.index
           wraps == i = Len(replay.rec) /\ replay.loop
       IN  replay' = [replay EXCEPT !.index = IF wraps THEN 1 ELSE i + 1,
                                    !.next = @ + GapAfter(i)]
    /\ out' = {[device |-> 0, measurement |-> All, value |-> replay.index,
                broken |-> FALSE, in |-> replay.next, age |-> 0]}
    /\ UNCHANGED <<pc, due, silent, stuck, held, node, told>>

NothingDue ==
    /\ pc = "replay" /\ (Ended \/ replay.next > 0)
    /\ pc' = "held" /\ out' = {}
    /\ UNCHANGED <<due, silent, stuck, held, node, replay, told>>

HeldDue == held # <<>> /\ held[1].in <= 0

(* The delayed readings that are due, each by its own publisher. *)
PublishHeld ==
    /\ pc = "held" /\ HeldDue
    /\ held' = Tail(held) /\ out' = {held[1]}
    /\ UNCHANGED <<pc, due, silent, stuck, node, replay, told>>

HeldDone ==
    /\ pc = "held" /\ ~HeldDue
    /\ pc' = "wait" /\ out' = {}
    /\ UNCHANGED <<due, silent, stuck, held, node, replay, told>>

-----------------------------------------------------------------------------
(* Bug: the delayed readings do not wake the loop up. *)
timesOfRounds ==
    {due[d] : d \in Devices} \cup {node[n] : n \in Nodes}
    \cup (IF Ended THEN {} ELSE {replay.next})

times ==
    {due[d] : d \in Devices} \cup {node[n] : n \in Nodes}
    \cup (IF held = <<>> THEN {} ELSE {held[1].in})
    \cup (IF Ended THEN {} ELSE {replay.next})

Left(t, passed) == IF t > passed THEN t - passed ELSE 0

Pass(passed) ==
    /\ due' = [d \in Devices |-> due[d] - passed]
    /\ node' = [n \in Nodes |-> node[n] - passed]
    /\ held' = [i \in DOMAIN held |->
                  [held[i] EXCEPT !.in = @ - passed, !.age = @ + passed]]
    /\ silent' = [d \in Devices |-> [m \in Keys |->
                    LET left == Left(silent[d][m].left, passed)
                    IN  [left |-> left, since |-> IF left = 0 THEN 0 ELSE silent[d][m].since + passed]]]
    /\ stuck' = [d \in Devices |-> [m \in Measurements |->
                    LET left == Left(stuck[d][m].left, passed)
                    IN  [value |-> IF left = 0 THEN 0 ELSE stuck[d][m].value, left |-> left]]]
    /\ replay' = IF Ended THEN replay ELSE [replay EXCEPT !.next = @ - passed]

(* stop.wait(max(0, min(times) - clock())), and the clock is read anew. *)
Wait ==
    /\ pc = "wait" /\ times # {} /\ ~told
    /\ \E busy \in 0..Busy, late \in 0..Jitter : Pass(Max({Min(times), busy}) + late)
    /\ pc' = "devices" /\ out' = {}
    /\ UNCHANGED told

Finish ==
    /\ pc = "wait" /\ times = {}
    /\ pc' = "ended" /\ out' = {}
    /\ UNCHANGED <<due, silent, stuck, held, node, replay, told>>

(* The wait ends, and the loop with it; what is held is lost.              *)
Stop ==
    /\ pc = "wait" /\ times # {} /\ told
    /\ pc' = "stopped" /\ held' = <<>> /\ out' = {}
    /\ UNCHANGED <<due, silent, stuck, node, replay, told>>

(* SIGTERM, at any time: its handler sets the stop event. *)
Tell ==
    /\ ~told /\ pc \notin {"ended", "stopped"}
    /\ told' = TRUE
    /\ UNCHANGED <<pc, due, silent, stuck, held, node, replay, out>>

(* Ctrl-C, at any time. *)
Interrupt ==
    /\ pc \notin {"ended", "stopped"}
    /\ pc' = "stopped" /\ held' = <<>> /\ out' = {}
    /\ UNCHANGED <<due, silent, stuck, node, replay, told>>

Init ==
    /\ pc = "devices"
    /\ \E S \in Scenarios :
        /\ due = [d \in S.devices |-> 0]
        /\ node = [n \in S.nodes |-> 0]
        /\ replay = [rec |-> S.rec, speed |-> S.speed, loop |-> S.loop, index |-> 1, next |-> 0]
        /\ silent = [d \in S.devices |-> [m \in Keys |-> [left |-> 0, since |-> 0]]]
        /\ stuck = [d \in S.devices |-> [m \in Measurements |-> [value |-> 0, left |-> 0]]]
    /\ held = <<>>
    /\ out = {} /\ told = FALSE

Turn ==
    \/ \E d \in Devices : SampleDevice(d)
    \/ DevicesDone \/ TickNodes \/ pop_due \/ NothingDue \/ PublishHeld \/ HeldDone \/ Wait \/ Finish \/ Stop

Next == Turn \/ Tell \/ Interrupt

Spec == Init /\ [][Next]_vars

(* The loop's thread runs; when it is told to stop is nobody's duty.       *)
FairSpec == Spec /\ WF_vars(Turn)

-----------------------------------------------------------------------------
TypeOK ==
    /\ pc \in {"devices", "nodes", "replay", "held", "wait", "ended", "stopped"}
    /\ \A i \in 1..Len(held) - 1 : held[i].in <= held[i + 1].in
    /\ Len(held) <= MaxHeld
    /\ replay.index \in 1..Len(replay.rec) + 1

(* Whatever is published, sampled or ticked is late by no more than one    *)
(* turn of the loop and one sleep: the loop sleeps past nothing.           *)
OnTime ==
    LET Late == Busy + Jitter IN
    /\ \A d \in Devices : due[d] >= -Late
    /\ \A n \in Nodes : node[n] >= -Late
    /\ \A i \in DOMAIN held : held[i].in >= -Late
    /\ ~Ended /\ replay.speed > 0 => replay.next >= -Late

(* While a device or a measurement of it is silent, all that is published  *)
(* are delayed readings that it had taken before.                          *)
SilenceHolds ==
    \A r \in out : r.device \in Devices =>
        \A m \in {All, r.measurement} :
            IsSilent(r.device, m) => r.age > silent[r.device][m].since

(* The loop ends only when there is nothing to publish any more. *)
EndsWhenDone == pc = "ended" => held = <<>> /\ Devices = {} /\ Nodes = {} /\ Ended

(* run(): it publishes until it is told to stop, and then it ends.         *)
StopsWhenTold == told ~> pc \in {"ended", "stopped"}
=============================================================================
