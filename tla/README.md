# p4n4-emu in TLA+

p4n4-emu runs the p4n4 stacks (Docker Compose) under the limits of a small
board, lets Python hardware scripts run without the board, and simulates the
sensors that feed the stacks. This directory holds TLA+ models of the parts
whose correctness depends on the order in which threads, timers and messages
meet, the TLC configurations that check them, and proofs for TLAPS.

Sources are named relative to `p4n4_emu/`.

## 1. Inventory

| Component | State | Operations | Talks to | What is hard |
|---|---|---|---|---|
| Pins, `hw/pins.py` | `_pins`, `_watchers`, the toggler thread | set up, release, write, drive, set_pwm, watch, reset | every front end (as watcher and caller) | calls look at a pin before they take the lock; watchers run after it; a thread that starts, waits and ends by itself |
| GPIO over MQTT, `hw/mqtt_bridge.py` | its client, retained topics | start, stop, on_connect, on_message, on_change | Pins, the broker | publishes from whichever thread changed a pin, and from a snapshot |
| lgpio, `hw/lgpio_stub.py` | `_chips`, `_claims`, `_groups`, timers, `_notify`, handles | claim, free, groups, write, PWM, alerts, debounce, watchdog, pipes, buses | Pins (under and outside its own lock), timers, callbacks | two locks taken one after the other; objects looked up, then used; timers cancelled too late |
| RPi.GPIO, `hw/gpio_stub.py` | `_alerts`, PWM objects, events | setup, add/remove_event_detect, wait_for_edge, cleanup | Pins | blocking waits against removal and timeout |
| gpiod v2 and v1, `hw/gpiod_stub/`, `hw/gpiod_v1_stub.py` | line requests, `_held`, event queues and pipes | request, release, reconfigure, read and wait for events | Pins | a queue and a pipe that must agree; release against edges and readers; a request that fails half-way |
| Buses, `hw/buses.py`, `serial_stub.py`, `smbus_stub.py`, `spidev_stub.py` | registers, FIFOs, a lock per bus | transfers, reads with timeout | devices | transfers that must not be interleaved |
| Virtual files, `hw/vfs.py` | `_files`, a scratch directory | open, stat, list, refresh | sensors | a file rewritten while it is read |
| Devices, board, layout, readings | register maps, the layout file | read, convert | buses | conversions (arithmetic only) |
| MCU node, `sim/mcu.py` | awake, announced, registered, buffer, due | tick, announce, sleep, publish, callbacks | scheduler, MQTT client's thread, broker's will | flags shared with the network thread; readings held and flushed |
| Simulator, `sim/sensor_sim.py`, `faults.py`, `replay.py` | queues of due rounds and held readings, fault windows, replay position | run, pop_due, payload | MCU nodes, broker | order, termination, looping |
| Lifecycle, `commands/up.py`, `down.py`, `profile.py`, `sim.py` | overlays on disk, containers, networks | up with roll-back, down, switch | Docker | failures and crashes half-way, two commands at a time |
| Budgets, `profiles/`, `overlays/generator.py` | shares, profiles | scale, merge, render | lifecycle | rounding, floors against a total |
| Calibration, `utils/calibration.py` | a JSON file | load, save | profiles | lost updates |
| Status, report, logs, run, setup, other utilities | none | queries, formatting, exec | Docker, host | nothing that a model would add to |

What makes each of them correct:

* Pins: a pin that is not an output reads what is outside; no edge is lost to a
  watcher; a blinking output blinks; a retained topic shows the level.
* lgpio: one holder per line; a line is set up as its claim says; errors are
  statuses; the last edge is reported once; one TIMEOUT, when it is due.
* RPi.GPIO and gpiod: a waiter wakes up; events come in order and none twice;
  descriptors are closed once, and not written to afterwards.
* Buses: a combined transfer is one; a FIFO gives every byte once, in order.
* MCU node and simulator: availability tells the truth once things settle;
  readings go out in order and not early; a run ends when all is sent.
* Lifecycle: what runs with limits has its overlay on disk; a failed
  `up` leaves running what ran before.
* Budgets: the total fits, or the floors say why not.

`PROJECT.json` lists the hazards behind these, each at its line, with the
property that covers it or the reason why none does yet.

## 2. Plan

1. **Done**: `Pins`, with `GpioBridge` on top of it.
2. **Done**: `LgpioClaims` and `LgpioAlerts`.
3. **Done**: `Mcu`: a node, its network thread and the broker.
4. **Done**: `EventQueue`, the abstract buffer, and the four components that
   implement it: `Gpiod2`, `Gpiod1`, `Serial`, `NotifyPipes`; `RpiGpio`.
5. **Done**: `I2c`, `Vfs`, and the parts on the buses: `Parts`, `Codecs`, `Layout`.
6. **Done**: `Simulator` (the loop, faults, replay) and `Scenario` (from the file
   to the container).
7. **Done**: `Budget` as operators, `Lifecycle` on top of it.
8. **Done**: `Hardware` and `Deployment`, which put these components side by side.
9. **Done**: proofs of all of them but `Codecs` (section 5).
10. Left: a process that uses several front ends on one line (see section 7).

## 3. Modules

### Pins (`hw/pins.py`)

A call is three steps, as in the code: what it checks before the lock
(`write`, `drive`, `set_pwm`, `setup_output`, ... : the actions that `Begin`),
`Update` (the body of `_update` under the lock, with the Change it decides on)
and one `Deliver` per watcher, in the calling thread. A `set_pwm` then goes on
to `Start`, its second lock. The toggler is a thread with the places `scan`,
`next`, `wait` and none; `Toggle` starts an `_update` of its own.

* `pins` is `_pins`, with the default `Pin` for a line that has no entry. A call
  that raises `PinError` is one that does not start.
* `now` is the monotonic clock modulo `Cycle`; PWM settings are periods and
  high times in ticks. A tick never falls inside the arithmetic of a step.
* `heard` is a history variable: what each watcher was told, as rising less
  falling edges; `Pending` are the edges that committed and have yet to be told.
* `since` is set to 0 without PWM; the code keeps a value nobody looks at.

### GpioBridge (`hw/mqtt_bridge.py`)

Extends Pins. `DeliverChange` is `Deliver` with what the bridge publishes when
its turn comes; `on_connect` takes the snapshot and `PublishSnapshot` publishes
it, message by message, in the network thread, which runs one callback at a
time. `state` and `pwmTopic` are the retained values: paho sends QoS 1 messages in
the order of the `publish` calls, so the last call decides.

### LgpioClaims (`hw/lgpio_stub.py`, claims and groups)

Every call is cut where it gives up the lock: the handle check, the claim, the
set-up of the line outside the lock, the second lock of `gpio_claim_alert`, the
steps of the group calls. `lines` is what pins has the line set up as. `answer`
is how the last call ended: with a status or in an exception. `program` says
which operations and handles each thread uses, and is chosen in `Init`. A
`gpiochip_close` and a `gpio_free` hold the lock throughout and are one step. `torn` is a history variable: the
lines on which calls of two threads with the same handle have met (other than two writes), where `_owned` and the
second lock of `gpio_claim_alert` may act on a claim that is gone.

### LgpioAlerts (`hw/lgpio_stub.py`, alerts)

One line. A driver changes the level and, later, runs `_on_change`; `Slots` are
the timer threads: waiting (`debounce`, `watchdog`), past their wait and before
the lock (`alert`, `timeout`), or on their way to the callbacks (`report`).
`Cancelled` is `Timer.cancel()`: it has no effect once the wait is over. A claim
that is replaced or dropped makes what acts for it `stale`, which is the code's
`_claims.get(gpio) is not claim`. Timers run out at any time. `told` and `timeouts` are
history variables.

### Mcu (`sim/mcu.py`)

One node. The simulator's thread goes through `tick` place by place: the check of
the connection that opens a round (`CheckLink`), `_announce` and, apart, its last
line (`SetAnnounced`), `_flush` reading by reading, each reading, `_sleep` with its
`_settle` and `Disconnect`. The network thread runs `_on_connect` some time after
the connection is up, and reads answers (`ReadAnswer`: acknowledgements, and the
registration's for `_on_message`). Around them, as the code uses them:

* `out` is the client's memory of unacknowledged QoS 1 messages; they go out again,
  in order, when it connects. `wire` and `back` are what is under way.
* `Lose` breaks the connection at any point: what the broker did not read is gone,
  and the will is due. The broker sends it before it accepts the node again.
* A `Disconnect` with answers unread may be a clean one or a reset (the comment in
  the code at `FLUSH_WAIT`).
* `Answer` is the onboarding flow; an answer nobody is subscribed to is lost.

`tick`'s due times are left out: whatever is not running may run next. `told`,
`missed`, `heard` and `shed` are history variables.

### EventQueue, and what implements it

`EventQueue` is the promise that the front ends, the serial port and lgpio's
notification pipes share: what is put in a buffer gets the next number of its source,
is handed over once and in order, and is lost only by never being put in (the buffer is
full) or together with the whole buffer. Each of the four modules says what its
buffer is with `Buffer == INSTANCE EventQueue WITH ...`, and `BuffersEvents ==
Buffer!Spec` is checked as a property.

* `Gpiod2` (`hw/gpiod_stub/`): a request's lines are taken under the lock and set up after it,
  line by line (`apply`, `applied`); `release` gives them back before it releases the pins
  (`release_pins`) and closes the pipe (`close`). An edge passes `on_change` (looks the request
  up under the lock), `edge` (its settings, without it) and `enqueue` (under it again). Pipes are
  descriptors, lowest first, so that a late byte can reach another request's pipe.
* `Gpiod1` (`hw/gpiod_v1_stub.py`): bulks, configured line by line; an edge is looked up and
  queued in one step. Each owner has a chip object of its own. `request_fails` is a request for which `os.pipe()`
  finds no descriptor at some line: the lines it got to stay in `_held` without a type, and `stranded`, a history
  variable, remembers them.
* `Serial` (`hw/buses.py`, `hw/serial_stub.py`, lgpio's serial handles): what arrived and was not
  read. A byte is its number. A read that waits gives the lock up; `read_until` reads byte by byte.
* `NotifyPipes` (`hw/lgpio_stub.py`): `send` under lgpio's lock, the file closed after it,
  `gpio_claim_alert` in its two locks.

### RpiGpio (`hw/gpio_stub.py`)

One channel. `alert` are the `_Alert` objects, which outlive their entry in `_alerts` while a waiter
refers to them; a driver copies the callbacks under the lock (`on_change`) and calls them after it
(`callback`). `pwm` are the PWM objects: the one in `_pwms`, and those that a `cleanup` took out of it and that the
script may start again beside a newer one. An object first changes itself (`Change`), then the pin (`set_pwm`); it
stops when the script lets it go (`drop`). `program`, chosen in `Init`, says which operations each thread uses.

### I2c, Vfs, Parts, Codecs, Layout

* `I2c` (`hw/buses.py`, `hw/smbus_stub.py`, lgpio's I2C handles): a call is the sequence of its
  transfers, and `Transfer` does one. The bus lock stays with a call that `buses` combines.
* `Vfs` (`hw/vfs.py`): opening a dynamic file is `generate`, `truncate` and `write` under the lock, and
  `read` after it.
* `Parts` (`hw/devices/`): the modes of the BME280, the ADS1115 and the MPU-6050, with measurements a
  dropout refuses. Registers that are only stored are left out.
* `Codecs` (`hw/devices/`, `hw/spidev_stub.py`, `hw/readings.py`): pure functions. What a part sends,
  and what a driver written after the data sheet makes of it.
* `Layout` (`hw/layout.py`, `hw/shims.py`): a document's entries are checked in order, then attached.

### Simulator and Scenario (`sim/`, `commands/sim.py`)

`Simulator` is one turn of `sensor_sim.run()` after another, place by place. Time is what is left
until each moment, so that it needs no bound: a turn takes up to `Busy`, a sleep ends
up to `Jitter` late. `Tell` is the stop event. A fault's rolls are a choice per round.
`Scenario` takes a document through `parse_scenario`, the mounts and environment of `sim start`, and
the parse in the container; percentages and seconds are in hundredths. A simulator that was asked for no
devices (`--devices 0` is not refused) publishes nothing, and that is what was asked for (`AsksForNone`).

### Budget and Lifecycle (`overlays/`, `commands/`)

`Budget` is the arithmetic of `overlays/generator.py` in hundredths and MB. `Lifecycle` has a
command per terminal, cut wherever it calls Docker or writes a file. Any such call may fail
with part of its work done, and `Interrupt` (Ctrl-C, or a crash) may follow any step. A `docker compose ps` that
fails lists nothing, and so the stack counts as one that does not run (`_is_running`); `unseen` is a history
variable, the stacks a command has asked about in vain. A profile
switch passes over the stacks that did not run under p4n4-emu (`PassOver`), and ends at the first one that wants
cores the host lacks (`Refuse`), with the stacks before it switched already. The network's inspection and creation, and the
update of a stack's containers, are one step each, which may do only part of its work.

### Hardware and Deployment

What runs in a script's process (`Hardware`: `RpiGpio`, both gpiods, `I2c`, `Serial`, `NotifyPipes`,
`Vfs`, `Parts`, `Layout`), and what runs outside of it (`Deployment`: `Lifecycle`, `Simulator`,
`Scenario`). The components share no state, and a step is a step of one of them. Each of their properties
says for several components what it is that makes them correct.

## 4. Runs

| Run | Expect | Shows |
|---|---|---|
| `pins` | pass | 2 threads, every operation in one of them, 1 line, 1 watcher, a 1/3 blink, a toggler of any speed |
| `bridge_blink` | pass | the bridge on one line, all calls but `reset`, fair, prompt toggler |
| `bridge_race` | violation | script thread and network thread: the retained topic goes stale |
| `lgpio_claims` | pass | 2 threads with handles of their own or with one in common, or 1 thread with groups; 2 lines, 3 handles |
| `lgpio_group` | violation | a group whose member was freed: KeyError |
| `lgpio_alerts` | pass | 1 driver, 3 timers, both edges or falling edges only |
| `lgpio_watchdog` | violation | a TIMEOUT before its time |
| `mcu` | pass | an always-on node, sleepers with a buffer that runs full, with none, with and without the availability topic |
| `mcu_order` | violation | the connection comes up inside a round: newer readings first |
| `hardware` | pass | the other front ends, buses, files, parts, codecs and layouts, one at a time |
| `stack` | pass | the simulator's loop, the way of a scenario into its container, commands in one terminal and in two |
| `simulator_loop` | violation | a looped recording with one time: the loop does not see the stop event |

`MCHardware` is a `Hardware`, with `Codecs` beside it, and `MCStack` a `Deployment`. `which`, chosen in
`MCInit`, says which component a behaviour is about; the others rest. So one run
explores the sum of the components' states, not their product (`hardware`:
about 430,000 states, `stack`: about 617,000). What a component at work can do does not depend on the others,
and the proofs do not assume that they rest. A property of such a run is the conjunction of the components' own.

Bounds, and why they are enough:

* Every race of Pins is between two calls, or a call and the toggler, about
  one pin; pins share nothing but the toggler, whose wait is the minimum over
  the pins (the theorems cover any number). A period of three ticks, high for
  one, tells a high phase from a low one and lets the toggler be late by any
  part of a period.
* `Calls` of the `pins` run gives each operation to one of the two threads, so that
  those of either thread race with those of the other, and with the toggler.
  Its VIEW (`TimeShift`) takes states that differ only in the clock for one: the
  model looks at how long ago a PWM started, never at when.
* lgpio: a line is fought over by two handles; a third lets one be closed and
  another be used by the same thread; two lines make a group.
* Alerts: of three timers one can be past its wait, one waiting for the
  debounce and one for the watchdog. `on_change` waits for a free slot: the
  only place where the bound shows.
* MCU node: two readings fill a buffer of one and push one out. `MaxOut` = 2 lets a
  connection begin with both announcements of the last one unacknowledged; every
  race is between two connections in a row.
* Handles are never given twice: a thread opens each of its handles once.
* gpiod v2: two requests and their pipes let a released request's descriptor be given
  away while an edge is on its way; a buffer of two is full and half-read. v1: the same with two
  chips. Where `which` allows several lines (`V2Requests`, `V1Requests`) readers and drivers rest: what
  these are about is who holds a line. `MaxEvents` stops a driver, and shows nowhere else.
* RPi.GPIO: three programs, each a race the code guards against: setup and PWM against
  cleanup, detection against waits, wait against wait. Two alerts are as many as two waiters refer to,
  and two PWM objects are one that was dropped and the one made in its place.
* Claims: two threads with handles of their own, one alone with groups too, and two that share a handle, so
  that a line one has looked up is freed by the other.
* I2C: three registers make the pointer wrap; one address has a part, one has none.
* Serial: two readers, four bytes, of which one ends a line.
* Codecs: inputs at the limits, at halves, negative ones and out of range ones, with a grid between.
* Simulator: a device every 4, a node after 3, and delays of 2 and 5 let delayed readings overtake
  rounds, and overtake each other; a dropout is as long as a round, a stuck value shorter.
* Scenario: two of nine entries, some of which are only good or bad in company.
* Lifecycle: three commands in one terminal, or one in each of two; two boards, of which the smaller
  is too small for the shares; three stacks, one without services.

Deadlock is checked in the passing runs but `hardware` and `stack`: there a program or an operator may be
at the end of what they do (every event was made, every command typed), and waits without
a timeout (`read_edge_events`, a serial read) may last for ever.

Fairness:

* The blink run: every thread goes on with what it has begun (weak fairness),
  the toggler too, and the clock ticks (strong fairness: `Tick` is disabled whenever
  the prompt toggler is due). `Prompt` says that the toggler runs within the tick it is due in; a tick
  is a third of a period, and the code's fastest toggle is `TOGGLE_MAX_HZ` = 10 Hz.
  With a toggler of any speed blinking cannot be promised: it may find the
  same level at every wake-up. The safety runs do not assume it.
* The blink run has one thread for the calls, the network thread: with more, `bridge_race` shows
  what goes wrong.
* The alerts run: threads run on and timers run out in the end. Nobody has to
  change the level or to claim the line.
* The MCU run: the node's thread and the network thread go on, drops end, the
  broker and the onboarding flow handle what they get. Nobody has to connect:
  what must happen is promised for a connection that stays up, and a sleeper goes
  back to sleep without one (each of its waits has a timeout, `GiveUp`).
* The simulator's: the loop goes on with its turn (weak fairness). Nobody has to
  set the stop event, and nothing is assumed of the broker.

## 5. Proofs

Eight modules hold theorems: `GpioProofs` (of `Pins`, then of `GpioBridge` on top of it),
`LgpioClaimsProofs`, `LgpioAlertsProofs`, `McuProofs`, `GpiodProofs` (of `Gpiod2`, then of `Gpiod1`), `BoardProofs`
(of `Serial`, `I2c`, `Vfs`, `Parts` and `Layout`), `HardwareProofs` (of `RpiGpio`, of `NotifyPipes`, then of
`Hardware`) and `StackProofs` (of `Lifecycle` with `Budget` under it, of `Simulator`, of `Scenario`, then of
`Deployment`). They hold for every value of the constants that meets the modules' assumptions (`PinsAssumption`
and so on; threads and drivers are finitely many where edges are counted) or, where a module has none, that is
`Sensible` (`SensibleV1`, `SensibleBus`, `SensiblePipes`, `SensibleLoop`, `SensibleProject`, `SensibleDocument`, ...), a
hypothesis of their theorems: numbers where numbers are meant, `None` not one of the things it stands beside.
Three hypotheses are about who calls what: `LoneGroups`, `OnePwmThread` and `OneWorker`, below. Each
says what the code leaves to the script that uses it.

* **Pins.** `TypeOK` is inductive: a thread in the middle of a call or a report
  holds its arguments. `InputsReadTheirDrive` is inductive with it: the only
  step that writes a pin settles it under the lock. `NoLostToggler` needs both: a
  pin that is not an output has no PWM, so a pin only begins to toggle by the
  `Update` of a `set_pwm`, which is then `Notifying` until `Start`, and `Start` finds
  the toggler there or starts it; the toggler only ends in a `Scan` that found
  nothing toggling.
  `EdgesConserved` needs that a watcher is registered once (`EdgesInv`): a commit then changes the level and
  what is on its way by the same amount for each watcher, and a delivery moves one edge from there to `heard`. The sum
  over the threads is that of the edges up less the edges down, as cardinalities, of which a step changes one
  thread's.
  `NoOversleep` is arithmetic modulo the period: a tick brings the next edge of a PWM nearer by one or is the edge
  (`TickNearsEdge`), also where the clock turns over, because periods divide `Cycle` (`ClockTurns`); the toggler's
  sleep, a minimum over the pins, shrinks with it.
* **GpioBridge.** `BridgeImplementsPins`: each step of the bridge, the broker and the scripts is a step of `Pins` or
  leaves it alone, where the pins' program lets the network thread drive lines, as the bridge does. So the pins'
  theorems hold under the bridge. `PwmTopicIsCurrent` is proved under `OnePwmThread`: one thread makes all calls that can
  change a PWM, and any number make the others. The bridge is the only watcher there (`OnlyTheBridge`), what that thread
  reports is what the pin has (`ReportIsCurrent`), and so a topic that is behind has its report on the way
  (`TopicFollows`). With two such threads it fails, like `RetainedIsCurrent` in `bridge_race`.
* **LgpioClaims.** `NoTakeover` is an action property: the only step that gives a line to a handle is
  `ClaimLine`, under the lock. `LinesFollowClaims` and `CallsAnswerStatuses` are
  proved under `LoneGroups`: a thread that uses groups is the only one with any handle; handles may be shared
  otherwise. `Apart` says that where two calls with one handle are on one line the line is torn, whichever came first. So on
  a line that is not, a thread between its claim and its set-up, alert or write still holds the line
  (`ClaimsStand`), and a write finds the output set up (`WriteFindsOutput`). On a torn line both promises of the code fail: a
  `gpio_write` whose claim another thread frees ends in a `PinError`, although `hw/lgpio_stub.py:9` says errors are
  statuses, and a line freed between its claim and its set-up stays set up with no claim.
* **LgpioAlerts.** The invariant adds three parts to `TypeOK`. `References`: the
  timers a claim knows are the ones it started, in the state it left them in.
  `TimeoutsOwed`: an armed watchdog has not reported since the last edge.
  `ReportsOwed`: when the level is not the one reported, some driver or timer that is not stale is
  about to look at it. `AtMostOneTimeout` and `ReportedIsCurrent` follow.
  `AlertsConserved` needs `Quiet` (only who is at `report` has something to say); as for the pins' edges, an alert changes
  `reported` and what is on its way together, and a report moves it to `told`.
* **Mcu.** `ReadingsConserved` needs `Conserved`: what is on the wire or was taken by the broker is held no more, the buffer
  holds no reading twice, and only what was heard is acknowledged. `SleepingTold` needs `Owed` (the
  client remembers each "sleeping" that is on the wire or whose acknowledgement is, so that `_settle` cannot take an
  older one's for the last) and `Asleep`: from `_settle` to the disconnect the last word of the wire, or, when
  it is empty, the topic, is "sleeping", and afterwards the wire holds nothing but the DISCONNECT.
* **RpiGpio.** `WaitsKeepToThemselves` needs `Apart`: each wait has an alert of its own, and the channel's alert was
  taken from nobody. Then a removal leaves its waiter the alert, a new alert meets only waits whose alerts were
  taken, and a wait that ends meets its own alert or none. `PwmIsTheObjects` is proved under `OneWorker`: one thread
  sets the channel up and works the PWM object, the others may clean up at any time. A `set_pwm` that comes after the
  `cleanup` of another thread then finds the pin released, or about to be. If that other thread set the channel up
  again, or stopped the object between its change and its `set_pwm`, the late `set_pwm` would start PWM that no
  object runs: two threads that work the objects of one channel are left out, in the run as in the theorem.
* **Gpiod2.** One invariant (`Inv`) carries all three theorems. `Calls`: what a call in progress may rely on, place by
  place. `Closers`: one thread releases a request, because `released` is set under the lock. `PipesApart`: no two requests
  that have not closed their pipe share one, and none is closed. With it `HeldByTheLive` (lines are taken and
  given back under the lock, with the request) and `NoMissedWakeup` (a late byte can only reach a pipe that is open
  again, and adds to it) are inductive, and `BuffersEvents` is a simulation step by step.
* **Gpiod1.** `InvV1` likewise. `LinesInOrder` ties a line's request to `_held`, its events and its pipe; `Configuring`
  says the same of the lines that a bulk request has still to set up (`OneHolder`'s other half: a line that is held is
  one of these, or stranded); `OwnPipes` that no two lines share a pipe, nor a
  line and a release that has still to close one. An edge is queued in one piece, and so `FdSignalsEvents` is an
  equation here: each step that changes a buffer changes its own pipe by as much. `Reading` is the rule that nobody
  releases a line that another thread reads; without it a late read would take its byte from another line's pipe.
* **Serial.** `Types` adds the calls to `TypeOK`. `BuffersEvents` is a simulation step by step: a
  byte that arrives is a `Put`, a read of n > 0 bytes a `Take`, a flush a `Drop`, the rest stutters.
  `LinesInOrder` needs `Ordered`: what waits is in order too, and nothing is newer than `arrived`. The
  hard step is `read_until`'s, where the first byte of `rx` goes to the end of a line (`FirstMoves`),
  while the other readers' lines stay older than what is left.
* **I2c.** `ReadsAreWhole` needs `SetsFirst` (a call of several transfers sets the pointer before it reads) and
  `KeepsLock`: a combined call that has begun holds the bus lock until it is over. So only its own transfers move
  the pointer between them, and they move it as far as the call has read.
* **Vfs.** `FreshReads` needs `SamplesAreNewer`: while a thread has a sample in hand that it has not written, every open
  that has begun is older than that sample. So a `write` by whichever thread makes the copy fresh for all of them
  (`CopiesAreFresh`), and a reader has a sample of its own time, or the empty file another one is about to write.
* **Parts.** `SettingsHold` is inductive: a setting is acknowledged in the same step that measures, and what a dropout
  cuts short is refused.
* **Layout.** `LayoutInv` says what is attached is what the accepted document says. `OnePartEach` (the check of
  `parse`) makes each place's last part its only one; `IdsDiffer`: a made-up id counts the sensors without a serial
  number before it, and these sets grow strictly; `AllThere` counts the parts on the buses and the sensors.
* **NotifyPipes.** `PipesAreOpen` needs `Taken`: between its lock and the close of the file,
  `notify_close`'s pipe is in `_notify` no more, and its handle, once made, is not given again.
  `BuffersEvents` as for the serial port (`Fifos` says what each step does to a FIFO).

* **Lifecycle.** `RollBacksSpare` needs `Spares`: what has run since before a command runs still, a stack that
  the command found at rest is not one of these, and nor is any that it has started, but for the stacks that are `unseen`:
  those a roll back does stop, although `_roll_back`'s docstring (`commands/up.py:334`) says that it leaves what ran
  before. Terminals share the stacks, so
  each step is looked at from every terminal. `LimitsStayKnown` needs `Known`: while `overlapped` is false at most one
  terminal is in the middle of a command; containers are down before their overlay is dropped or removed; and
  `profile switch` gives limits only to stacks that have an overlay. `Sensible` asks that a command's stacks are a
  sequence of stacks and `None` is no overlay.
  `LimitsStayFit` needs `Fitting`: what is in an overlay, in a container, or about to be written by a profile
  switch, is sized for its service out of the shares of all enabled stacks (`OfBoard`), as long as no stack that is
  not enabled has been started; and a cpuset is of the host's cores, because `up` and `switch` refuse an automatic
  one that the host lacks. That sizes of the same board fit it together is `BoardFits`: what the fixed shares leave
  is what the others are scaled to (`budget_scale`), cutting off makes no size larger, rounding makes a CPU limit
  larger by at most a hundredth, and only a size that was raised to its minimum is above its share. The sums are
  functions on the subsets of the services (`IsSum`), and what holds of them is shown by `SetInduction` over sizes.
  `SensibleProject` asks what the loaders let pass (`profiles/loader.py`: CPUs above 0,
  at least 6 MB, swap not below memory; `profiles/shares.py`: shares of at most 1), of known stacks,
  and that a profile's name, a file's, is its own.
* **Simulator.** `LoopOnTime` refines `OnTime` by what each place of the turn has already seen to: after `devices`
  no device is due, after `nodes` no node, and so on, so that the shortest of `times` is not behind when the loop goes
  to sleep, and a sleep of that length, with `Busy` and `Jitter`, makes nothing later than their sum. The head of
  the heap stands for the rest only because `hold` sorts (`Heaped`: counting the places of the pushed
  readings is a bijection). `LoopQuiet` gives a delayed reading a lower bound of its age, so that a dropout that began
  since cannot be as old. `SensibleLoop` asks for times that are not negative, a recording that is sorted
  (`load` sorts it), devices and nodes that are not the same and finitely many faults; an interval may be 0.

* **Scenario.** `AcceptedRuns` is proved from `ScenInv`: the document is one that the entries make, and what was
  started is what `_run_options` made of options that `start` did not refuse. Then, link by link: the
  mounts are of different directories, so that each name in the container leads to the file that the host has read
  (`MountsApart`, `InsideAgrees`); so feeds, measurements, devices, and then whole documents are the same on either
  side (`SameFeed` up to `SameDocument`); and what the host accepts is well defined (`DocumentsRun`): a wave that
  passed the checks stays within its bounds where it is clamped, the windows of a WAV file follow each other
  round its end (`WindowsFollow`, arithmetic modulo its length), a fault names a measurement that there is.
  `FlattenSeq` and `SetToSeq`, with which devices and mounts are collected, are recursive or a choice; what they return is shown by
  `SetInduction` over the number of entries (`FlattenedAre`) and from the existence of a bijection (`SetToSeqIs`). `SensibleDocument`
  asks that WAV files have a rate and a length, that counts are integers, that the speed
  of an option's recording is not negative (the command line refuses others), and that the simulator's own prefix
  can be a part of a topic.
* **Hardware and Deployment.** A step of one component leaves the others' variables alone, and so the
  composition implements each component's specification (`PartsOfHardware`, `PartsOfDeployment`). The theorems
  about the gpiods and the board come from instances of `GpiodProofs` and `BoardProofs`, with the lines, threads and
  variables that they have in a process (`V2Facts`, `V1Facts`, `PortFacts`, `BusFacts`). `V2AsProved`, `V2Shows` and their like say that the
  specifications and properties are the same there. `SensibleHardware` is all
  the components' hypotheses, at the same time. It, `SensibleLoop` and `SensibleDocument` hold in the instances that are checked.

So what `hardware` and `stack` check is proved, for any values of their constants, but for `CodecsAgree`.

Only model-checked: `CodecsAgree`. The codecs compute with bitwise operators and by recursion over data (a CRC, the bytes of
an answer), for which the library's inductions are over an operator, and the provers do not take one; only an induction over a set of
numbers is within their reach (`SetInduction`). Liveness (`TopicBlinks`, `EventuallyReported`, `SettlesOnceUp`, `EventuallyHeard`,
`SleepsAgain`) is out of the prover's reach, too.

## 6. What the violations show

* `bridge_race`: `emu/gpio/<pin>/state` can stay at an old level until the next
  change. Two threads, or a thread and a new connection, publish in the
  opposite order of their commits.
* `lgpio_group`: `gpio_free` of a member leaves the group behind, and
  `group_read` raises `KeyError` where the module promises a negative status.
* `lgpio_watchdog`: `_timeout` takes any armed watchdog for its own. One that ran
  out while an edge alert restarted it reports at once, and the new one stays silent.
* `mcu_order`: a round that starts offline and ends connected publishes its readings
  before those in the buffer.
* `simulator_loop`: the period of a looped recording is its span and the median of its gaps. When all its
  records have one time that is 0, and `pop_due` finds the next lap due for ever: the loop neither
  publishes anything else nor sees SIGTERM. `parse_scenario` and `load` accept such a recording.

The `mcu` run needs an exception: `SettlesOnceUp` fails without `missed`. When the
connection breaks and comes back while `_announce` runs, its last line overwrites
the `announced = False` of `_on_connect`, and the topic stays at "offline" until the
next connection. And `stop()` leaves "online" on the topic, since the disconnect is clean.

## 7. Not modelled

Components:

* `status`, `report`, `logs`, `setup`, `run` and the utilities behind them print what Docker and the
  host say, or exec a script: pure I/O.
* Of `calibration`, the benchmark and its file. (`save` loads, changes and writes it without a
  lock, so that of two calibrations at a time one is lost.)
* The curves of the generators, the pixels and tones of `media.py`, the tables of `board.py`, and the
  BME280's pressure formula, whose 64-bit products are beyond TLC's integers.
* The parsing of profiles, of shares' files and of MQTT payloads, the options of Docker, and the replacement of
  modules in `sys.modules`.
* The queries that change nothing, terminal output, formatting.

In the modelled parts: float phases (ticks stand for them), a change of PWM frequency across periods (no run
has two), handle numbers beyond 65536, lgpio's groups used beside other threads,
the order in which two alerts of a line reach the callbacks, a node that reconnects before the broker
has read the last of its cleanly closed connection, and a script that uses two front ends on one line.
(lgpio's `_free` calls `pins.release`, and so the other front ends' watchers, under lgpio's lock. Those take
locks of their own but call nothing that takes lgpio's, so that only a script's callback could close
the circle.)

The models have these behaviours of the code, and no property speaks against them, because no text of the
repository does:

* gpiod v1: a request for events that runs out of descriptors leaves lines held that nobody can release.
* gpiod v2: the byte of an edge that was on its way when its request was released goes to whoever has the
  descriptor by then. `EventsWakeReaders` therefore asks for a byte per event at least; a reader that wakes up in vain
  waits on. In both versions `pins.release` comes after the line is free, and may undo the set-up of
  whoever requested it meanwhile.
* RPi.GPIO: `wait_for_edge` joins an edge detection that has no callbacks, whatever its edge.
* lgpio: `gpio_claim_alert` finds the pipe in one lock and gives it to the claim in the next.
* I2C: `i2c_rdwr` and `block_process_call` can be torn by another thread's transfer. An ADS1115 keeps
  the configuration that was written when its conversion drops out.
* Virtual files: a reader can find the copy empty while another one has it rewritten. A DS18B20 with an explicit
  serial number can meet the same number made up for another one.
* Simulator: a reading held back by a delay is published though its device is silent by
  then. An interval of 0, on the command line or in the environment, is not refused, and `AcceptedRuns` asks nothing
  of it; nor is, in the environment, a replay speed of 0 with a loop.
* Stacks: `up` on a stack that runs already rewrites its overlay, also when it then fails. Limits are
  scaled by the stacks of the project at the time: without a manifest, or for stacks enabled later, they do not
  fit together (`strays` are those). `profile switch` at the same time as `down` can write an overlay again
  that `down` has removed. `up` writes an overlay before it starts the stack, so that a crash can leave one for a
  stack that does not run with it.
