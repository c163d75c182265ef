------------------------------ MODULE Scenario ------------------------------
(***************************************************************************)
(* p4n4_emu/sim/scenario.py, and how commands/sim.py hands a scenario to   *)
(* the simulator's container, where sensor_sim.resolve_scenario() reads it *)
(* again.                                                                  *)
(*                                                                         *)
(* A scenario is a document that the user writes entry by entry.  It is    *)
(* checked on the host, then mounted into the container with the files it  *)
(* names, and checked again there; command line options reach the          *)
(* container as environment variables.  A file is written as a name, which *)
(* resolves to a path, <<folder, base name>>.  Values are in hundredths,   *)
(* probabilities in percent.                                               *)
(***************************************************************************)
EXTENDS Integers, Sequences, FiniteSets, SequencesExt, TLC

CONSTANTS
    Entries,    \* devices: [stem, n, count, interval, measurements, faults, mcu]
    Replays,    \* replays: [file, speed, loop, devices]
    Options,    \* of the command line: [interval, devices, qos, retain, replay]
    Where,      \* the files that are there: the path of each name as written
    Rate, Length,   \* the sample rate and length of the WAV files, by path
    N,          \* the {n} of an id
    NotLevels,  \* the ids that can't be topic levels
    MaxEntries, \* a bound of the model
    None, Refused

VARIABLES
    doc,        \* the document: [devices, replays]; None when there is no file
    started     \* what start_simulator() makes of it: None, Refused or [args, env]

vars == <<doc, started>>

-----------------------------------------------------------------------------
(* dataclasses.replace(): what is given, and the defaults of the rest. *)
replace(base, given) ==
    [k \in DOMAIN given \cup DOMAIN base |-> IF k \in DOMAIN given THEN given[k] ELSE base[k]]

(* _wave(): a built-in one with settings changed, or a new one. *)
Wave == [base |-> 0, amplitude |-> 0, noise |-> 0, period |-> 30000, min |-> None, max |-> None]

BUILTIN_WAVES ==
    [temperature |-> [Wave EXCEPT !.base = 2200, !.amplitude = 300, !.noise = 10],
     humidity    |-> [Wave EXCEPT !.base = 5500, !.amplitude = 1000, !.noise = 50,
                                  !.min = 1000, !.max = 9500],
     pressure    |-> [Wave EXCEPT !.base = 101325, !.amplitude = 200, !.noise = 5]]

Builtin(name) == name \in DOMAIN BUILTIN_WAVES

WaveOf(name, given) == replace(IF Builtin(name) THEN BUILTIN_WAVES[name] ELSE Wave, given)

InOrder(w) == w.min # None /\ w.max # None => w.min <= w.max

IsWave(name, s) ==
    /\ DOMAIN s.given \subseteq DOMAIN Wave
    /\ Builtin(name) \/ "base" \in DOMAIN s.given
    /\ LET w == WaveOf(name, s.given) IN w.noise >= 0 /\ w.period > 0 /\ InOrder(w)

(* generators.wave(): first the minimum, then the maximum. *)
Clamped(w, x) ==
    LET y == IF w.min # None /\ x < w.min THEN w.min ELSE x
    IN  IF w.max # None /\ y > w.max THEN w.max ELSE y

-----------------------------------------------------------------------------
(* _feed(), and how many values one reading of it has. *)
Feed == [encoding |-> None, noise |-> 5, width |-> 96, height |-> 96, channels |-> 3,
         sample_rate |-> 16000, window |-> 100, frequency |-> 44000, amplitude |-> 50, file |-> None]

FEED_KEYS == [image |-> {"width", "height", "channels", "encoding", "noise"},
              audio |-> {"sample_rate", "window", "frequency", "amplitude", "noise", "file", "encoding"}]

FEED_ENCODINGS == [image |-> {"packed", "uint8", "float"}, audio |-> {"int16", "float"}]

FeedOf(kind, given, path) ==
    LET f == replace([Feed EXCEPT !.encoding = IF kind = "image" THEN "packed" ELSE "int16"], given)
    IN  IF f.file = None THEN f ELSE [f EXCEPT !.file = path[@], !.sample_rate = Rate[path[f.file]]]

IsFeed(s, path) ==
    /\ s.kind \in DOMAIN FEED_KEYS /\ DOMAIN s.given \subseteq FEED_KEYS[s.kind]
    /\ "file" \in DOMAIN s.given => s.given.file \in DOMAIN path /\ path[s.given.file] \in DOMAIN Rate
    /\ LET f == FeedOf(s.kind, s.given, path)
       IN  /\ f.encoding \in FEED_ENCODINGS[s.kind]
           /\ f.width >= 1 /\ f.height >= 1 /\ f.sample_rate >= 1 /\ f.channels \in {1, 3}
           /\ f.window > 0 /\ f.frequency > 0
           /\ {f.noise, f.amplitude} \subseteq 0..100

features(kind, f) ==
    IF kind = "image" THEN f.width * f.height * (IF f.encoding = "packed" THEN 1 ELSE f.channels)
    ELSE (f.sample_rate * f.window) \div 100

(* wav_windows(): where in the file the k-th window starts. *)
wav_windows(f, k) ==
    LET pos[i \in 0..k] == IF i = 0 THEN 0 ELSE (pos[i - 1] + features("audio", f)) % Length[f.file]
    IN  pos[k]

-----------------------------------------------------------------------------
(* _measurements(): raw takes no settings. *)
IsMeasurement(name, s, path) ==
    CASE name = "raw"                    -> s.kind = "null"
      [] name # "raw" /\ s.kind = "null" -> Builtin(name)
      [] name # "raw" /\ s.kind = "wave" -> IsWave(name, s)
      [] OTHER                           -> IsFeed(s, path)

MeasurementOf(name, s, path) ==
    CASE name = "raw" -> [kind |-> "raw"]
      [] name # "raw" /\ s.kind = "null" -> [kind |-> "wave", wave |-> BUILTIN_WAVES[name]]
      [] name # "raw" /\ s.kind = "wave" -> [kind |-> "wave", wave |-> WaveOf(name, s.given)]
      [] OTHER -> [kind |-> s.kind, feed |-> FeedOf(s.kind, s.given, path)]

FAULT_SETTINGS ==
    [spike |-> {"magnitude"}, stuck |-> {"duration"}, drift |-> {"rate"},
     dropout |-> {"duration"}, delay |-> {"seconds"}, malformed |-> {}]

VALUE_FAULTS == {"spike", "stuck", "drift"}

(* _fault(): rolled with a probability for the readings it applies to. *)
IsFault(f, measurements) ==
    /\ f.type \in DOMAIN FAULT_SETTINGS /\ DOMAIN f.given \subseteq FAULT_SETTINGS[f.type]
    /\ f.probability \in 0..100
    /\ f.measurement # None =>
          /\ f.measurement \in DOMAIN measurements
          /\ f.type \in VALUE_FAULTS => measurements[f.measurement].kind = "wave"
    /\ \A k \in DOMAIN f.given \ {"rate"} : f.given[k] >= 0
    /\ f.type = "delay" => "seconds" \in DOMAIN f.given /\ f.given.seconds > 0

Mcu == [boot |-> 200, sleep |-> None, probability |-> 0, duration |-> 3000, buffer |-> 0]

IsMcu(m) ==
    /\ DOMAIN m \subseteq DOMAIN Mcu
    /\ LET mcu == replace(Mcu, m)
       IN  /\ mcu.boot >= 0 /\ (mcu.sleep # None => mcu.sleep > 0)
           /\ mcu.probability \in 0..100 /\ mcu.duration > 0 /\ mcu.buffer >= 0

(* The ids of an entry's devices: {n} is replaced by 0, 1 and so on. *)
Ids(e) == [i \in 1..e.count |-> <<e.stem, IF e.n = N THEN i - 1 ELSE e.n>>]

MeasurementsOf(e, path) ==
    [name \in DOMAIN e.measurements |-> MeasurementOf(name, e.measurements[name], path)]

IsDevice(e, path) ==
    /\ e.count >= 1 /\ (e.count > 1 => e.n = N)
    /\ e.stem \notin NotLevels
    /\ DOMAIN e.measurements # {}
    /\ \A name \in DOMAIN e.measurements : IsMeasurement(name, e.measurements[name], path)
    /\ \A f \in e.faults : IsFault(f, MeasurementsOf(e, path))
    /\ e.interval # None => e.interval > 0
    /\ e.mcu # None => IsMcu(e.mcu)

_devices(e, path) ==
    [i \in 1..e.count |->
        [id |-> Ids(e)[i], measurements |-> MeasurementsOf(e, path), faults |-> e.faults,
         interval |-> e.interval, mcu |-> IF e.mcu = None THEN None ELSE replace(Mcu, e.mcu)]]

IsReplay(r, path) ==
    /\ r.file \in DOMAIN path /\ r.speed >= 0 /\ (r.loop => r.speed # 0)
    /\ \A id \in DOMAIN r.devices : r.devices[id] \notin NotLevels

-----------------------------------------------------------------------------
Devices(d, path) == FlattenSeq([i \in DOMAIN d.devices |-> _devices(d.devices[i], path)])

UsedTwice(d, path) ==
    LET D == Devices(d, path) IN \E i, j \in DOMAIN D : i # j /\ D[i].id = D[j].id

(* parse_scenario() accepts it, where path says where the files are. *)
IsScenario(d, path) ==
    /\ \A i \in DOMAIN d.replays : IsReplay(d.replays[i], path)
    /\ d.devices = <<>> => d.replays # <<>>
    /\ \A i \in DOMAIN d.devices : IsDevice(d.devices[i], path)
    /\ ~UsedTwice(d, path)

parse_scenario(d, path) ==
    [devices |-> Devices(d, path), interval |-> 200, qos |-> 0, retain |-> FALSE,
     replays |-> [i \in DOMAIN d.replays |-> [d.replays[i] EXCEPT !.file = path[@]]]]

FilesOf(s) ==
    IF "given" \in DOMAIN s /\ "file" \in DOMAIN s.given THEN {s.given.file} ELSE {}

(* Scenario.files: the names that it has resolved. *)
Named(d) ==
    {d.replays[i].file : i \in DOMAIN d.replays} \cup
    UNION {UNION {FilesOf(d.devices[i].measurements[m]) : m \in DOMAIN d.devices[i].measurements} :
              i \in DOMAIN d.devices}

default_scenario(n) ==
    [devices |-> [i \in 1..n |->
        [id |-> <<"emu-sensor-", i - 1>>, faults |-> {}, interval |-> None, mcu |-> None,
         measurements |-> [m \in DOMAIN BUILTIN_WAVES \cup {"raw"} |->
             IF m = "raw" THEN [kind |-> "raw"] ELSE [kind |-> "wave", wave |-> BUILTIN_WAVES[m]]]]],
     interval |-> 200, qos |-> 0, retain |-> FALSE, replays |-> <<>>]

-----------------------------------------------------------------------------
WriteDevice(e) ==
    /\ started = None /\ doc # None /\ Len(doc.devices) < MaxEntries
    /\ doc' = [doc EXCEPT !.devices = Append(@, e)]
    /\ UNCHANGED started

WriteReplay(r) ==
    /\ started = None /\ doc # None /\ Len(doc.replays) < 1
    /\ doc' = [doc EXCEPT !.replays = Append(@, r)]
    /\ UNCHANGED started

(* Bug: a file is mounted under its base name. *)
MountedByName(names, i) == <<"files", 1, Where[names[i]][2]>>

(* Where the container finds the i-th of the files that a scenario names. *)
Mounted(names, i) == <<"files", i, Where[names[i]][2]>>

(* The file that the container has there: of several, the one mounted last. *)
Mounts(names) ==
    [p \in {Mounted(names, i) : i \in DOMAIN names} |->
        Where[names[CHOOSE i \in DOMAIN names :
            /\ Mounted(names, i) = p
            /\ \A j \in i + 1..Len(names) : Mounted(names, j) # p]]]

(* _run_options(): what is mounted where, and SIM_FILES, SIM_INTERVAL_SEC… *)
_run_options(o) ==
    LET names == IF doc = None THEN <<>> ELSE SetToSeq(Named(doc))
    IN  [scenario |-> doc,
         files |-> [n \in Range(names) |-> Mounted(names, CHOOSE i \in DOMAIN names : names[i] = n)],
         mounts |-> Mounts(names),
         replay |-> IF o.replay = None THEN None ELSE [o.replay EXCEPT !.file = Where[@]],
         interval |-> o.interval, devices |-> o.devices, qos |-> o.qos, retain |-> o.retain]

(* start_cmd() and start_simulator(). *)
Refuses(o) ==
    \/ o.replay # None /\ (o.replay.file \notin DOMAIN Where \/ (o.replay.loop /\ o.replay.speed = 0))
    \/ doc # None /\ o.devices # None
    \/ doc # None /\ ~IsScenario(doc, Where)

start_simulator(o) ==
    /\ started = None
    /\ started' = IF Refuses(o) THEN Refused ELSE [args |-> o, env |-> _run_options(o)]
    /\ UNCHANGED doc

Override(s, e) ==
    [s EXCEPT !.interval = IF e.interval # None THEN e.interval ELSE @,
              !.qos = IF e.qos # None THEN e.qos ELSE @,
              !.retain = IF e.retain # None THEN e.retain ELSE @,
              !.replays = IF e.replay # None THEN Append(@, e.replay) ELSE @]

(* The files of SIM_FILES, in the container. *)
Inside(e) == [n \in DOMAIN e.files |-> e.mounts[e.files[n]]]

(* resolve_scenario(), in the container, from the environment. *)
resolve_scenario(e) ==
    LET alone == e.devices = None /\ e.replay # None
        count == IF e.devices = None THEN 1 ELSE e.devices
    IN  Override(CASE e.scenario # None -> parse_scenario(e.scenario, Inside(e))
                   [] e.scenario = None /\ alone -> default_scenario(0)
                   [] OTHER -> default_scenario(count),
                 e)

Init ==
    /\ doc \in {None, [devices |-> <<>>, replays |-> <<>>]}
    /\ started = None

Next ==
    \/ \E e \in Entries : WriteDevice(e)
    \/ \E r \in Replays : WriteReplay(r)
    \/ \E o \in Options : start_simulator(o)

Spec == Init /\ [][Next]_vars

-----------------------------------------------------------------------------
IsStarted == started # None /\ started # Refused

TypeOK ==
    /\ doc # None => Len(doc.devices) <= MaxEntries /\ Len(doc.replays) <= 1
    /\ IsStarted => started.args \in Options /\ started.env.scenario = doc

(* The container runs what the host has checked: the document's devices    *)
(* and replays, with the very files they name, or the default ones, and    *)
(* the options of the command line.                                        *)
SameInside ==
    LET o == started.args
        s == resolve_scenario(started.env)
        own == IF doc = None THEN <<>> ELSE parse_scenario(doc, Where).replays
    IN  /\ IF doc # None
           THEN s.devices = Devices(doc, Where) /\ IsScenario(doc, Inside(started.env))
           ELSE Len(s.devices) = CASE o.devices # None -> IF o.devices > 0 THEN o.devices ELSE 0
                                   [] o.devices = None /\ o.replay # None -> 0
                                   [] OTHER -> 1
        /\ s.replays = own \o (IF o.replay = None THEN <<>>
                               ELSE <<[o.replay EXCEPT !.file = Where[@]]>>)
        /\ s.interval = IF o.interval = None THEN 200 ELSE o.interval
        /\ o.qos # None => s.qos = o.qos
        /\ o.retain # None => s.retain = o.retain

(* What the simulator does with an accepted scenario is well-defined: each *)
(* device has topics of its own, each fault a reading to change, a wave's  *)
(* values lie between its bounds once they are merged with the built-in    *)
(* one's, a feed's windows follow each other through its file, and what is *)
(* sent all at once (speed 0) is sent once.  How often it publishes is not *)
(* asked: --interval takes any number, 0 too, and a loop whose records     *)
(* have one time is accepted, which Simulator's StopsWhenTold is about.    *)
Runs(s) ==
    /\ \A i, j \in DOMAIN s.devices : i # j => s.devices[i].id # s.devices[j].id
    /\ \A i \in DOMAIN s.replays : s.replays[i].loop => s.replays[i].speed > 0
    /\ \A i \in DOMAIN s.devices :
        LET d == s.devices[i]
            M == d.measurements
        IN  /\ d.id[1] \notin NotLevels /\ DOMAIN M # {}
            /\ \A f \in d.faults : f.measurement # None /\ f.type \in VALUE_FAULTS =>
                    M[f.measurement].kind = "wave"
            /\ \A m \in DOMAIN M :
                /\ M[m].kind = "wave" =>
                    LET w == M[m].wave IN \A x \in {w.base - w.amplitude, w.base, w.base + w.amplitude} :
                        /\ w.min # None => Clamped(w, x) >= w.min
                        /\ w.max # None => Clamped(w, x) <= w.max
                /\ M[m].kind = "audio" /\ M[m].feed.file # None =>
                    \A k \in 0..3 : wav_windows(M[m].feed, k)
                                        = (k * features("audio", M[m].feed)) % Length[M[m].feed.file]

(* And there is something to publish, unless the command line asked for no *)
(* devices (--devices takes any number).                                   *)
Publishes(s) == s.devices # <<>> \/ s.replays # <<>>

AsksForNone(o) == o.devices # None /\ o.devices <= 0

AcceptedRuns ==
    IsStarted => LET s == resolve_scenario(started.env)
                 IN  SameInside /\ Runs(s) /\ (Publishes(s) \/ AsksForNone(started.args))
=============================================================================
