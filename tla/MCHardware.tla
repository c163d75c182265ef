----------------------------- MODULE MCHardware -----------------------------
(***************************************************************************)
(* The hardware of a script's process of which one component is used:      *)
(* "which" chooses it, and the others rest; and the conversions of the     *)
(* parts (Codecs).  Either gpiod is used in two ways: one line, with a     *)
(* reader and a driver, and requests of several lines without them.        *)
(***************************************************************************)
EXTENDS Hardware, TLC

CONSTANTS o1, o2, r1, d1, t1, t2, s1, s2, c1

VARIABLES which, done

-----------------------------------------------------------------------------
ThePrograms ==
    {(t1 :> {"setup", "output", "pwm"}) @@ (t2 :> {"cleanup"}),
     (t1 :> {"setup", "detect", "callback", "remove", "detected"}) @@ (t2 :> {"wait", "timeout"}),
     (t1 :> {"wait", "setup", "detect"}) @@ (t2 :> {"wait", "timeout", "remove"})}

BothEdges == {[edge |-> {0, 1}, debounce |-> TRUE]}

Entry(part, at_bus, at, fine) == [part |-> part, bus |-> at_bus, at |-> at, fine |-> fine]

TheEntries ==
    {Entry("bme280", 1, 118, TRUE), Entry("bme280", 2, 118, TRUE),
     Entry("bme280", 1, 104, TRUE), Entry("mpu6050", 1, 104, TRUE),
     Entry("mcp3008", 0, 0, TRUE), Entry("ds18b20", 0, None, TRUE),
     Entry("ds18b20", 0, "0123456789ab", TRUE), Entry("loopback", 0, "/dev/ttyUSB0", TRUE),
     Entry("loopback", 0, "/dev/ttyUSB0", FALSE)}

Datasheet == INSTANCE Codecs WITH
    Temperatures <- {-40000 + 3125 * k : k \in 0..40} \cup
                    {-60000, -55000, 125000, 130000, -31, 31, 32, -94, 94},
    Climates <- {-4000 + 625 * k : k \in 0..20}, Humidities <- {0, 35, 100},
    Voltages <- {5, 1299, 3300}, Ranges <- {6144, 4096, 2048, 1024, 512, 256},
    Accelerations <- {-17000, -2000, -31, 0, 1, 15, 31, 999, 1500, 2000, 16100},
    Scales <- {16384, 8192, 4096, 2048}, Lengths <- {1, 3}

-----------------------------------------------------------------------------
Components == {"v2", "v2 lines", "v1", "v1 bulk", "rpi", "bus", "port", "fifo", "files", "board",
               "document", "datasheet"}

MCInit ==
    /\ which \in Components
    /\ HardwareInit /\ Datasheet!Init
    /\ which # "rpi" => \A t \in Threads : "remove" \notin program[t]
    /\ which # "bus" => \A s \in Scripts : buslibrary[s] = "smbus"
    /\ which # "port" => \A s \in Scripts : library[s] = "lgpio" /\ timeout[s] = "none"

V2Requests ==
    (\E o \in Owners : V2!Owner(o)) /\ UNCHANGED <<vars, v1, bus, port, fifo, scratch, parts, document>>

V1Requests ==
    (\E o \in Owners : V1!Owner(o)) /\ UNCHANGED <<vars, v2, bus, port, fifo, scratch, parts, document>>

MCNext ==
    /\ UNCHANGED which
    /\ \/ /\ UNCHANGED done
          /\ \/ which = "v2" /\ V2Step /\ \A r \in Requests : req'[r].lines \subseteq {1} /\ req'[r].seqno[1] <= 2
             \/ which = "v2 lines" /\ V2Requests
             \/ which = "v1" /\ V1Step /\ held'[2] = None
             \/ which = "v1 bulk" /\ V1Requests /\ \A o \in Owners : v1call'[o].kind # "falling"
             \/ which = "rpi" /\ RpiStep
             \/ which = "bus" /\ BusStep
             \/ which = "port" /\ PortStep
             \/ which = "fifo" /\ FifoStep
             \/ which = "files" /\ FileStep
             \/ which = "board" /\ PartStep /\ taken' <= 2
             \/ which = "document" /\ DocumentStep
       \/ /\ which = "datasheet" /\ Datasheet!Next
          /\ UNCHANGED <<vars, v2, v1, bus, port, fifo, scratch, parts, document>>

MCSpec ==
    MCInit /\ [][MCNext]_<<which, done, vars, v2, v1, bus, port, fifo, scratch, parts, document>>

-----------------------------------------------------------------------------
(* What each part answers is what its driver reads out of it.              *)
CodecsAgree == Datasheet!CodecsAgree
=============================================================================
