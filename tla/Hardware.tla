------------------------------ MODULE Hardware ------------------------------
(***************************************************************************)
(* What a script's process may use, side by side: RPi.GPIO (RpiGpio), both *)
(* gpiod front ends, an I2C bus and a serial port, lgpio's notification    *)
(* pipes, the files of /sys and /dev, the parts on the buses, and the      *)
(* layout that puts them there.  They share no state but pins, of which    *)
(* each models what it uses: a step is one of them.                        *)
(***************************************************************************)
EXTENDS RpiGpio, Sequences

CONSTANTS
    Lines, Owners, Readers, Pipes, MaxEvents,           \* of either gpiod
    Requests, Bundles, Settings, BufferSize,            \* of v2
    Bulks, LineTypes, EventBuffer,                      \* of v1
    Scripts, Addresses, Attached, Registers, Counts, BusLibraries,
    Libraries, Timeouts, Sizes, Answers, Capacity, MaxBytes, LF,
    Handles, Callbacks, Reporters, MaxReports, Unclaimed,
    Paths, Dynamic, MaxSamples, Channels,
    Entries, MaxParts

VARIABLES
    requested, v2pin, req, v2pipes, v2pc, v2call,
    held, v1pin, state, v1pipes, given, stranded, v1pc, v1call,
    buslibrary, busopen, pointer, silent, buslock, buscall,
    library, timeout, open, rx, arrived, call,
    notify, file, content, sent, claim, claiming, closing, listeners, reporting,
    installed, files, copy, sample, lock, filepc, path, since, got,
    taken, bme, ads, mpu, refused,
    doc, verdict, board, onewire, nodes

V2 == INSTANCE Gpiod2 WITH pin <- v2pin, pipes <- v2pipes, pc <- v2pc, call <- v2call

V1 == INSTANCE Gpiod1 WITH
    Kinds <- LineTypes, pin <- v1pin, pipes <- v1pipes, pc <- v1pc, call <- v1call

Bus == INSTANCE I2c WITH
    Libraries <- BusLibraries, library <- buslibrary, open <- busopen, lock <- buslock, call <- buscall

Port == INSTANCE Serial

Fifo == INSTANCE NotifyPipes WITH callbacks <- listeners, calls <- reporting

Files == INSTANCE Vfs WITH pc <- filepc

Board == INSTANCE Parts WITH sample <- taken

Document == INSTANCE Layout

-----------------------------------------------------------------------------
v2 == <<requested, v2pin, req, v2pipes, v2pc, v2call>>
v1 == <<held, v1pin, state, v1pipes, given, stranded, v1pc, v1call>>
bus == <<buslibrary, busopen, pointer, silent, buslock, buscall>>
port == <<library, timeout, open, rx, arrived, call>>
fifo == <<notify, file, content, sent, claim, claiming, closing, listeners, reporting>>
scratch == <<installed, files, copy, sample, lock, filepc, path, since, got>>
parts == <<taken, bme, ads, mpu, refused>>
document == <<doc, verdict, board, onewire, nodes>>

HardwareInit ==
    /\ Init /\ V2!Init /\ V1!Init /\ Bus!Init /\ Port!Init /\ Fifo!Init /\ Files!Init
    /\ Board!Init /\ Document!Init

RpiStep == Next /\ UNCHANGED <<v2, v1, bus, port, fifo, scratch, parts, document>>

V2Step == V2!Next /\ UNCHANGED <<vars, v1, bus, port, fifo, scratch, parts, document>>

V1Step == V1!Next /\ UNCHANGED <<vars, v2, bus, port, fifo, scratch, parts, document>>

BusStep == Bus!Next /\ UNCHANGED <<vars, v2, v1, port, fifo, scratch, parts, document>>

PortStep == Port!Next /\ UNCHANGED <<vars, v2, v1, bus, fifo, scratch, parts, document>>

FifoStep == Fifo!Next /\ UNCHANGED <<vars, v2, v1, bus, port, scratch, parts, document>>

FileStep == Files!Next /\ UNCHANGED <<vars, v2, v1, bus, port, fifo, parts, document>>

PartStep == Board!Next /\ UNCHANGED <<vars, v2, v1, bus, port, fifo, scratch, document>>

DocumentStep == Document!Next /\ UNCHANGED <<vars, v2, v1, bus, port, fifo, scratch, parts>>

HardwareNext ==
    \/ RpiStep \/ V2Step \/ V1Step \/ BusStep \/ PortStep
    \/ FifoStep \/ FileStep \/ PartStep \/ DocumentStep

HardwareSpec ==
    HardwareInit /\ [][HardwareNext]_<<vars, v2, v1, bus, port, fifo, scratch, parts, document>>

-----------------------------------------------------------------------------
(* Lines, requests, transfers, bytes, pipes, files and parts are what      *)
(* their components say.                                                   *)
HardwareTypeOK ==
    /\ TypeOK /\ V2!TypeOK /\ V1!TypeOK /\ Bus!TypeOK /\ Port!TypeOK /\ Fifo!TypeOK
    /\ Files!TypeOK /\ Board!TypeOK /\ Document!TypeOK

(* Every buffer of events and bytes, in all four components that have one, *)
(* implements EventQueue: what is queued is handed over once, in order,    *)
(* and is lost only by never being queued or with the whole buffer.        *)
BuffersEvents ==
    V2!BuffersEvents /\ V1!BuffersEvents /\ Port!BuffersEvents /\ Fifo!BuffersEvents

(* An edge event that waits can be waited for: gpiod v2's pipe has a byte  *)
(* for each event at least, v1's (whose edges are queued in one piece)     *)
(* just as many.                                                           *)
EventsWakeReaders == V2!NoMissedWakeup /\ V1!FdSignalsEvents

(* A line has one holder, in whatever order it is requested, released and  *)
(* requested elsewhere, and none that has not got it - but for the lines   *)
(* of a v1 request that fails half-way, which nobody can release.          *)
OneHolder == V2!HeldByTheLive /\ V1!OneHolder

(* Combined I2C calls read the registers they asked for, and lines are     *)
(* read from a serial port in the order their bytes arrived.               *)
BusesInOrder == Bus!ReadsAreWhole /\ Port!LinesInOrder

(* lgpio: no report goes to a pipe whose file was closed.                  *)
PipesAreOpen == Fifo!PipesAreOpen

(* A dynamic file's reader reads a sample taken since it opened it.        *)
FreshReads == Files!FreshReads

(* A part that a dropout has cut short has told its driver so: forced mode *)
(* ends with the measurement, and a conversion is of what was configured.  *)
SettingsHold == Board!SettingsHold

(* No part of an accepted layout hides another one.                        *)
NothingShadowed == Document!NothingShadowed
=============================================================================
