------------------------------- MODULE Serial -------------------------------
(***************************************************************************)
(* p4n4_emu/hw/buses.py's serial port, as serial_stub's Serial objects and *)
(* lgpio_stub's serial handles use it.                                     *)
(*                                                                         *)
(* What arrives (from the part, an answer to what is written, or fed by a  *)
(* test) is appended to rx under the port's lock; reads take from its      *)
(* front.  A read waits for all the bytes it asked for, or its timeout,    *)
(* giving the lock up while it waits; read_until reads byte by byte.       *)
(*                                                                         *)
(* A byte is modelled by the order it arrived in.                          *)
(***************************************************************************)
EXTENDS Integers, Sequences, FiniteSets

CONSTANTS
    Scripts,    \* threads, each with an object or handle of its own
    Libraries,  \* what each script may use: "pyserial", "lgpio"
    Timeouts,   \* the timeouts in use: "none", "some", "zero"
    Sizes,      \* the numbers of bytes asked for
    Answers,    \* TRUE: a part answers what is written (Loopback)
    Capacity,   \* a bound of the model: bytes that wait in rx
    MaxBytes,   \* a bound of the model: bytes that ever arrive
    LF,         \* the bytes that are the end of a line
    None

VARIABLES
    library, timeout,   \* what each script uses (fixed)
    open,       \* the scripts whose object is open, or whose handle is in _serial
    rx,         \* the bytes waiting: <<"rx", number>>
    arrived,    \* (history) the bytes that ever arrived
    call        \* the read each script is in: all of it, or line by line

vars == <<library, timeout, open, rx, arrived, call>>

NoCall == [kind |-> "none", size |-> 0, line |-> <<>>]

Idle(s) == call[s] = NoCall

Return(s) == call' = [call EXCEPT ![s] = NoCall]

Fits == Len(rx) < Capacity /\ arrived < MaxBytes

(* feed(), poll(): a byte arrives on its own. *)
feed ==
    /\ Fits
    /\ rx' = Append(rx, <<"rx", arrived + 1>>)
    /\ arrived' = arrived + 1
    /\ UNCHANGED <<library, timeout, open, call>>

(* write(): the part, if it answers, does so before the call returns. *)
write(s) ==
    /\ s \in open /\ Idle(s) /\ Answers
    /\ feed

(* flush_input(): reset_input_buffer, and lgpio's serial_open. *)
flush_input == rx' = <<>> /\ UNCHANGED arrived

(* open(), serial_open(): lgpio flushes what arrived before, for everybody. *)
Open(s) ==
    /\ s \notin open
    /\ open' = open \cup {s}
    /\ IF library[s] = "lgpio" THEN flush_input ELSE UNCHANGED <<rx, arrived>>
    /\ UNCHANGED <<library, timeout, call>>

(* close(), serial_close(): what waits stays with the port. *)
Close(s) ==
    /\ s \in open /\ Idle(s)
    /\ open' = open \ {s}
    /\ UNCHANGED <<library, timeout, rx, arrived, call>>

reset_input_buffer(s) ==
    /\ s \in open /\ Idle(s) /\ library[s] = "pyserial"
    /\ flush_input
    /\ UNCHANGED <<library, timeout, open, call>>

(* read(), serial_read(), serial_read_byte(); read_until(), readline(). *)
Begin(s, kind, size) ==
    /\ s \in open /\ Idle(s)
    /\ library[s] = "lgpio" => kind = "read"
    /\ call' = [call EXCEPT ![s] = [kind |-> kind, size |-> size, line |-> <<>>]]
    /\ UNCHANGED <<library, timeout, open, rx, arrived>>

(* lgpio reads with timeout 0. *)
TimesOut(s) == library[s] = "lgpio" \/ timeout[s] # "none"

Left(n) == SubSeq(rx, n + 1, Len(rx))

(* Port.read(count): count bytes, or what there is when the time is up. *)
Takes(s, count) == {n \in 0..Len(rx) : n = count \/ (n < count /\ n = Len(rx) /\ TimesOut(s))}

read(s) ==
    /\ call[s].kind = "read"
    /\ \E n \in Takes(s, call[s].size) : rx' = Left(n)
    /\ Return(s)
    /\ UNCHANGED <<library, timeout, open, arrived>>

(* read_until(): until the end of a line, size bytes or a timeout. *)
read_until(s) ==
    /\ call[s].kind = "line"
    /\ \E n \in Takes(s, 1) :
        LET line == call[s].line \o SubSeq(rx, 1, n)
        IN  /\ rx' = Left(n)
            /\ IF n = 0 \/ line[Len(line)][2] \in LF \/ Len(line) = call[s].size
               THEN Return(s)
               ELSE call' = [call EXCEPT ![s].line = line]
    /\ UNCHANGED <<library, timeout, open, arrived>>

Init ==
    /\ library \in [Scripts -> Libraries]
    /\ timeout \in [Scripts -> Timeouts]
    /\ open = {}
    /\ rx = <<>>
    /\ arrived = 0
    /\ call = [s \in Scripts |-> NoCall]

Reads(s) == read(s) \/ read_until(s)

Next ==
    \/ feed
    \/ \E s \in Scripts :
        \/ Open(s) \/ Close(s) \/ write(s) \/ reset_input_buffer(s) \/ Reads(s)
        \/ \E kind \in {"read", "line"}, size \in Sizes : Begin(s, kind, size)

Spec == Init /\ [][Next]_vars

-----------------------------------------------------------------------------
TypeOK ==
    /\ open \subseteq Scripts
    /\ rx \in Seq({"rx"} \X (1..MaxBytes)) /\ Len(rx) <= Capacity
    /\ arrived \in 0..MaxBytes
    /\ \A s \in Scripts : ~Idle(s) => s \in open

(* The port hands the bytes over once and in the order they arrived. *)
Buffer == INSTANCE EventQueue WITH
    Queues <- {"port"}, Sources <- {"rx"}, Size <- Capacity,
    queue <- [q \in {"port"} |-> rx], given <- [q \in {"port"} |-> [s \in {"rx"} |-> arrived]]

BuffersEvents == Buffer!Spec

(* What read_until has of a line are bytes in the order they arrived, and  *)
(* older than any that wait, though others read and flush the port.        *)
LinesInOrder == \A s \in Scripts : LET line == call[s].line IN
    /\ \A i, j \in DOMAIN line : i < j => line[i][2] < line[j][2]
    /\ \A i \in DOMAIN line, j \in DOMAIN rx : line[i][2] < rx[j][2]
=============================================================================
