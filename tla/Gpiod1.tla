------------------------------- MODULE Gpiod1 -------------------------------
(***************************************************************************)
(* p4n4_emu/hw/gpiod_v1_stub.py: the libgpiod v1 front end.                *)
(*                                                                         *)
(* Each open chip has a state per line.  A bulk of lines is requested      *)
(* under the module's lock, then configured line by line; a release drops  *)
(* a line's request, its events and its pipe under the lock, and releases  *)
(* the pin and closes the pipe after it.  An edge is looked up and queued  *)
(* in one piece, under the lock: the contrast with Gpiod2.                 *)
(*                                                                         *)
(* Each owner thread uses a chip object of its own, and releases no line   *)
(* that another thread is reading through it.                              *)
(***************************************************************************)
EXTENDS Integers, Sequences

CONSTANTS
    Lines, Owners, Readers, Drivers,
    Pipes,      \* file descriptors (a pipe's two ends are one)
    Bulks,      \* the sets of lines requested together
    Kinds,      \* the request types in use
    EventBuffer,\* _EVENT_BUFFER
    MaxEvents,  \* the bound of the model: events of a line
    None

(* LINE_REQ_*; "none" is type 0. *)
EventKinds == {"rising", "falling", "both"}
AllKinds   == {"as_is", "in", "out"} \cup EventKinds

Callers == Owners \cup Readers \cup Drivers

VARIABLES
    held,       \* _held: the owner whose state holds each line
    pin,        \* the function and level pins has for each line
    state,      \* the _State of each line of each owner's chip
    pipes,      \* the bytes in each open pipe, None: closed
    given,      \* (history) the events queued of each line of each chip
    stranded,   \* (history) the lines a failed request has left in _held
    pc, call    \* where each thread is, and the chip, lines and type it is at

vars == <<held, pin, state, pipes, given, stranded, pc, call>>

Unrequested == [type |-> "none", events |-> <<>>, pipe |-> None]

NoCall == [owner |-> None, todo |-> {}, kind |-> "as_is", pipes |-> {}]

Goto(t, place, c) == pc' = [pc EXCEPT ![t] = place] /\ call' = [call EXCEPT ![t] = c]
Return(t) == Goto(t, "idle", NoCall)

Requested(o, l) == state[o][l].type # "none"

(* The request that the line belongs to has still to configure it. *)
BeingRequested(o, l) == pc[o] \in {"configure", "typed"} /\ l \in call[o].todo

(* A reader is in a call on the line. *)
BeingRead(o, l) == \E t \in Readers :
    pc[t] # "idle" /\ call[t].owner = o /\ l \in call[t].todo

(* _configure()'s effect on the pin: as_is leaves one alone that is set up. *)
Configured(l, kind) ==
    CASE kind = "out" -> [function |-> "output", level |-> 0]
      [] kind = "as_is" /\ pin[l].function # None -> pin[l]
      [] OTHER -> [function |-> "input", level |-> 0]

-----------------------------------------------------------------------------
(* Bug: a line that another chip holds is not busy. *)
RequestUnlessOwn(o, lines) == \A l \in lines : ~Requested(o, l) /\ held[l] # o

(* LineBulk.request(), under the lock: EBUSY unless every line is free. *)
AllFree(o, lines) == \A l \in lines : ~Requested(o, l) /\ held[l] = None

(* The pipes opened for some lines: descriptors of their own, lowest first. *)
Opened(o, fds) ==
    LET lines == DOMAIN fds
    IN  /\ \A l \in lines : pipes[fds[l]] = None
        /\ \A l, m \in lines : l # m => fds[l] # fds[m]
        /\ \A p \in Pipes, l \in lines : pipes[p] = None /\ p < fds[l] => \E m \in lines : fds[m] = p
        /\ state' = [state EXCEPT ![o] = [l \in Lines |->
                IF l \in lines THEN [state[o][l] EXCEPT !.pipe = fds[l]] ELSE state[o][l]]]
        /\ pipes' = [p \in Pipes |-> IF \E l \in lines : fds[l] = p THEN 0 ELSE pipes[p]]

HeldFor(o, lines) == [l \in Lines |-> IF l \in lines THEN o ELSE held[l]]

request(o, lines, kind) ==
    /\ pc[o] = "idle" /\ AllFree(o, lines)
    /\ held' = HeldFor(o, lines)
    /\ \/ kind \in EventKinds /\ \E fds \in [lines -> Pipes] : Opened(o, fds)
       \/ kind \notin EventKinds /\ UNCHANGED <<state, pipes>>
    /\ Goto(o, "configure", [NoCall EXCEPT !.todo = lines, !.kind = kind])
    /\ UNCHANGED <<pin, given, stranded>>

(* os.pipe() fails at one of the lines, which is held by then, as are the  *)
(* lines done before it: nothing gives them back, nor closes their pipes.  *)
request_fails(o, lines) ==
    /\ pc[o] = "idle" /\ AllFree(o, lines)
    /\ \E done \in SUBSET lines :
        /\ \E fds \in [done -> Pipes] : Opened(o, fds)
        /\ \E l \in lines \ done :
            /\ held' = HeldFor(o, done \cup {l})
            /\ stranded' = stranded \cup done \cup {l}
    /\ UNCHANGED <<pin, given, pc, call>>

(* _configure(): a line with events is an input until it is set up ...     *)
configure(o) ==
    /\ pc[o] = "configure"
    /\ \E l \in call[o].todo :
        LET kind == IF call[o].kind \in EventKinds THEN "in" ELSE call[o].kind
        IN  /\ state' = [state EXCEPT ![o][l].type = kind]
            /\ pin' = [pin EXCEPT ![l] = Configured(l, kind)]
            /\ Goto(o, "typed", [call[o] EXCEPT !.pipes = {l}])
    /\ UNCHANGED <<held, pipes, given, stranded>>

(* ... and then has the type it was requested with. *)
typed(o) ==
    /\ pc[o] = "typed"
    /\ \E l \in call[o].pipes :
        /\ state' = [state EXCEPT ![o][l].type = call[o].kind]
        /\ IF call[o].todo = {l} THEN Return(o)
           ELSE Goto(o, "configure", [call[o] EXCEPT !.todo = @ \ {l}, !.pipes = {}])
    /\ UNCHANGED <<held, pin, pipes, given, stranded>>

(* set_config(), set_flags(), set_direction_*(), line by line: EPERM for a  *)
(* line with events, else the line is configured anew.                     *)
set_config(o, l, kind) ==
    LET to == CASE kind # "as_is" -> kind
                [] pin[l].function = "output" -> "out"
                [] OTHER -> "in"
    IN  /\ pc[o] = "idle"
        /\ Requested(o, l) /\ {state[o][l].type, kind} \cap EventKinds = {}
        /\ state' = [state EXCEPT ![o][l].type = to]
        /\ pin' = IF kind = "as_is" /\ to = "out" THEN pin ELSE [pin EXCEPT ![l] = Configured(l, to)]
        /\ UNCHANGED <<held, pipes, given, stranded, pc, call>>

(* set_values(), line by line: EPERM unless the line is an output.         *)
set_values(o, l) ==
    /\ pc[o] = "idle" /\ Requested(o, l) /\ pin[l].function = "output"
    /\ pin' = [pin EXCEPT ![l].level = 1 - @]
    /\ UNCHANGED <<held, state, pipes, given, stranded, pc, call>>

(* _release() of a line: what the lock covers ... *)
release(o, l) ==
    /\ pc[o] = "idle" /\ Requested(o, l) /\ ~BeingRead(o, l)
    /\ held' = [held EXCEPT ![l] = IF @ = o THEN None ELSE @]
    /\ state' = [state EXCEPT ![o][l] = Unrequested]
    /\ Goto(o, "release", [NoCall EXCEPT !.todo = {l}, !.pipes = {state[o][l].pipe} \ {None}])
    /\ UNCHANGED <<pin, pipes, given, stranded>>

(* ... and the pin, which another chip may have set up by now, and the pipe. *)
release_pin(o) ==
    /\ pc[o] = "release"
    /\ pin' = [l \in Lines |-> IF l \in call[o].todo
                               THEN [pin[l] EXCEPT !.function = None] ELSE pin[l]]
    /\ Goto(o, "close", call[o])
    /\ UNCHANGED <<held, state, pipes, given, stranded>>

close(o) ==
    /\ pc[o] = "close"
    /\ pipes' = [p \in Pipes |-> IF p \in call[o].pipes THEN None ELSE pipes[p]]
    /\ Return(o)
    /\ UNCHANGED <<held, pin, state, given, stranded>>

-----------------------------------------------------------------------------
change(t, l) ==
    /\ pc[t] = "idle" /\ pin[l].function = "input"
    /\ pin' = [pin EXCEPT ![l].level = 1 - @]
    /\ Goto(t, IF pin[l].level = 0 THEN "rose" ELSE "fell", [NoCall EXCEPT !.todo = {l}])
    /\ UNCHANGED <<held, state, pipes, given, stranded>>

Wanted(kind, rose) == kind = "both" \/ kind = (IF rose THEN "rising" ELSE "falling")

Wake(o, l) == [pipes EXCEPT ![state[o][l].pipe] = @ + 1]

(* Bug: the buffer is checked for one event too many. *)
RoomForOneMore(o, l) == Len(state[o][l].events) <= EventBuffer

Room(o, l) == Len(state[o][l].events) < EventBuffer

(* _on_change(): all of it under the lock. *)
on_change(t) ==
    /\ pc[t] \in {"rose", "fell"}
    /\ \E l \in call[t].todo, o \in Owners \cup {None} :
        /\ o = held[l]
        /\ IF o = None THEN UNCHANGED <<state, pipes, given>>
           ELSE IF state[o][l].type \notin EventKinds \/ ~Room(o, l)
                   \/ ~Wanted(state[o][l].type, pc[t] = "rose")
           THEN UNCHANGED <<state, pipes, given>>
           ELSE /\ given[o][l] < MaxEvents
                /\ given' = [given EXCEPT ![o][l] = @ + 1]
                /\ state' = [state EXCEPT ![o][l].events = Append(@, <<l, given[o][l] + 1>>)]
                /\ pipes' = Wake(o, l)
    /\ Return(t)
    /\ UNCHANGED <<held, pin, stranded>>

-----------------------------------------------------------------------------
(* event_read(), event_read_multiple(): EPERM unless the line has events. *)
event_read(t, o, l) ==
    /\ pc[t] = "idle" /\ state[o][l].type \in EventKinds
    /\ Goto(t, "read", [NoCall EXCEPT !.owner = o, !.todo = {l}])
    /\ UNCHANGED <<held, pin, state, pipes, given, stranded>>

(* Under the lock: one event, or all, each with its byte; else select. *)
read(t) ==
    LET o == call[t].owner
    IN  /\ pc[t] = "read"
        /\ \E l \in call[t].todo :
            LET s == state[o][l]
            IN  \/ \E n \in {1, Len(s.events)} :
                    /\ s.events # <<>>
                    /\ state' = [state EXCEPT ![o][l].events = SubSeq(@, n + 1, Len(@))]
                    /\ pipes' = [pipes EXCEPT ![s.pipe] = @ - n]
                    /\ Return(t)
                \/ s.events = <<>> /\ Goto(t, "select", call[t]) /\ UNCHANGED <<state, pipes>>
        /\ UNCHANGED <<held, pin, given, stranded>>

(* select() in event_read or event_wait. *)
wakes(t) ==
    /\ pc[t] = "select"
    /\ \E l \in call[t].todo : pipes[state[call[t].owner][l].pipe] > 0
    /\ Goto(t, "read", call[t])
    /\ UNCHANGED <<held, pin, state, pipes, given, stranded>>

Init ==
    /\ held = [l \in Lines |-> None]
    /\ pin = [l \in Lines |-> [function |-> None, level |-> 0]]
    /\ state = [o \in Owners |-> [l \in Lines |-> Unrequested]]
    /\ pipes = [p \in Pipes |-> None]
    /\ given = [o \in Owners |-> [l \in Lines |-> 0]]
    /\ stranded = {}
    /\ pc = [t \in Callers |-> "idle"]
    /\ call = [t \in Callers |-> NoCall]

Owner(o) ==
    \/ \E lines \in Bulks : Kinds \cap EventKinds # {} /\ request_fails(o, lines)
    \/ \E kind \in Kinds :
        \/ \E lines \in Bulks : request(o, lines, kind)
        \/ \E l \in Lines : set_config(o, l, kind)
    \/ configure(o) \/ typed(o)
    \/ \E l \in Lines : release(o, l) \/ set_values(o, l)
    \/ release_pin(o) \/ close(o)

Reader(t) == (\E o \in Owners, l \in Lines : event_read(t, o, l)) \/ read(t) \/ wakes(t)

Driver(t) == (\E l \in Lines : change(t, l)) \/ on_change(t)

Next ==
    \/ \E o \in Owners : Owner(o)
    \/ \E t \in Readers : Reader(t)
    \/ \E t \in Drivers : Driver(t)

Spec == Init /\ [][Next]_vars

-----------------------------------------------------------------------------
Places == {"idle", "configure", "typed", "release", "close", "rose", "fell", "read", "select"}

TypeOK ==
    /\ held \in [Lines -> Owners \cup {None}]
    /\ pin \in [Lines -> [function : {"input", "output", None}, level : {0, 1}]]
    /\ \A o \in Owners, l \in Lines : state[o][l].type \in AllKinds \cup {"none"}
    /\ pipes \in [Pipes -> Int \cup {None}]
    /\ stranded \subseteq Lines
    /\ pc \in [Callers -> Places]

(* gpiod_v1_stub.py:7: edge events, "which event_get_fd() signals": a line *)
(* with a pipe has a byte in it for each event that waits, no more and no  *)
(* less, though lines are requested, released and requested elsewhere      *)
(* while drivers go on.                                                    *)
FdSignalsEvents == \A o \in Owners, l \in Lines :
    state[o][l].pipe # None => pipes[state[o][l].pipe] = Len(state[o][l].events)

(* gpiod_v1_stub.py:80 calls what is in _held "the requested line holding  *)
(* it": a requested line is held by its chip alone, and a line is held     *)
(* only while it is requested or its request goes on, so that a bulk is    *)
(* taken as a whole or not at all.  The code keeps to it but for a request *)
(* that runs out of descriptors, which leaves the lines it got to held for *)
(* good, though they are not requested and so can't be released.           *)
OneHolder == \A l \in Lines :
    /\ \A o \in Owners : Requested(o, l) => held[l] = o
    /\ held[l] # None => Requested(held[l], l) \/ BeingRequested(held[l], l) \/ l \in stranded

(* Each line's buffer hands its events over once and in order. *)
Buffer == INSTANCE EventQueue WITH
    Queues <- Owners \X Lines, Sources <- Lines, Size <- EventBuffer,
    queue <- [q \in Owners \X Lines |-> state[q[1]][q[2]].events],
    given <- [q \in Owners \X Lines |->
                 [l \in Lines |-> IF l = q[2] THEN given[q[1]][l] ELSE 0]]

BuffersEvents == Buffer!Spec
=============================================================================
