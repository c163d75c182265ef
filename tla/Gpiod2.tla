------------------------------- MODULE Gpiod2 -------------------------------
(***************************************************************************)
(* p4n4_emu/hw/gpiod_stub: the libgpiod v2 front end.                      *)
(*                                                                         *)
(* A request takes its lines under the module's lock, and sets them up in  *)
(* pins after it; release gives them back under the lock, and releases the *)
(* pins and closes its wake-up pipe after it.  A level change reaches      *)
(* _on_change in the thread that made it, which finds the line's request   *)
(* under the lock, looks at its settings without the lock, and queues the  *)
(* event, with a byte in the pipe, under the lock again.                   *)
(*                                                                         *)
(* libgpiod's objects are not thread-safe: no thread releases a request    *)
(* while another one is in a call on it.  The drivers (the MQTT thread,    *)
(* another front end) follow no such rule.                                 *)
(***************************************************************************)
EXTENDS Integers, Sequences

CONSTANTS
    Lines, Owners, Readers, Drivers,
    Requests,   \* the requests the program may make: 1, 2, ... in that order
    Pipes,      \* file descriptors, lowest first (a pipe's two ends are one)
    Bundles,    \* the sets of lines requested together
    Settings,   \* the settings in use: edges wanted (levels), debounce
    BufferSize, \* event_buffer_size
    MaxEvents,  \* the bound of the model: events per line of a request
    None

Callers == Owners \cup Readers \cup Drivers

VARIABLES
    requested,  \* _requested: the request holding each line
    pin,        \* the function and level pins has for each line
    req,        \* the LineRequest objects
    pipes,      \* the bytes in each open pipe, None: closed
    pc, call    \* where each thread is, and the request, lines and settings it is at

vars == <<requested, pin, req, pipes, pc, call>>

Quiet == [edge |-> {}, debounce |-> FALSE]      \* LineSettings()

Unmade == [lines |-> {}, settings |-> [l \in Lines |-> Quiet], seqno |-> [l \in Lines |-> 0],
           events |-> <<>>, pipe |-> None, released |-> FALSE, configuring |-> FALSE]

NoCall == [request |-> None, todo |-> {}, given |-> <<>>, output |-> FALSE, level |-> 0]

Made(r) == req[r].lines # {}
Live(r) == Made(r) /\ ~req[r].released

Goto(t, place, c) == pc' = [pc EXCEPT ![t] = place] /\ call' = [call EXCEPT ![t] = c]
Return(t) == Goto(t, "idle", NoCall)

(* The threads in a call on a request: its owner must wait for them. *)
BusyWith(r) == {t \in Owners \cup Readers : pc[t] # "idle" /\ call[t].request = r}

-----------------------------------------------------------------------------
(* request_lines(): EBUSY, or EMFILE from os.pipe(), and nothing done,     *)
(* unless all lines, and a descriptor, are free.                           *)
request_lines(t, lines, given, output) ==
    /\ pc[t] = "idle"
    /\ \A l \in lines : requested[l] = None
    /\ \E r \in Requests, fd \in Pipes :
        /\ ~Made(r) /\ \A q \in Requests : ~Made(q) => r <= q
        /\ pipes[fd] = None /\ \A p \in Pipes : pipes[p] = None => fd <= p
        /\ pipes' = [pipes EXCEPT ![fd] = 0]
        /\ req' = [req EXCEPT ![r] = [Unmade EXCEPT !.lines = lines, !.pipe = fd,
                              !.settings = [l \in Lines |-> IF l \in lines THEN given[l] ELSE @[l]]]]
        /\ requested' = [l \in Lines |-> IF l \in lines THEN r ELSE requested[l]]
        /\ Goto(t, "apply", [NoCall EXCEPT !.request = r, !.todo = lines, !.given = given,
                                           !.output = output])
    /\ UNCHANGED pin

reconfigure_lines(t, r, given, output) ==
    /\ pc[t] = "idle" /\ Live(r) /\ BusyWith(r) \subseteq Readers
    /\ Goto(t, "apply", [NoCall EXCEPT !.request = r, !.todo = req[r].lines, !.given = given,
                                       !.output = output])
    /\ UNCHANGED <<requested, pin, req, pipes>>

(* _apply(): no edge of the line is an event while it is configured ...    *)
apply(t) ==
    /\ pc[t] = "apply"
    /\ \E l \in call[t].todo :
        /\ req' = [req EXCEPT ![call[t].request].configuring = TRUE]
        /\ pin' = [pin EXCEPT ![l] = [function |-> IF call[t].output THEN "output" ELSE "input",
                                      level |-> 0]]
        /\ Goto(t, "applied", [call[t] EXCEPT !.todo = @ \ {l}])
    /\ UNCHANGED <<requested, pipes>>

(* ... and its new settings hold from then on. *)
applied(t) ==
    LET left == call[t].todo
    IN  /\ pc[t] = "applied"
        /\ req' = [req EXCEPT ![call[t].request].configuring = FALSE,
                              ![call[t].request].settings =
                                  [l \in Lines |-> IF l \in req[call[t].request].lines \ left
                                                   THEN call[t].given[l] ELSE @[l]]]
        /\ IF left = {} THEN Return(t) ELSE Goto(t, "apply", call[t])
        /\ UNCHANGED <<requested, pin, pipes>>

(* set_values(), line by line: EPERM unless the line is an output.         *)
set_values(t, r, l) ==
    /\ pc[t] = "idle" /\ Live(r) /\ BusyWith(r) \subseteq Readers
    /\ l \in req[r].lines /\ pin[l].function = "output"
    /\ pin' = [pin EXCEPT ![l].level = 1 - @]
    /\ UNCHANGED <<requested, req, pipes, pc, call>>

(* release(): the lines are free for others before the pins are released. *)
release(t, r) ==
    /\ pc[t] = "idle" /\ Live(r) /\ BusyWith(r) = {}
    /\ req' = [req EXCEPT ![r].released = TRUE]
    /\ requested' = [l \in Lines |-> IF requested[l] = r THEN None ELSE requested[l]]
    /\ Goto(t, "release", [NoCall EXCEPT !.request = r])
    /\ UNCHANGED <<pin, pipes>>

release_pins(t) ==
    /\ pc[t] = "release"
    /\ pin' = [l \in Lines |-> IF l \in req[call[t].request].lines
                               THEN [pin[l] EXCEPT !.function = None] ELSE pin[l]]
    /\ Goto(t, "close", call[t])
    /\ UNCHANGED <<requested, req, pipes>>

close(t) ==
    /\ pc[t] = "close"
    /\ pipes' = [pipes EXCEPT ![req[call[t].request].pipe] = None]
    /\ Return(t)
    /\ UNCHANGED <<requested, pin, req>>

-----------------------------------------------------------------------------
(* A driver changes an input's level: _on_change finds the line's request. *)
change(t, l) ==
    /\ pc[t] = "idle" /\ pin[l].function = "input"
    /\ pin' = [pin EXCEPT ![l].level = 1 - @]
    /\ Goto(t, "changed", [NoCall EXCEPT !.todo = {l}, !.level = 1 - pin[l].level])
    /\ UNCHANGED <<requested, req, pipes>>

on_change(t) ==
    /\ pc[t] = "changed"
    /\ \E l \in call[t].todo :
        IF requested[l] = None
        THEN Return(t)
        ELSE Goto(t, "edge", [call[t] EXCEPT !.request = requested[l]])
    /\ UNCHANGED <<requested, pin, req, pipes>>

(* _edge() before the lock: an edge within the debounce time is dropped. *)
edge(t) ==
    LET r == req[call[t].request]
    IN  /\ pc[t] = "edge"
        /\ \E l \in call[t].todo :
            \/ /\ call[t].level \in r.settings[l].edge /\ ~r.released /\ ~r.configuring
               /\ Goto(t, "queue", call[t])
            \/ /\ \/ call[t].level \notin r.settings[l].edge
                  \/ r.released \/ r.configuring \/ r.settings[l].debounce
               /\ Return(t)
        /\ UNCHANGED <<requested, pin, req, pipes>>

Queued(r, l) == [req EXCEPT ![r].seqno[l] = @ + 1,
                            ![r].events = Append(@, <<l, req[r].seqno[l] + 1>>)]

(* Bug: a pipe that is readable already is not written to. *)
QueueQuietly(t, l) ==
    LET r == call[t].request
    IN  /\ Len(req[r].events) < BufferSize
        /\ req' = Queued(r, l)
        /\ pipes' = IF req[r].events = <<>> /\ pipes[req[r].pipe] # None
                    THEN [pipes EXCEPT ![req[r].pipe] = @ + 1] ELSE pipes

(* _edge() under the lock: a full buffer loses the event.  The byte goes   *)
(* to the pipe, to whoever has its descriptor now, or raises EBADF.        *)
Queue(t, l) ==
    LET r == call[t].request
    IN  IF Len(req[r].events) >= BufferSize
        THEN UNCHANGED <<req, pipes>>
        ELSE /\ req' = Queued(r, l)
             /\ pipes' = IF pipes[req[r].pipe] = None THEN pipes
                         ELSE [pipes EXCEPT ![req[r].pipe] = @ + 1]

enqueue(t) ==
    /\ pc[t] = "queue"
    /\ \E l \in call[t].todo : req[call[t].request].seqno[l] < MaxEvents /\ Queue(t, l)
    /\ Return(t)
    /\ UNCHANGED <<requested, pin>>

-----------------------------------------------------------------------------
read_edge_events(t, r) ==
    /\ pc[t] = "idle" /\ Live(r)
    /\ Goto(t, "read", [NoCall EXCEPT !.request = r])
    /\ UNCHANGED <<requested, pin, req, pipes>>

(* Under the lock: events and their bytes go together, up to max_events,   *)
(* or else the thread waits in select.                                     *)
read(t) ==
    LET r == req[call[t].request]
    IN  /\ pc[t] = "read"
        /\ \/ \E n \in 1..Len(r.events) :
                /\ req' = [req EXCEPT ![call[t].request].events = SubSeq(@, n + 1, Len(@))]
                /\ pipes' = [pipes EXCEPT ![r.pipe] = IF @ > n THEN @ - n ELSE 0]
                /\ Return(t)
           \/ r.events = <<>> /\ Goto(t, "select", call[t]) /\ UNCHANGED <<req, pipes>>
        /\ UNCHANGED <<requested, pin>>

wakes(t) ==
    /\ pc[t] = "select" /\ pipes[req[call[t].request].pipe] > 0
    /\ Goto(t, "read", call[t])
    /\ UNCHANGED <<requested, pin, req, pipes>>

Init ==
    /\ requested = [l \in Lines |-> None]
    /\ pin = [l \in Lines |-> [function |-> None, level |-> 0]]
    /\ req = [r \in Requests |-> Unmade]
    /\ pipes = [p \in Pipes |-> None]
    /\ pc = [t \in Callers |-> "idle"]
    /\ call = [t \in Callers |-> NoCall]

Owner(t) ==
    \/ \E lines \in Bundles, output \in BOOLEAN :
        \E given \in [lines -> Settings] : request_lines(t, lines, given, output)
    \/ \E r \in Requests, output \in BOOLEAN :
        \E given \in [req[r].lines -> Settings] : reconfigure_lines(t, r, given, output)
    \/ apply(t) \/ applied(t)
    \/ \E r \in Requests : release(t, r) \/ \E l \in Lines : set_values(t, r, l)
    \/ release_pins(t) \/ close(t)

Reader(t) == (\E r \in Requests : read_edge_events(t, r)) \/ read(t) \/ wakes(t)

Driver(t) == (\E l \in Lines : change(t, l)) \/ on_change(t) \/ edge(t) \/ enqueue(t)

Next ==
    \/ \E t \in Owners : Owner(t)
    \/ \E t \in Readers : Reader(t)
    \/ \E t \in Drivers : Driver(t)

Spec == Init /\ [][Next]_vars

-----------------------------------------------------------------------------
Places == {"idle", "apply", "applied", "release", "close", "changed", "edge", "queue",
           "read", "select"}

TypeOK ==
    /\ requested \in [Lines -> Requests \cup {None}]
    /\ pin \in [Lines -> [function : {"input", "output", None}, level : {0, 1}]]
    /\ pipes \in [Pipes -> Nat \cup {None}]
    /\ pc \in [Callers -> Places]
    /\ \A r \in Requests : req[r].events # <<>> => Made(r)

(* A line is held by the one request that was made with it and not         *)
(* released, whatever order requests and releases come in.                 *)
HeldByTheLive == \A l \in Lines, r \in Requests :
    requested[l] = r <=> Live(r) /\ l \in req[r].lines

(* An event that is there can be read: the pipe of a live request has a    *)
(* byte for each, though readers take several events at a time and edges   *)
(* of released requests arrive late.                                       *)
NoMissedWakeup == \A r \in Requests : Live(r) => pipes[req[r].pipe] >= Len(req[r].events)

(* Each request's buffer hands its lines' events over once and in order.   *)
Buffer == INSTANCE EventQueue WITH
    Queues <- Requests, Sources <- Lines, Size <- BufferSize,
    queue <- [r \in Requests |-> req[r].events], given <- [r \in Requests |-> req[r].seqno]

BuffersEvents == Buffer!Spec
=============================================================================
