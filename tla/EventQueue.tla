----------------------------- MODULE EventQueue -----------------------------
(***************************************************************************)
(* What gpiod_stub and gpiod_v1_stub promise of edge events, as the        *)
(* kernel's event buffers do: every event of a line is numbered, a buffer  *)
(* hands them over once each and in the order they were queued, and it     *)
(* forgets one only by never queueing it or by being dropped as a whole.   *)
(***************************************************************************)
EXTENDS Integers, Sequences

CONSTANTS
    Queues,     \* the requests that have an event buffer
    Sources,    \* the lines events come from
    Size        \* the number of events a buffer holds

VARIABLES
    queue,      \* the events of each buffer: <<line, number>>
    given       \* the number of the last event of each buffer's lines

vars == <<queue, given>>

Put(q, s) ==
    /\ Len(queue[q]) < Size
    /\ given' = [given EXCEPT ![q][s] = @ + 1]
    /\ queue' = [queue EXCEPT ![q] = Append(@, <<s, given[q][s] + 1>>)]

Take(q, n) ==
    /\ n <= Len(queue[q])
    /\ queue' = [queue EXCEPT ![q] = SubSeq(@, n + 1, Len(@))]
    /\ UNCHANGED given

Drop(q) ==
    /\ queue' = [queue EXCEPT ![q] = <<>>]
    /\ UNCHANGED given

Init ==
    /\ queue = [q \in Queues |-> <<>>]
    /\ given = [q \in Queues |-> [s \in Sources |-> 0]]

Next ==
    \E q \in Queues :
        \/ \E s \in Sources : Put(q, s)
        \/ \E n \in 1..Size : Take(q, n)
        \/ Drop(q)

Spec == Init /\ [][Next]_vars
=============================================================================
