---------------------------- MODULE NotifyPipes ----------------------------
(***************************************************************************)
(* p4n4_emu/hw/lgpio_stub.py: where the alerts of a line go, its callbacks *)
(* or a notification pipe.                                                 *)
(*                                                                         *)
(* An alert is sent to the pipe under the module's lock, so never to one   *)
(* that notify_close has taken away; the pipe's file is closed after the   *)
(* lock.  A pipe that nobody reads is full at some point, and reports are  *)
(* then lost.  The callbacks are found under the lock and called after it. *)
(* gpio_claim_alert looks for the pipe in a lock of its own, before the    *)
(* one that gives it to the claim.                                         *)
(***************************************************************************)
EXTENDS Integers, Sequences, FiniteSets

CONSTANTS
    Handles,    \* the handles notify_open may give, lowest first, never twice
    Callbacks,  \* the _callback objects of the line
    Reporters,  \* threads that report alerts: drivers and timers
    Capacity,   \* the reports a FIFO holds
    MaxReports, \* a bound of the model: reports sent to a pipe
    Unclaimed,  \* there is no claim
    None

VARIABLES
    notify,     \* _notify: the open pipes' handles
    file,       \* each handle's FIFO: not made, open, paused or closed
    content,    \* the reports in it: <<"line", number>>
    sent,       \* (history) the number of the last report in each
    claim,      \* the claim's alerts: not claimed, or the pipe they go to (or None)
    claiming,   \* gpio_claim_alert between its locks: the pipe it was given
    closing,    \* notify_close after its lock: the pipe
    callbacks,  \* _callbacks
    calls       \* the callbacks each reporter has still to call

vars == <<notify, file, content, sent, claim, claiming, closing, callbacks, calls>>

-----------------------------------------------------------------------------
notify_open ==
    /\ \E h \in Handles :
        /\ {k \in Handles : k <= h /\ file[k] = "none"} = {h}
        /\ notify' = notify \cup {h}
        /\ file' = [file EXCEPT ![h] = "open"]
    /\ UNCHANGED <<content, sent, claim, claiming, closing, callbacks, calls>>

(* notify_pause(), notify_resume(): what happens meanwhile is not reported. *)
notify_state(h, state) ==
    /\ h \in notify
    /\ file' = [file EXCEPT ![h] = state]
    /\ UNCHANGED <<notify, content, sent, claim, claiming, closing, callbacks, calls>>

(* Bug: the pipe is only forgotten once its file is closed. *)
ClosePipe(h) ==
    /\ h \in notify /\ closing = None
    /\ closing' = h
    /\ UNCHANGED <<notify, file, content, sent, claim, claiming, callbacks, calls>>

notify_close(h) ==
    /\ h \in notify /\ closing = None
    /\ notify' = notify \ {h}
    /\ claim' = IF claim = h THEN None ELSE claim
    /\ closing' = h
    /\ UNCHANGED <<file, content, sent, claiming, callbacks, calls>>

close ==
    /\ closing # None
    /\ file' = [file EXCEPT ![closing] = "closed"]
    /\ content' = [content EXCEPT ![closing] = <<>>]
    /\ closing' = None
    /\ UNCHANGED <<notify, sent, claim, claiming, callbacks, calls>>

(* gpio_claim_alert(): the pipe is looked for, the line is claimed ...     *)
gpio_claim_alert(h) ==
    /\ claiming = Unclaimed
    /\ h \in notify \cup {None}
    /\ claim' = Unclaimed
    /\ claiming' = h
    /\ UNCHANGED <<notify, file, content, sent, closing, callbacks, calls>>

(* ... and the claim is told, though the pipe may be gone. *)
claim_alert ==
    /\ claiming # Unclaimed
    /\ claim' = claiming
    /\ claiming' = Unclaimed
    /\ UNCHANGED <<notify, file, content, sent, closing, callbacks, calls>>

gpio_free ==
    /\ claim # Unclaimed
    /\ claim' = Unclaimed
    /\ UNCHANGED <<notify, file, content, sent, claiming, closing, callbacks, calls>>

(* callback(), and its cancel(). *)
callback(c) ==
    /\ callbacks' = IF c \in callbacks THEN callbacks \ {c} ELSE callbacks \cup {c}
    /\ UNCHANGED <<notify, file, content, sent, claim, claiming, closing, calls>>

-----------------------------------------------------------------------------
(* _Notify.send(): nothing while paused, or when the FIFO is full. *)
send(h) ==
    IF file[h] = "paused" \/ Len(content[h]) = Capacity
    THEN UNCHANGED <<content, sent>>
    ELSE /\ sent[h] < MaxReports
         /\ sent' = [sent EXCEPT ![h] = @ + 1]
         /\ content' = [content EXCEPT ![h] = Append(@, <<"line", sent[h] + 1>>)]

(* _report() under the lock. *)
report(r) ==
    /\ claim # Unclaimed /\ calls[r] = {}
    /\ IF claim = None
       THEN calls' = [calls EXCEPT ![r] = callbacks] /\ UNCHANGED <<content, sent>>
       ELSE /\ IF claim \in notify THEN send(claim) ELSE UNCHANGED <<content, sent>>
            /\ UNCHANGED calls
    /\ UNCHANGED <<notify, file, claim, claiming, closing, callbacks>>

call(r) ==
    /\ \E c \in calls[r] : calls' = [calls EXCEPT ![r] = @ \ {c}]
    /\ UNCHANGED <<notify, file, content, sent, claim, claiming, closing, callbacks>>

(* The program, or another one, reads reports from the FIFO. *)
Read(h, n) ==
    /\ n <= Len(content[h])
    /\ content' = [content EXCEPT ![h] = SubSeq(@, n + 1, Len(@))]
    /\ UNCHANGED <<notify, file, sent, claim, claiming, closing, callbacks, calls>>

Init ==
    /\ notify = {} /\ callbacks = {}
    /\ file = [h \in Handles |-> "none"]
    /\ content = [h \in Handles |-> <<>>]
    /\ sent = [h \in Handles |-> 0]
    /\ claim = Unclaimed /\ claiming = Unclaimed
    /\ closing = None
    /\ calls = [r \in Reporters |-> {}]

Next ==
    \/ notify_open \/ close \/ claim_alert \/ gpio_free
    \/ gpio_claim_alert(None)
    \/ \E h \in Handles :
        \/ notify_close(h) \/ gpio_claim_alert(h)
        \/ \E state \in {"open", "paused"} : notify_state(h, state)
        \/ \E n \in 1..Capacity : Read(h, n)
    \/ \E c \in Callbacks : callback(c)
    \/ \E r \in Reporters : report(r) \/ call(r)

Spec == Init /\ [][Next]_vars

-----------------------------------------------------------------------------
TypeOK ==
    /\ notify \subseteq Handles
    /\ file \in [Handles -> {"none", "open", "paused", "closed"}]
    /\ claim \in Handles \cup {None, Unclaimed}
    /\ calls \in [Reporters -> SUBSET Callbacks]

(* A pipe that alerts can be sent to is open, so that a report never goes  *)
(* to a file that was closed and that something else may have opened.      *)
PipesAreOpen == \A h \in notify : file[h] \in {"open", "paused"}

(* Each pipe hands its reports over once and in order. *)
Buffer == INSTANCE EventQueue WITH
    Queues <- Handles, Sources <- {"line"}, Size <- Capacity,
    queue <- content, given <- [h \in Handles |-> [s \in {"line"} |-> sent[h]]]

BuffersEvents == Buffer!Spec
=============================================================================
