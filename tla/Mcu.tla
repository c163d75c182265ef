-------------------------------- MODULE Mcu --------------------------------
(***************************************************************************)
(* A firmware-like device, sim/mcu.py: the simulator's thread, which ticks  *)
(* the node, the network thread of its MQTT client, which runs the          *)
(* callbacks, and what the node counts on and the code only uses: the       *)
(* client's memory of QoS 1 messages, the connection, and the broker with   *)
(* the retained availability, the will and the onboarding flow that answers *)
(* a registration.                                                          *)
(*                                                                          *)
(* Time is left out: a tick may come at any time, a Wi-Fi drop ends and a   *)
(* wait times out at any time.  A reading is its number.                    *)
(***************************************************************************)
EXTENDS Naturals, Sequences, SequencesExt

CONSTANTS Mcus,         \* the settings a node may have
          MaxReadings,  \* bound: readings taken
          MaxOut        \* bound: unacknowledged messages taken into a connection

ASSUME BoundsAssumption == MaxReadings \in Nat /\ MaxOut \in Nat
ASSUME McusAssumption ==
  Mcus \subseteq [sleeps : BOOLEAN, availability : BOOLEAN, delays : BOOLEAN,
                  buffer : Nat, qos : {0, 1}, readings : 0 .. MaxReadings]

VARIABLES
  mcu,                                  \* this node's settings; `delays`: it has
                                        \* `delay` faults; `readings`: bound
  (* the node's thread and its attributes *)
  pc, status, awake, announced, registered, read, dropOver, buffer,
  late,                                 \* readings the simulator holds for later
  taken,                                \* how many readings were taken
  (* the client *)
  link,                                 \* "off", "joining", "up"
  greeting,                             \* connected, and on_connect not yet run
  subscribed, out,
  (* the connection, the broker and its other clients *)
  wire, back, topic, willDue, subscription, asked,
  (* history *)
  heard, shed,                          \* readings published for good, given up
  told,                                 \* "sleeping" was sent and nothing went wrong since
  missed                                \* on_connect ran inside _announce

nodeVars    == <<pc, status, awake, announced, read, dropOver>>
readingVars == <<buffer, late, taken, shed>>
clientVars  == <<link, greeting, subscribed, out>>
brokerVars  == <<topic, willDue, subscription, asked, heard>>
vars == <<mcu, nodeVars, registered, readingVars, clientVars, wire, back, brokerVars,
          told, missed>>

Readings == 1 .. MaxReadings
Kinds    == {"subscribe", "online", "register", "sleeping", "bye", "drop", "registered"}
Message  == [kind : Kinds, number : {0}] \cup [kind : {"reading"}, number : Readings]
Plain(k)   == [kind |-> k, number |-> 0]
Reading(r) == [kind |-> "reading", number |-> r]

TypeOK ==
  /\ mcu \in Mcus
  /\ pc \in {"idle", "round", "announce", "announced", "flush", "read",
             "sleep", "settle", "close", "stopped"}
  /\ status \in {"sleeping", "offline", "none"}
  /\ {awake, announced, registered, read, dropOver, greeting, subscribed,
      willDue, subscription, asked, told, missed} \subseteq BOOLEAN
  /\ buffer \in Seq(Readings) /\ Len(buffer) <= mcu.buffer
  /\ taken \in 0 .. MaxReadings
  /\ late \subseteq Readings /\ heard \subseteq Readings /\ shed \subseteq Readings
  /\ link \in {"off", "joining", "up"}
  /\ out \in Seq(Message) /\ wire \in Seq(Message) /\ back \in Seq(Message)
  /\ topic \in {"none", "online", "sleeping", "offline"}

Init ==
  /\ mcu \in Mcus
  /\ pc = "idle" /\ status = "none"
  /\ awake = FALSE /\ announced = FALSE /\ registered = FALSE /\ read = FALSE
  /\ dropOver = TRUE
  /\ buffer = <<>> /\ late = {} /\ taken = 0
  /\ link = "off" /\ greeting = FALSE /\ subscribed = FALSE /\ out = <<>>
  /\ wire = <<>> /\ back = <<>>
  /\ topic = "none" /\ willDue = FALSE /\ subscription = FALSE /\ asked = FALSE
  /\ heard = {} /\ shed = {} /\ told = FALSE /\ missed = FALSE

----------------------------------------------------------------------------
(* The client, as the node uses it.  A QoS 1 message stays in `out` until   *)
(* it is acknowledged, and goes out again on the next connection; any other *)
(* message is lost with the connection, or without one.                     *)

Send(ms) == wire' = IF link = "up" THEN wire \o ms ELSE wire

(* At QoS 1. *)
Publish(ms) == Send(ms) /\ out' = out \o ms

PublishReading(r) ==
  IF mcu.qos = 1 THEN Publish(<<Reading(r)>>) ELSE Send(<<Reading(r)>>) /\ UNCHANGED out

connected == awake /\ link = "up"

(* The broker is reached: it has dealt with the last connection by then.    *)
Connect ==
  /\ link = "joining" /\ wire = <<>> /\ ~willDue /\ Len(out) <= MaxOut
  /\ link' = "up" /\ greeting' = TRUE
  /\ wire' = out /\ back' = <<>> /\ subscription' = FALSE
  /\ UNCHANGED <<mcu, nodeVars, registered, readingVars, subscribed, out,
                 topic, willDue, asked, heard, told, missed>>

(* The connection breaks.  What the broker did not read yet is gone.        *)
Lose ==
  /\ link = "up" /\ ~greeting
  /\ link' = "joining" /\ wire' = <<>> /\ back' = <<>>
  /\ willDue' = mcu.availability /\ subscription' = FALSE
  /\ told' = FALSE /\ missed' = FALSE
  /\ UNCHANGED <<mcu, nodeVars, registered, readingVars, greeting, subscribed, out,
                 topic, asked, heard>>

----------------------------------------------------------------------------
(* The broker.                                                              *)

Acked(m) == m.kind \notin {"bye", "drop"} /\ (m.kind = "reading" => mcu.qos = 1)

Receive ==
  /\ wire # <<>>
  /\ LET m == Head(wire) IN
     /\ wire' = Tail(wire)
     /\ back' = IF Acked(m) /\ link = "up" THEN Append(back, m) ELSE back
     /\ topic' = CASE m.kind \in {"online", "sleeping"} -> m.kind
                   [] m.kind = "drop" /\ mcu.availability -> "offline"
                   [] OTHER -> topic
     /\ subscription' = (subscription \/ m.kind = "subscribe")
     /\ asked' = (asked \/ m.kind = "register")
     /\ heard' = IF m.kind = "reading" THEN heard \cup {m.number} ELSE heard
  /\ UNCHANGED <<mcu, nodeVars, registered, readingVars, clientVars, willDue, told, missed>>

SendWill ==
  /\ willDue
  /\ willDue' = FALSE /\ topic' = "offline"
  /\ UNCHANGED <<mcu, nodeVars, registered, readingVars, clientVars, wire, back,
                 subscription, asked, heard, told, missed>>

(* The onboarding flow answers; nobody gets the answer if nobody subscribes. *)
Answer ==
  /\ asked
  /\ asked' = FALSE
  /\ back' = IF subscription /\ link = "up" THEN Append(back, Plain("registered")) ELSE back
  /\ UNCHANGED <<mcu, nodeVars, registered, readingVars, clientVars, wire,
                 topic, willDue, subscription, heard, told, missed>>

----------------------------------------------------------------------------
(* The network thread: is_connected() is true before _on_connect runs.      *)

(* A callback that counts on the node to announce itself when it wakes.     *)
OnConnectWithoutReset ==
  /\ greeting
  /\ greeting' = FALSE
  /\ missed' = FALSE
  /\ UNCHANGED <<mcu, nodeVars, registered, readingVars,
                 link, subscribed, out, wire, back, brokerVars, told>>

_on_connect ==
  /\ greeting
  /\ greeting' = FALSE
  /\ announced' = FALSE
  /\ missed' = (pc = "announced")
  /\ UNCHANGED <<mcu, pc, status, awake, read, dropOver, registered, readingVars,
                 link, subscribed, out, wire, back, brokerVars, told>>

(* It reads what the broker answered: _on_message for a registration.       *)
ReadAnswer ==
  /\ link = "up" /\ ~greeting /\ back # <<>>
  /\ LET m == Head(back) IN
     /\ back' = Tail(back)
     /\ out' = RemoveFirst(out, m)
     /\ subscribed' = (subscribed \/ m.kind = "subscribe")
     /\ registered' = (registered \/ m.kind = "registered")
  /\ UNCHANGED <<mcu, nodeVars, readingVars, link, greeting, wire, brokerVars, told, missed>>

----------------------------------------------------------------------------
(* The node's schedule.                                                     *)

_wake ==
  /\ pc = "idle" /\ ~awake
  /\ mcu.sleeps \/ dropOver
  /\ awake' = TRUE /\ announced' = FALSE /\ read' = FALSE
  /\ link' = "joining"
  /\ told' = FALSE
  /\ UNCHANGED <<mcu, pc, status, dropOver, registered, readingVars, greeting, subscribed,
                 out, wire, back, brokerVars, missed>>

(* A round is due: offline, in a wake-up without Wi-Fi, or connected.       *)
StartRound ==
  /\ pc = "idle"
  /\ IF mcu.sleeps THEN awake => ~read ELSE awake \/ ~dropOver
  /\ pc' = "round"
  /\ UNCHANGED <<mcu, status, awake, announced, read, dropOver, registered, readingVars,
                 clientVars, wire, back, brokerVars, told, missed>>

(* A sleeper that waits for the answer however long it takes.               *)
AnswerCame ==
  /\ pc = "idle" /\ mcu.sleeps /\ awake /\ read /\ registered
  /\ pc' = "sleep" /\ status' = "sleeping"
  /\ UNCHANGED <<mcu, status, awake, announced, read, dropOver, registered, readingVars,
                 clientVars, wire, back, brokerVars, told, missed>>

(* The answer to the registration had its time.                             *)
ReplyWaitOver ==
  /\ pc = "idle" /\ mcu.sleeps /\ awake /\ read
  /\ pc' = "sleep" /\ status' = "sleeping"
  /\ UNCHANGED <<mcu, awake, announced, read, dropOver, registered, readingVars,
                 clientVars, wire, back, brokerVars, told, missed>>

DropEnds ==
  /\ ~dropOver
  /\ dropOver' = TRUE
  /\ UNCHANGED <<mcu, pc, status, awake, announced, read, registered, readingVars,
                 clientVars, wire, back, brokerVars, told, missed>>

stop ==
  /\ pc = "idle"
  /\ pc' = IF awake THEN "sleep" ELSE "stopped"
  /\ status' = "none"
  /\ UNCHANGED <<mcu, awake, announced, read, dropOver, registered, readingVars,
                 clientVars, wire, back, brokerVars, told, missed>>

Stopped == pc = "stopped" /\ UNCHANGED vars

----------------------------------------------------------------------------
(* A round of readings.                                                     *)

CheckLink ==
  /\ pc = "round"
  /\ pc' = IF connected THEN "announce" ELSE "read"
  /\ UNCHANGED <<mcu, status, awake, announced, read, dropOver, registered, readingVars,
                 clientVars, wire, back, brokerVars, told, missed>>

_announce ==
  /\ pc = "announce"
  /\ \/ /\ announced
        /\ pc' = "flush"
        /\ UNCHANGED <<subscribed, out, wire>>
     \/ /\ ~announced
        /\ pc' = "announced"
        /\ subscribed' = FALSE
        /\ LET ms == (IF mcu.availability THEN <<Plain("online")>> ELSE <<>>)
                  \o (IF registered THEN <<>> ELSE <<Plain("register")>>)
           IN  Send(<<Plain("subscribe")>> \o ms) /\ out' = out \o ms
  /\ UNCHANGED <<mcu, status, awake, announced, read, dropOver, registered, readingVars,
                 link, greeting, back, brokerVars, told, missed>>

SetAnnounced ==
  /\ pc = "announced"
  /\ pc' = "flush" /\ announced' = TRUE
  /\ UNCHANGED <<mcu, status, awake, read, dropOver, registered, readingVars,
                 clientVars, wire, back, brokerVars, told, missed>>

(* A loop that stops one reading too early.                                 *)
FlushAllButOne ==
  /\ pc = "flush"
  /\ \/ /\ Len(buffer) <= 1
        /\ pc' = "read"
        /\ UNCHANGED <<buffer, out, wire>>
     \/ /\ Len(buffer) > 1
        /\ PublishReading(Head(buffer))
        /\ buffer' = Tail(buffer)
        /\ pc' = pc
  /\ UNCHANGED <<mcu, status, awake, announced, read, dropOver, registered,
                 late, taken, shed, link, greeting, subscribed, back, brokerVars, told, missed>>

_flush ==
  /\ pc = "flush"
  /\ \/ /\ buffer = <<>>
        /\ pc' = "read"
        /\ UNCHANGED <<buffer, out, wire>>
     \/ /\ buffer # <<>>
        /\ PublishReading(Head(buffer))
        /\ buffer' = Tail(buffer)
        /\ pc' = pc
  /\ UNCHANGED <<mcu, status, awake, announced, read, dropOver, registered,
                 late, taken, shed, link, greeting, subscribed, back, brokerVars, told, missed>>

(* Without the test of mcu.buffer: a maxlen of None has no bound.           *)
HoldAlways(r) ==
  IF connected
  THEN PublishReading(r) /\ UNCHANGED <<buffer, shed>>
  ELSE /\ IF mcu.buffer = 0 \/ Len(buffer) < mcu.buffer
          THEN buffer' = Append(buffer, r) /\ shed' = shed
          ELSE buffer' = Append(Tail(buffer), r) /\ shed' = shed \cup {Head(buffer)}
       /\ UNCHANGED <<out, wire>>

(* A buffer that keeps what was published, too.                             *)
PublishAndHold(r) ==
  /\ IF connected THEN PublishReading(r) ELSE UNCHANGED <<out, wire>>
  /\ IF mcu.buffer > Len(buffer)
     THEN buffer' = Append(buffer, r) /\ shed' = shed
     ELSE buffer' = buffer /\ shed' = shed \cup {r}

(* publish(): now, or into the buffer, whose oldest reading makes room.     *)
publish(r) ==
  \/ /\ connected
     /\ PublishReading(r)
     /\ UNCHANGED <<buffer, shed>>
  \/ /\ ~connected /\ mcu.buffer = 0
     /\ shed' = shed \cup {r}
     /\ UNCHANGED <<buffer, out, wire>>
  \/ /\ ~connected /\ mcu.buffer > 0
     /\ IF Len(buffer) < mcu.buffer
        THEN buffer' = Append(buffer, r) /\ shed' = shed
        ELSE buffer' = Append(Tail(buffer), r) /\ shed' = shed \cup {Head(buffer)}
     /\ UNCHANGED <<out, wire>>

TakeReading ==
  /\ pc = "read" /\ taken < mcu.readings
  /\ taken' = taken + 1
  /\ \/ publish(taken + 1) /\ late' = late
     \/ /\ mcu.delays
        /\ late' = late \cup {taken + 1}
        /\ UNCHANGED <<buffer, shed, out, wire>>
  /\ UNCHANGED <<mcu, nodeVars, registered, link, greeting, subscribed, back, brokerVars,
                 told, missed>>

(* The simulator publishes a reading that was held back.                    *)
PublishLate ==
  /\ pc = "idle"
  /\ \E r \in late : publish(r) /\ late' = late \ {r}
  /\ UNCHANGED <<mcu, nodeVars, registered, taken, link, greeting, subscribed, back,
                 brokerVars, told, missed>>

(* The round is over.  An always-on node may lose the Wi-Fi now; a sleeper  *)
(* goes to sleep, unless it waits for the answer to its registration.       *)
EndRound ==
  /\ pc = "read"
  /\ read' = (read \/ (mcu.sleeps /\ awake))
  /\ \/ /\ ~mcu.sleeps \/ ~awake \/ (~registered /\ connected)
        /\ pc' = "idle" /\ status' = status
     \/ /\ ~mcu.sleeps /\ awake
        /\ pc' = "sleep" /\ status' = "offline"
     \/ /\ mcu.sleeps /\ awake /\ ~(~registered /\ connected)
        /\ pc' = "sleep" /\ status' = "sleeping"
  /\ UNCHANGED <<mcu, awake, announced, dropOver, registered, readingVars,
                 clientVars, wire, back, brokerVars, told, missed>>

----------------------------------------------------------------------------
(* _sleep: say so, settle, disconnect.                                      *)

SaySleeping ==
  /\ pc = "sleep"
  /\ pc' = IF connected THEN "settle" ELSE "close"
  /\ IF status = "sleeping" /\ mcu.availability /\ connected
     THEN Publish(<<Plain("sleeping")>>) /\ told' = TRUE
     ELSE UNCHANGED <<out, wire, told>>
  /\ UNCHANGED <<mcu, status, awake, announced, read, dropOver, registered, readingVars,
                 link, greeting, subscribed, back, brokerVars, missed>>

(* Everything the node waits for was answered: _unacked holds what it       *)
(* announced, not the readings.                                             *)
Answered ==
  /\ \A i \in DOMAIN out : out[i].kind = "reading"
  /\ announced => subscribed

(* A disconnect right after the last publish.                               *)
SettleAtOnce ==
  /\ pc = "settle"
  /\ pc' = "close"
  /\ UNCHANGED <<mcu, status, awake, announced, read, dropOver, registered, readingVars,
                 clientVars, wire, back, brokerVars, told, missed>>

_settle ==
  /\ pc = "settle" /\ Answered
  /\ pc' = "close"
  /\ UNCHANGED <<mcu, status, awake, announced, read, dropOver, registered, readingVars,
                 clientVars, wire, back, brokerVars, told, missed>>

GiveUp ==
  /\ pc = "settle" /\ ~Answered
  /\ pc' = "close"
  /\ told' = FALSE
  /\ UNCHANGED <<mcu, status, awake, announced, read, dropOver, registered, readingVars,
                 clientVars, wire, back, brokerVars, missed>>

(* disconnect() and loop_stop(), which lets the network thread finish what  *)
(* it is at.  With an answer unread the connection may be reset, which is   *)
(* as good as lost.                                                         *)
Disconnect ==
  /\ pc = "close"
  /\ \/ /\ link = "up"
        /\ wire' = Append(wire, Plain(IF status = "offline" THEN "drop" ELSE "bye"))
        /\ willDue' = willDue
     \/ /\ link = "up" /\ back # <<>>
        /\ wire' = <<>>
        /\ willDue' = mcu.availability
     \/ /\ link # "up"
        /\ UNCHANGED <<wire, willDue>>
  /\ link' = "off" /\ back' = <<>>
  /\ awake' = FALSE /\ greeting' = FALSE
  /\ announced' = (announced /\ ~greeting)
  /\ pc' = IF status = "none" THEN "stopped" ELSE "idle"
  /\ dropOver' = (status # "offline")
  /\ told' = (told /\ Plain("registered") \notin ToSet(back))
  /\ missed' = FALSE /\ status' = "none"
  /\ UNCHANGED <<mcu, read, registered, readingVars, subscribed,
                 out, topic, subscription, asked, heard>>

----------------------------------------------------------------------------
NodeThread ==
  \/ _wake \/ StartRound \/ ReplyWaitOver \/ PublishLate
  \/ CheckLink \/ _announce \/ SetAnnounced \/ _flush \/ TakeReading \/ EndRound
  \/ SaySleeping \/ _settle \/ GiveUp \/ Disconnect

NetworkThread == _on_connect \/ ReadAnswer

Next ==
  \/ NodeThread \/ DropEnds \/ stop \/ Stopped
  \/ NetworkThread
  \/ Connect \/ Lose \/ Receive \/ SendWill \/ Answer

Spec == Init /\ [][Next]_vars

(* Threads go on, rounds come due, the broker and the onboarding flow       *)
(* handle what they get.  Nobody has to connect, to lose the connection or  *)
(* to stop.                                                                 *)
FairSpec ==
  /\ Spec
  /\ WF_vars(NodeThread) /\ WF_vars(DropEnds) /\ WF_vars(NetworkThread)
  /\ WF_vars(Receive) /\ WF_vars(SendWill) /\ WF_vars(Answer)

----------------------------------------------------------------------------
(* Where the readings are, for a node that publishes with QoS 1: each one   *)
(* taken is held, or with the client until the broker has it, or was heard, *)
(* or was given up because the buffer was full or there is none; and what   *)
(* is still held was not published, and is held once.                       *)
Held == ToSet(buffer) \cup late
Sent == {r \in Readings : Reading(r) \in ToSet(out)}

ReadingsConserved ==
  /\ mcu.qos = 1 => 1 .. taken = Held \cup Sent \cup heard \cup shed
  /\ Held \cap (Sent \cup heard \cup shed) = {}
  /\ ToSet(buffer) \cap late = {} /\ IsInjective(buffer)

(* A sleeper that said "sleeping" leaves that on the topic until it wakes:  *)
(* it waited for the acknowledgement, so the broker sees a clean disconnect *)
(* and sends no will; unless a wait timed out, the connection broke, or an  *)
(* answer of the onboarding flow came too late to be read.                  *)
SleepingTold == ~awake /\ told => topic = "sleeping"

(* Once the connection of a node stays up, the node is registered for good  *)
(* and its topic ends up "online", whatever wills and old messages were on  *)
(* their way and whoever missed an answer; except when the connection was   *)
(* lost and made again while _announce was running, whose last line takes   *)
(* back what _on_connect has just asked for.                                *)
SettlesOnceUp ==
  <>[](link = "up") =>
     <>[](missed \/ (registered /\ (mcu.availability => topic = "online")))

(* Once the connection stays up, every reading that was taken and is not    *)
(* delayed is heard in the end, at QoS 1, if it did not have to make room.  *)
EventuallyHeard ==
  mcu.qos = 1 /\ <>[](link = "up") => <>[](1 .. taken \subseteq late \cup heard \cup shed)

(* A sleeper that woke up goes back to sleep, connected or not, answered or *)
(* not.                                                                     *)
SleepsAgain == mcu.sleeps => (awake ~> ~awake)

(* No reading goes out while older ones are held: a round publishes its     *)
(* readings "after anything held".                                          *)
HeldGoFirst == \A r \in heard, h \in ToSet(buffer) : r < h
=============================================================================
