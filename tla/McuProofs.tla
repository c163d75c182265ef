----------------------------- MODULE McuProofs -----------------------------
(* What holds of a node of Mcu whatever its settings and whatever the      *)
(* bounds.                                                                 *)
EXTENDS Mcu, FiniteSetTheorems, SequenceTheorems, WellFoundedInduction, TLAPS

(* The readings among some messages, and how many say "sleeping".          *)
ReadingsIn(s) == {r \in Readings : \E i \in DOMAIN s : s[i] = Reading(r)}
At(s)         == {i \in DOMAIN s : s[i].kind = "sleeping"}
Sleepings(s)  == Cardinality(At(s))

-----------------------------------------------------------------------------
(* Facts about sequences of messages. *)

LEMMA AtFinite ==
    ASSUME NEW s \in Seq(Message)
    PROVE  IsFiniteSet(At(s)) /\ Sleepings(s) \in Nat
<1>1. 1 \in Int /\ Len(s) \in Int
  OBVIOUS
<1>2. IsFiniteSet(1 .. Len(s))
  BY ONLY <1>1, FS_Interval
<1>3. At(s) \in SUBSET (1 .. Len(s))
  BY DEF At
<1>4. IsFiniteSet(At(s))
  BY ONLY <1>2, <1>3, FS_Subset
<1>5. Cardinality(At(s)) \in Nat
  BY ONLY <1>4, FS_CardinalityType
<1>6. QED
  BY <1>4, <1>5 DEF Sleepings

LEMMA SleepingsOfConcat ==
    ASSUME NEW s \in Seq(Message), NEW t \in Seq(Message)
    PROVE  Sleepings(s \o t) = Sleepings(s) + Sleepings(t)
<1> DEFINE n == Len(s)
           moved == {i + n : i \in At(t)}
           f == [i \in At(t) |-> i + n]
<1>1. n \in Nat /\ At(t) \subseteq 1 .. Len(t) /\ At(s) \subseteq 1 .. n
  BY DEF At
<1>2. At(s \o t) = At(s) \cup moved
  <2>1. DOMAIN (s \o t) = 1 .. n + Len(t)
    OBVIOUS
  <2>2. ASSUME NEW i \in At(s \o t) PROVE i \in At(s) \cup moved
    <3>1. CASE i <= n
      BY <3>1, <2>1 DEF At
    <3>2. CASE ~(i <= n)
      <4>1. i - n \in DOMAIN t /\ t[i - n] = (s \o t)[i] /\ i = (i - n) + n
        BY <3>2, <2>1 DEF At
      <4>2. QED
        BY <4>1 DEF At
    <3>3. QED
      BY <3>1, <3>2
  <2>3. At(s) \subseteq At(s \o t)
    BY <2>1 DEF At
  <2>4. ASSUME NEW i \in At(t) PROVE i + n \in At(s \o t)
    BY <2>1 DEF At
  <2>5. QED
    BY <2>2, <2>3, <2>4
<1>3. f \in Bijection(At(t), moved)
  <2>1. f \in Surjection(At(t), moved)
    BY DEF Surjection
  <2>2. f \in Injection(At(t), moved)
    BY <1>1 DEF Injection, IsInjective
  <2>3. QED
    BY <2>1, <2>2 DEF Bijection
<1>4. /\ IsFiniteSet(At(s)) /\ Sleepings(s) \in Nat
      /\ IsFiniteSet(At(t)) /\ Sleepings(t) \in Nat
  BY AtFinite
<1>5. IsFiniteSet(moved) /\ Cardinality(moved) = Cardinality(At(t))
  BY <1>3, <1>4, FS_Bijection DEF ExistsBijection
<1>6. Cardinality(At(s) \cup moved) =
        Cardinality(At(s)) + Cardinality(moved) - Cardinality(At(s) \cap moved)
  <2> HIDE DEF moved
  <2>1. QED
    BY <1>4, <1>5, FS_Union
<1>7. Cardinality(At(s) \cap moved) = 0
  <2>1. At(s) \cap moved = {}
    BY <1>1
  <2>2. QED
    BY <2>1, FS_EmptySet
<1>8. QED
  BY <1>2, <1>4, <1>5, <1>6, <1>7 DEF Sleepings

LEMMA NoSleeping ==
    ASSUME NEW s \in Seq(Message)
    PROVE  Sleepings(s) = 0 <=> \A i \in DOMAIN s : s[i].kind # "sleeping"
<1>1. IsFiniteSet(At(s))
  BY AtFinite
<1>2. Cardinality(At(s)) = 0 <=> At(s) = {}
  BY <1>1, FS_EmptySet
<1>3. QED
  BY <1>2 DEF Sleepings, At

LEMMA OneMessage ==
    ASSUME NEW m \in Message
    PROVE  /\ <<m>> \in Seq(Message)
           /\ ReadingsIn(<<m>>) = IF m.kind = "reading" THEN {m.number} ELSE {}
           /\ Sleepings(<<m>>) = IF m.kind = "sleeping" THEN 1 ELSE 0
<1>1. DOMAIN <<m>> = {1} /\ <<m>>[1] = m
  OBVIOUS
<1>2. ReadingsIn(<<m>>) = IF m.kind = "reading" THEN {m.number} ELSE {}
  <2>1. ASSUME NEW r \in Readings PROVE m = Reading(r) <=> m.kind = "reading" /\ m.number = r
    BY DEF Message, Reading, Kinds
  <2>2. m.kind = "reading" => m.number \in Readings
    BY DEF Message, Kinds
  <2>3. QED
    BY <1>1, <2>1, <2>2 DEF ReadingsIn
<1>3. At(<<m>>) = IF m.kind = "sleeping" THEN {1} ELSE {}
  BY <1>1 DEF At
<1>4. Sleepings(<<m>>) = IF m.kind = "sleeping" THEN 1 ELSE 0
  BY <1>3, FS_EmptySet, FS_Singleton DEF Sleepings
<1>5. QED
  BY <1>2, <1>4

LEMMA NoMessage == <<>> \in Seq(Message) /\ ReadingsIn(<<>>) = {} /\ Sleepings(<<>>) = 0
<1>1. At(<<>>) = {}
  BY DEF At
<1>2. QED
  BY <1>1, FS_EmptySet DEF ReadingsIn, Sleepings

LEMMA Concatenation ==
    ASSUME NEW s \in Seq(Message), NEW t \in Seq(Message)
    PROVE  /\ s \o t \in Seq(Message)
           /\ ReadingsIn(s \o t) = ReadingsIn(s) \cup ReadingsIn(t)
           /\ Sleepings(s \o t) = Sleepings(s) + Sleepings(t)
<1>1. ReadingsIn(s \o t) \subseteq ReadingsIn(s) \cup ReadingsIn(t)
  <2>1. ASSUME NEW r \in Readings, NEW i \in DOMAIN (s \o t), (s \o t)[i] = Reading(r)
        PROVE  r \in ReadingsIn(s) \cup ReadingsIn(t)
    <3>1. CASE i <= Len(s)
      BY <2>1, <3>1 DEF ReadingsIn
    <3>2. CASE ~(i <= Len(s))
      <4>1. i - Len(s) \in DOMAIN t /\ t[i - Len(s)] = (s \o t)[i]
        BY <3>2
      <4>2. QED
        BY <2>1, <4>1 DEF ReadingsIn
    <3>3. QED
      BY <3>1, <3>2
  <2>2. QED
    BY <2>1 DEF ReadingsIn
<1>2. ReadingsIn(s) \subseteq ReadingsIn(s \o t)
  <2>1. \A i \in DOMAIN s : i \in DOMAIN (s \o t) /\ (s \o t)[i] = s[i]
    OBVIOUS
  <2>2. QED
    BY <2>1 DEF ReadingsIn
<1>3. ReadingsIn(t) \subseteq ReadingsIn(s \o t)
  <2>1. \A i \in DOMAIN t : i + Len(s) \in DOMAIN (s \o t) /\ (s \o t)[i + Len(s)] = t[i]
    OBVIOUS
  <2>2. QED
    BY <2>1 DEF ReadingsIn
<1>4. QED
  BY <1>1, <1>2, <1>3, SleepingsOfConcat

LEMMA Silent ==
    ASSUME NEW s \in Seq(Message), NEW t \in Seq(Message), ReadingsIn(t) = {}
    PROVE  ReadingsIn(s \o t) = ReadingsIn(s)
<1>1. ReadingsIn(s \o t) = ReadingsIn(s) \cup ReadingsIn(t)
  BY Concatenation
<1>2. QED
  BY <1>1

LEMMA Appending ==
    ASSUME NEW s \in Seq(Message), NEW m \in Message
    PROVE  /\ Append(s, m) \in Seq(Message)
           /\ ReadingsIn(Append(s, m)) =
                ReadingsIn(s) \cup (IF m.kind = "reading" THEN {m.number} ELSE {})
           /\ Sleepings(Append(s, m)) =
                Sleepings(s) + (IF m.kind = "sleeping" THEN 1 ELSE 0)
<1>1. Append(s, m) = s \o <<m>>
  OBVIOUS
<1>2. QED
  BY <1>1, OneMessage, Concatenation

LEMMA Taking ==
    ASSUME NEW s \in Seq(Message), s # <<>>
    PROVE  /\ Head(s) \in Message /\ Tail(s) \in Seq(Message)
           /\ ReadingsIn(s) =
                ReadingsIn(Tail(s)) \cup (IF Head(s).kind = "reading" THEN {Head(s).number} ELSE {})
           /\ Sleepings(s) =
                Sleepings(Tail(s)) + (IF Head(s).kind = "sleeping" THEN 1 ELSE 0)
<1>1. Head(s) \in Message /\ Tail(s) \in Seq(Message) /\ s = <<Head(s)>> \o Tail(s)
  OBVIOUS
<1>2. Sleepings(Tail(s)) \in Nat
  BY <1>1, AtFinite
<1> DEFINE h == Head(s)
           t == Tail(s)
<1> HIDE DEF h, t
<1>3. /\ ReadingsIn(s) = ReadingsIn(<<h>>) \cup ReadingsIn(t)
      /\ Sleepings(s) = Sleepings(<<h>>) + Sleepings(t)
  <2>1. h \in Message /\ t \in Seq(Message) /\ s = <<h>> \o t
    BY <1>1 DEF h, t
  <2>2. <<h>> \in Seq(Message)
    BY <2>1
  <2>3. QED
    BY <2>1, <2>2, Concatenation
<1>4. /\ ReadingsIn(<<h>>) = IF h.kind = "reading" THEN {h.number} ELSE {}
      /\ Sleepings(<<h>>) = IF h.kind = "sleeping" THEN 1 ELSE 0
  BY <1>1, OneMessage DEF h
<1>5. QED
  BY <1>1, <1>2, <1>3, <1>4 DEF h, t

LEMMA FirstOccurrence ==
    ASSUME NEW s \in Seq(Message), NEW m, \E i \in 1 .. Len(s) : s[i] = m
    PROVE  \E i \in 1 .. Len(s) : s[i] = m /\ RemoveFirst(s, m) = RemoveAt(s, i)
<1> DEFINE I == {i \in 1 .. Len(s) : s[i] = m}
           R == {p \in Nat \X Nat : p[1] < p[2]}
<1>1. IsWellFoundedOn(R, Nat)
  BY ONLY NatLessThanWellFounded DEF OpToRel
<1> HIDE DEF R
<1>2. I \subseteq Nat /\ I # {}
  OBVIOUS
<1>3. PICK i \in I : \A j \in I : <<j, i>> \notin R
  <2> HIDE DEF I
  <2>1. QED
    BY ONLY <1>1, <1>2, WFMin
<1>4. ASSUME NEW j \in I PROVE i <= j
  <2>1. i \in Nat /\ j \in Nat /\ <<j, i>> \notin R
    BY <1>2, <1>3
  <2>2. ~ (j < i)
    BY <2>1 DEF R
  <2>3. QED
    BY <2>1, <2>2
<1>5. Min(I) \in I
  BY <1>4 DEF Min
<1>6. RemoveFirst(s, m) = RemoveAt(s, Min(I))
  BY <1>2 DEF RemoveFirst, SelectInSeq
<1>7. QED
  BY <1>5, <1>6

(* Removing a message loses that one and no other. *)
LEMMA Removing ==
    ASSUME NEW s \in Seq(Message), NEW m \in Message
    PROVE  /\ RemoveFirst(s, m) \in Seq(Message)
           /\ ReadingsIn(RemoveFirst(s, m)) \subseteq ReadingsIn(s)
           /\ ReadingsIn(s) \subseteq ReadingsIn(RemoveFirst(s, m))
                                 \cup (IF m.kind = "reading" THEN {m.number} ELSE {})
           /\ Sleepings(RemoveFirst(s, m)) >=
                Sleepings(s) - (IF m.kind = "sleeping" THEN 1 ELSE 0)
<1>1. CASE ~ \E i \in 1 .. Len(s) : s[i] = m
  BY <1>1, AtFinite DEF RemoveFirst
<1>2. CASE \E i \in 1 .. Len(s) : s[i] = m
  <2>1. PICK i \in 1 .. Len(s) : s[i] = m /\ RemoveFirst(s, m) = RemoveAt(s, i)
    BY <1>2, FirstOccurrence
  <2> DEFINE a == SubSeq(s, 1, i - 1)
             b == SubSeq(s, i + 1, Len(s))
  <2>2. a \in Seq(Message) /\ b \in Seq(Message)
    OBVIOUS
  <2>3. RemoveFirst(s, m) = a \o b
    BY <2>1 DEF RemoveAt
  <2>4. s = Append(a, m) \o b
    <3>1. 1 \in 1 .. Len(s) /\ i \in 1 .. Len(s) /\ Len(s) \in i .. Len(s) /\ 1 \in 1 .. Len(s) + 1
      OBVIOUS
    <3>2. SubSeq(s, 1, i) \o b = SubSeq(s, 1, Len(s))
      BY <3>1, ConcatAdjacentSubSeq
    <3>3. SubSeq(s, 1, i) = a \o <<s[i]>>
      BY <3>1, SubSeqRecursiveSecond
    <3>4. SubSeq(s, 1, Len(s)) = s
      BY SubSeqFull
    <3>5. a \o <<m>> = Append(a, m)
      BY <2>2, AppendIsConcat
    <3>6. QED
      BY <2>1, <3>2, <3>3, <3>4, <3>5
  <2> HIDE DEF a, b
  <2>5. Sleepings(a) \in Nat /\ Sleepings(b) \in Nat
    BY <2>2, AtFinite
  <2>6. /\ Append(a, m) \in Seq(Message)
        /\ ReadingsIn(s) = ReadingsIn(Append(a, m)) \cup ReadingsIn(b)
        /\ Sleepings(s) = Sleepings(Append(a, m)) + Sleepings(b)
    BY <2>2, <2>4, Appending, Concatenation
  <2>7. /\ ReadingsIn(Append(a, m)) =
             ReadingsIn(a) \cup (IF m.kind = "reading" THEN {m.number} ELSE {})
        /\ Sleepings(Append(a, m)) = Sleepings(a) + (IF m.kind = "sleeping" THEN 1 ELSE 0)
    BY <2>2, Appending
  <2>8. /\ a \o b \in Seq(Message)
        /\ ReadingsIn(a \o b) = ReadingsIn(a) \cup ReadingsIn(b)
        /\ Sleepings(a \o b) = Sleepings(a) + Sleepings(b)
    BY <2>2, Concatenation
  <2>9. QED
    BY <2>3, <2>5, <2>6, <2>7, <2>8
<1>3. QED
  BY <1>1, <1>2

-----------------------------------------------------------------------------
(* Type correctness. *)

LEMMA PlainType == \A k \in Kinds : Plain(k) \in Message
BY DEF Plain, Message

LEMMA ReadingType == \A r \in Readings : Reading(r) \in Message
BY DEF Reading, Message

LEMMA SettingsType ==
    ASSUME mcu \in Mcus
    PROVE  /\ mcu.buffer \in Nat /\ mcu.qos \in {0, 1}
           /\ mcu.readings \in 0 .. MaxReadings /\ MaxReadings \in Nat
           /\ mcu.sleeps \in BOOLEAN /\ mcu.availability \in BOOLEAN
BY McusAssumption, BoundsAssumption

LEMMA InitType == Init => TypeOK
<1>1. <<>> \in Seq(Readings) /\ Len(<<>>) = 0
  OBVIOUS
<1>2. Init => mcu.buffer \in Nat /\ MaxReadings \in Nat
  BY SettingsType DEF Init
<1>3. Init => Len(buffer) <= mcu.buffer /\ taken \in 0 .. MaxReadings
  BY <1>1, <1>2 DEF Init
<1>4. QED
  BY <1>1, <1>3, NoMessage DEF Init, TypeOK

(* Sending keeps the wire a sequence of messages. *)
LEMMA PublishReadingType ==
    ASSUME out \in Seq(Message), wire \in Seq(Message), NEW r \in Readings, PublishReading(r)
    PROVE  out' \in Seq(Message) /\ wire' \in Seq(Message)
<1>1. <<Reading(r)>> \in Seq(Message)
  BY ReadingType
<1>2. QED
  BY <1>1, ConcatProperties DEF PublishReading, Publish, Send

LEMMA publishType ==
    ASSUME TypeOK, NEW r \in Readings, publish(r)
    PROVE  /\ out' \in Seq(Message) /\ wire' \in Seq(Message)
           /\ buffer' \in Seq(Readings) /\ Len(buffer') <= mcu.buffer
           /\ shed' \subseteq Readings
<1>0. /\ out \in Seq(Message) /\ wire \in Seq(Message) /\ shed \subseteq Readings
      /\ buffer \in Seq(Readings) /\ Len(buffer) <= mcu.buffer /\ mcu.buffer \in Nat
  BY SettingsType DEF TypeOK
<1>1. CASE connected /\ PublishReading(r) /\ UNCHANGED <<buffer, shed>>
  BY <1>0, <1>1, PublishReadingType
<1>2. CASE shed' = shed \cup {r} /\ UNCHANGED <<buffer, out, wire>>
  BY <1>0, <1>2
<1>3. CASE /\ mcu.buffer > 0 /\ UNCHANGED <<out, wire>>
           /\ Len(buffer) < mcu.buffer /\ buffer' = Append(buffer, r) /\ shed' = shed
  BY <1>0, <1>3
<1>4. CASE /\ mcu.buffer > 0 /\ UNCHANGED <<out, wire>>
           /\ ~(Len(buffer) < mcu.buffer)
           /\ buffer' = Append(Tail(buffer), r) /\ shed' = shed \cup {Head(buffer)}
  <2>1. buffer # <<>>
    BY <1>0, <1>4
  <2>2. Tail(buffer) \in Seq(Readings) /\ Head(buffer) \in Readings /\ Len(Tail(buffer)) = Len(buffer) - 1
    BY <1>0, <2>1
  <2>3. Append(Tail(buffer), r) \in Seq(Readings) /\ Len(Append(Tail(buffer), r)) = Len(buffer)
    BY <1>0, <2>2
  <2>4. QED
    BY <1>0, <1>4, <2>2, <2>3
<1>5. QED
  BY <1>1, <1>2, <1>3, <1>4 DEF publish

LEMMA NodeType ==
    ASSUME TypeOK,
           \/ _wake \/ StartRound \/ ReplyWaitOver \/ DropEnds \/ stop \/ Stopped
           \/ CheckLink \/ SetAnnounced \/ EndRound \/ _settle \/ GiveUp
    PROVE  TypeOK'
<1>1. CASE _wake
  BY <1>1 DEF _wake, TypeOK, vars, nodeVars, readingVars, clientVars, brokerVars
<1>2. CASE StartRound
  BY <1>2 DEF StartRound, TypeOK, vars, nodeVars, readingVars, clientVars, brokerVars
<1>3. CASE ReplyWaitOver
  BY <1>3 DEF ReplyWaitOver, TypeOK, vars, nodeVars, readingVars, clientVars, brokerVars
<1>4. CASE DropEnds
  BY <1>4 DEF DropEnds, TypeOK, vars, nodeVars, readingVars, clientVars, brokerVars
<1>5. CASE stop
  BY <1>5 DEF stop, TypeOK, vars, nodeVars, readingVars, clientVars, brokerVars
<1>6. CASE Stopped
  BY <1>6 DEF Stopped, TypeOK, vars, nodeVars, readingVars, clientVars, brokerVars
<1>7. CASE CheckLink
  BY <1>7 DEF CheckLink, TypeOK, vars, nodeVars, readingVars, clientVars, brokerVars
<1>8. CASE SetAnnounced
  BY <1>8 DEF SetAnnounced, TypeOK, vars, nodeVars, readingVars, clientVars, brokerVars
<1>9. CASE EndRound
  <2>1. (read \/ (mcu.sleeps /\ awake)) \in BOOLEAN
    OBVIOUS
  <2>2. QED
    BY <1>9, <2>1 DEF EndRound, TypeOK, vars, nodeVars, readingVars, clientVars, brokerVars
<1>10. CASE _settle
  BY <1>10 DEF _settle, TypeOK, vars, nodeVars, readingVars, clientVars, brokerVars
<1>11. CASE GiveUp
  BY <1>11 DEF GiveUp, TypeOK, vars, nodeVars, readingVars, clientVars, brokerVars
<1>12. QED
  BY <1>1, <1>2, <1>3, <1>4, <1>5, <1>6, <1>7, <1>8, <1>9, <1>10, <1>11

(* What _announce sends. *)
LEMMA AnnouncementType ==
    ASSUME NEW ms,
           ms = (IF mcu.availability THEN <<Plain("online")>> ELSE <<>>)
                  \o (IF registered THEN <<>> ELSE <<Plain("register")>>)
    PROVE  /\ ms \in Seq(Message) /\ <<Plain("subscribe")>> \o ms \in Seq(Message)
           /\ ReadingsIn(ms) = {} /\ Sleepings(ms) = 0
           /\ ReadingsIn(<<Plain("subscribe")>> \o ms) = {}
           /\ Sleepings(<<Plain("subscribe")>> \o ms) = 0
<1>1. ASSUME NEW k \in {"subscribe", "online", "register"}
      PROVE  /\ <<Plain(k)>> \in Seq(Message)
             /\ ReadingsIn(<<Plain(k)>>) = {} /\ Sleepings(<<Plain(k)>>) = 0
  <2>1. Plain(k) \in Message /\ Plain(k).kind = k
    BY PlainType DEF Kinds, Plain
  <2>2. QED
    BY <2>1, OneMessage
<1> DEFINE a == IF mcu.availability THEN <<Plain("online")>> ELSE <<>>
           b == IF registered THEN <<>> ELSE <<Plain("register")>>
<1>2. a \in Seq(Message) /\ ReadingsIn(a) = {} /\ Sleepings(a) = 0
  BY <1>1, NoMessage
<1>3. b \in Seq(Message) /\ ReadingsIn(b) = {} /\ Sleepings(b) = 0
  BY <1>1, NoMessage
<1>4. ms = a \o b
  OBVIOUS
<1> HIDE DEF a, b
<1>5. ms \in Seq(Message) /\ ReadingsIn(ms) = {} /\ Sleepings(ms) = 0
  <2>1. /\ a \o b \in Seq(Message)
        /\ ReadingsIn(a \o b) = ReadingsIn(a) \cup ReadingsIn(b)
        /\ Sleepings(a \o b) = Sleepings(a) + Sleepings(b)
    BY <1>2, <1>3, Concatenation
  <2>2. ReadingsIn(a \o b) = {}
    BY <1>2, <1>3, <2>1
  <2>3. Sleepings(a \o b) = 0
    BY <1>2, <1>3, <2>1
  <2>4. QED
    BY <1>4, <2>1, <2>2, <2>3, Zenon
<1> DEFINE c == <<Plain("subscribe")>>
<1>6. c \in Seq(Message) /\ ReadingsIn(c) = {} /\ Sleepings(c) = 0
  BY <1>1
<1> HIDE DEF c
<1>7. /\ c \o ms \in Seq(Message)
      /\ ReadingsIn(c \o ms) = ReadingsIn(c) \cup ReadingsIn(ms)
      /\ Sleepings(c \o ms) = Sleepings(c) + Sleepings(ms)
  BY <1>5, <1>6, Concatenation
<1>8. ReadingsIn(c \o ms) = {} /\ Sleepings(c \o ms) = 0
  BY <1>5, <1>6, <1>7
<1>9. QED
  BY <1>5, <1>7, <1>8 DEF c

LEMMA SendType ==
    ASSUME TypeOK, _announce \/ _flush \/ TakeReading \/ PublishLate \/ SaySleeping
    PROVE  TypeOK'
<1>0. /\ out \in Seq(Message) /\ wire \in Seq(Message) /\ buffer \in Seq(Readings)
  BY DEF TypeOK
<1>1. CASE _announce
  <2> DEFINE ms == (IF mcu.availability THEN <<Plain("online")>> ELSE <<>>)
                     \o (IF registered THEN <<>> ELSE <<Plain("register")>>)
  <2>1. ms \in Seq(Message) /\ <<Plain("subscribe")>> \o ms \in Seq(Message)
    BY AnnouncementType
  <2>2. out \o ms \in Seq(Message) /\ wire \o (<<Plain("subscribe")>> \o ms) \in Seq(Message)
    BY <1>0, <2>1, Concatenation
  <2>3. out' \in Seq(Message) /\ wire' \in Seq(Message) /\ subscribed' \in BOOLEAN
        /\ pc' \in {"flush", "announced"}
    BY <1>0, <1>1, <2>2 DEF _announce, Send, TypeOK
  <2>4. QED
    BY <1>1, <2>3 DEF _announce, TypeOK, nodeVars, readingVars, clientVars, brokerVars
<1>2. CASE _flush
  <2>1. /\ out' \in Seq(Message) /\ wire' \in Seq(Message)
        /\ buffer' \in Seq(Readings) /\ Len(buffer') <= mcu.buffer /\ pc' \in {"flush", "read"}
    <3>1. CASE buffer = <<>> /\ pc' = "read" /\ UNCHANGED <<buffer, out, wire>>
      BY <3>1 DEF TypeOK
    <3>2. CASE /\ buffer # <<>> /\ PublishReading(Head(buffer))
               /\ buffer' = Tail(buffer) /\ pc' = pc
      <4>1. Head(buffer) \in Readings /\ Tail(buffer) \in Seq(Readings) /\ Len(Tail(buffer)) = Len(buffer) - 1
        BY <1>0, <3>2
      <4>2. mcu.buffer \in Nat /\ Len(buffer) \in Nat /\ Len(buffer) <= mcu.buffer
        BY SettingsType DEF TypeOK
      <4>3. pc = "flush"
        BY <1>2 DEF _flush
      <4>4. QED
        BY <1>0, <3>2, <4>1, <4>2, <4>3, PublishReadingType
    <3>3. QED
      BY <1>2, <3>1, <3>2 DEF _flush
  <2>2. QED
    BY <1>2, <2>1 DEF _flush, TypeOK, nodeVars, readingVars, clientVars, brokerVars
<1>3. CASE TakeReading
  <2>1. taken + 1 \in Readings /\ taken + 1 \in 0 .. MaxReadings
    BY <1>3, SettingsType DEF TakeReading, TypeOK, Readings
  <2>2. /\ out' \in Seq(Message) /\ wire' \in Seq(Message)
        /\ buffer' \in Seq(Readings) /\ Len(buffer') <= mcu.buffer
        /\ shed' \subseteq Readings /\ late' \subseteq Readings
    BY <1>3, <2>1, publishType DEF TakeReading, TypeOK
  <2>3. QED
    BY <1>3, <2>1, <2>2 DEF TakeReading, TypeOK, nodeVars, brokerVars
<1>4. CASE PublishLate
  <2>1. PICK r \in late : publish(r) /\ late' = late \ {r}
    BY <1>4 DEF PublishLate
  <2>2. r \in Readings
    BY DEF TypeOK
  <2>3. /\ out' \in Seq(Message) /\ wire' \in Seq(Message)
        /\ buffer' \in Seq(Readings) /\ Len(buffer') <= mcu.buffer
        /\ shed' \subseteq Readings /\ late' \subseteq Readings
    BY <2>1, <2>2, publishType DEF TypeOK
  <2>4. QED
    BY <1>4, <2>3 DEF PublishLate, TypeOK, nodeVars, brokerVars
<1>5. CASE SaySleeping
  <2>1. <<Plain("sleeping")>> \in Seq(Message)
    BY PlainType DEF Kinds
  <2>2. out \o <<Plain("sleeping")>> \in Seq(Message) /\ wire \o <<Plain("sleeping")>> \in Seq(Message)
    BY <1>0, <2>1, Concatenation
  <2>3. out' \in Seq(Message) /\ wire' \in Seq(Message) /\ told' \in BOOLEAN
        /\ pc' \in {"settle", "close"}
    BY <1>0, <1>5, <2>2 DEF SaySleeping, Publish, Send, TypeOK
  <2>4. QED
    BY <1>5, <2>3 DEF SaySleeping, TypeOK, readingVars, brokerVars
<1>6. QED
  BY <1>1, <1>2, <1>3, <1>4, <1>5

LEMMA ConnectionType ==
    ASSUME TypeOK,
           \/ Connect \/ Lose \/ Receive \/ SendWill \/ Answer
           \/ _on_connect \/ ReadAnswer \/ Disconnect
    PROVE  TypeOK'
<1>0. /\ out \in Seq(Message) /\ wire \in Seq(Message) /\ back \in Seq(Message)
  BY DEF TypeOK
<1>1. CASE Connect
  BY <1>1 DEF Connect, TypeOK, nodeVars, readingVars
<1>2. CASE Lose
  <2>1. mcu.availability \in BOOLEAN
    BY SettingsType DEF TypeOK
  <2>2. willDue' \in BOOLEAN
    BY <1>2, <2>1, Zenon DEF Lose
  <2>3. QED
    BY <1>2, <2>2, NoMessage DEF Lose, TypeOK, nodeVars, readingVars
<1>3. CASE Receive
  <2>1. Head(wire) \in Message /\ Tail(wire) \in Seq(Message)
    BY <1>0, <1>3 DEF Receive
  <2>2. back' \in Seq(Message) /\ wire' \in Seq(Message)
    BY <1>0, <1>3, <2>1 DEF Receive
  <2>3. heard' \subseteq Readings
    <3>1. Head(wire).kind = "reading" => Head(wire).number \in Readings
      BY <2>1 DEF Message, Kinds
    <3>2. QED
      BY <1>3, <3>1 DEF Receive, TypeOK
  <2>4. topic' \in {"none", "online", "sleeping", "offline"}
    BY <1>3 DEF Receive, TypeOK
  <2>5. subscription' \in BOOLEAN /\ asked' \in BOOLEAN
    BY <1>3 DEF Receive
  <2>6. QED
    BY <1>3, <2>2, <2>3, <2>4, <2>5 DEF Receive, TypeOK, nodeVars, readingVars, clientVars
<1>4. CASE SendWill
  BY <1>4 DEF SendWill, TypeOK, nodeVars, readingVars, clientVars
<1>5. CASE Answer
  <2>1. Plain("registered") \in Message
    BY PlainType DEF Kinds
  <2>2. back' \in Seq(Message)
    BY <1>0, <1>5, <2>1 DEF Answer
  <2>3. QED
    BY <1>5, <2>2 DEF Answer, TypeOK, nodeVars, readingVars, clientVars
<1>6. CASE _on_connect
  <2>1. missed' \in BOOLEAN
    BY <1>6 DEF _on_connect
  <2>2. QED
    BY <1>6, <2>1, ZenonT(60) DEF _on_connect, TypeOK, readingVars, brokerVars
<1>7. CASE ReadAnswer
  <2>1. Head(back) \in Message /\ Tail(back) \in Seq(Message)
    BY <1>0, <1>7 DEF ReadAnswer
  <2>2. back' \in Seq(Message) /\ out' \in Seq(Message)
    BY <1>0, <1>7, <2>1, Removing DEF ReadAnswer
  <2>3. subscribed' \in BOOLEAN /\ registered' \in BOOLEAN
    BY <1>7 DEF ReadAnswer
  <2>4. QED
    BY <1>7, <2>2, <2>3 DEF ReadAnswer, TypeOK, nodeVars, readingVars, brokerVars
<1>8. CASE Disconnect
  <2>1. Plain(IF status = "offline" THEN "drop" ELSE "bye") \in Message
    BY PlainType DEF Kinds
  <2>2. Append(wire, Plain(IF status = "offline" THEN "drop" ELSE "bye")) \in Seq(Message)
    BY <1>0, <2>1, Appending
  <2>3. wire' \in Seq(Message)
    BY <1>0, <1>8, <2>2, NoMessage DEF Disconnect
  <2>4. mcu.availability \in BOOLEAN /\ willDue \in BOOLEAN
    BY SettingsType DEF TypeOK
  <2>5. willDue' \in BOOLEAN
    BY <1>8, <2>4, Zenon DEF Disconnect
  <2>6. /\ announced' \in BOOLEAN /\ told' \in BOOLEAN /\ dropOver' \in BOOLEAN
        /\ pc' \in {"idle", "stopped"}
    BY <1>8 DEF Disconnect
  <2>7. QED
    BY <1>8, <2>3, <2>5, <2>6, NoMessage DEF Disconnect, TypeOK, readingVars
<1>9. QED
  BY <1>1, <1>2, <1>3, <1>4, <1>5, <1>6, <1>7, <1>8

LEMMA StepType == TypeOK /\ [Next]_vars => TypeOK'
<1>1. CASE UNCHANGED vars
  BY <1>1 DEF TypeOK, vars, nodeVars, readingVars, clientVars, brokerVars
<1>2. QED
  BY <1>1, NodeType, SendType, ConnectionType DEF Next, NodeThread, NetworkThread

(* Every variable keeps its type. *)
THEOREM TypeCorrect == Spec => []TypeOK
BY InitType, StepType, PTL DEF Spec

-----------------------------------------------------------------------------
(* Where the readings are.  To be kept, it takes that nothing on the wire  *)
(* or already taken by the broker is still held, and that the broker       *)
(* acknowledges only what it heard.                                        *)

Gone == Sent \cup ReadingsIn(wire) \cup heard \cup shed

Conserved ==
  /\ taken <= mcu.readings
  /\ Held \cup Gone \subseteq 1 .. taken
  /\ mcu.qos = 1 => 1 .. taken \subseteq Held \cup Sent \cup heard \cup shed
  /\ Held \cap Gone = {}
  /\ ToSet(buffer) \cap late = {} /\ IsInjective(buffer)
  /\ ReadingsIn(back) \subseteq heard

LEMMA SentIsOut == Sent = ReadingsIn(out)
BY DEF Sent, ReadingsIn, ToSet

LEMMA ConservedImplies == Conserved => ReadingsConserved
BY DEF Conserved, ReadingsConserved, Gone

LEMMA ConservedInit == Init => Conserved
<1> SUFFICES ASSUME Init PROVE Conserved
  OBVIOUS
<1>1. taken <= mcu.readings
  BY SettingsType DEF Init
<1>2. ToSet(buffer) = {} /\ IsInjective(buffer)
  BY DEF Init, ToSet, IsInjective
<1>3. Sent = {} /\ ReadingsIn(wire) = {} /\ ReadingsIn(back) = {}
  BY NoMessage, SentIsOut DEF Init
<1>4. Held = {} /\ Gone = {}
  BY <1>2, <1>3 DEF Held, Gone, Init
<1>5. mcu.qos = 1 => 1 .. taken = {}
  BY DEF Init
<1>6. QED
  BY <1>1, <1>2, <1>3, <1>4, <1>5 DEF Conserved

(* The buffer as a set. *)
LEMMA BufferFacts ==
    ASSUME NEW s \in Seq(Readings), NEW r \in Readings
    PROVE  /\ ToSet(Append(s, r)) = ToSet(s) \cup {r}
           /\ IsInjective(s) /\ r \notin ToSet(s) => IsInjective(Append(s, r))
           /\ s # <<>> => ToSet(s) = ToSet(Tail(s)) \cup {Head(s)}
           /\ s # <<>> /\ IsInjective(s) => IsInjective(Tail(s)) /\ Head(s) \notin ToSet(Tail(s))
<1> DEFINE a == Append(s, r)
<1>1. Len(a) = Len(s) + 1 /\ a[Len(s) + 1] = r /\ \A i \in 1 .. Len(s) : a[i] = s[i]
  OBVIOUS
<1>2. DOMAIN a = 1 .. Len(s) + 1 /\ DOMAIN s = 1 .. Len(s) /\ Len(s) \in Nat
  OBVIOUS
<1> HIDE DEF a
<1>3. DOMAIN a = DOMAIN s \cup {Len(s) + 1}
  BY <1>2
<1>4. ToSet(a) = ToSet(s) \cup {r}
  BY <1>1, <1>2, <1>3 DEF ToSet
<1>5. IsInjective(s) /\ r \notin ToSet(s) => IsInjective(a)
  BY <1>1, <1>2, <1>3 DEF ToSet, IsInjective
<1>6. ASSUME s # <<>>
      PROVE  /\ ToSet(s) = ToSet(Tail(s)) \cup {Head(s)}
             /\ IsInjective(s) => IsInjective(Tail(s)) /\ Head(s) \notin ToSet(Tail(s))
  <2> DEFINE t == Tail(s)
  <2>1. /\ DOMAIN t = 1 .. Len(s) - 1 /\ Head(s) = s[1] /\ Len(s) >= 1
        /\ \A i \in 1 .. Len(s) - 1 : t[i] = s[i + 1]
    BY <1>6
  <2> HIDE DEF t
  <2>2. ToSet(s) \subseteq ToSet(t) \cup {Head(s)}
    <3>1. ASSUME NEW i \in DOMAIN s PROVE s[i] \in ToSet(t) \cup {Head(s)}
      <4>1. CASE i = 1
        BY <4>1, <2>1
      <4>2. CASE i # 1
        <5>1. i - 1 \in DOMAIN t /\ t[i - 1] = s[i]
          BY <4>2, <2>1, <1>2
        <5>2. QED
          BY <5>1 DEF ToSet
      <4>3. QED
        BY <4>1, <4>2
    <3>2. QED
      BY <3>1 DEF ToSet
  <2>3. ToSet(t) \cup {Head(s)} \subseteq ToSet(s)
    <3>1. \A i \in DOMAIN t : i + 1 \in DOMAIN s /\ t[i] = s[i + 1]
      BY <2>1, <1>2
    <3>2. 1 \in DOMAIN s
      BY <2>1, <1>2
    <3>3. QED
      BY <2>1, <3>1, <3>2 DEF ToSet
  <2>4. ASSUME IsInjective(s) PROVE IsInjective(t) /\ Head(s) \notin ToSet(t)
    <3>1. \A i, j \in DOMAIN s : s[i] = s[j] => i = j
      BY <2>4 DEF IsInjective
    <3>2. \A i \in DOMAIN t : i \in Int /\ i + 1 \in DOMAIN s /\ i + 1 # 1 /\ t[i] = s[i + 1]
      BY <2>1, <1>2
    <3>3. IsInjective(t)
      BY <3>1, <3>2 DEF IsInjective
    <3>4. 1 \in DOMAIN s
      BY <2>1, <1>2
    <3>5. QED
      BY <2>1, <3>1, <3>2, <3>3, <3>4 DEF ToSet
  <2>5. QED
    BY <2>2, <2>3, <2>4 DEF t
<1>7. QED
  BY <1>4, <1>5, <1>6 DEF a

(* A step that takes no reading and holds none: what it moves stays among  *)
(* what is gone, and what leaves the client was heard.                     *)
LEMMA MovesKeepConserved ==
    ASSUME Conserved, UNCHANGED <<mcu, readingVars>>, heard \subseteq heard',
           ReadingsIn(out') \cup ReadingsIn(wire') \cup heard'
              \subseteq ReadingsIn(out) \cup ReadingsIn(wire) \cup heard,
           ReadingsIn(out) \subseteq ReadingsIn(out') \cup heard',
           ReadingsIn(back') \subseteq heard'
    PROVE  Conserved'
<1>1. Held' = Held /\ ToSet(buffer)' = ToSet(buffer) /\ IsInjective(buffer)' = IsInjective(buffer)
  BY DEF Held, readingVars
<1>2. Gone' \subseteq Gone
  BY SentIsOut DEF Gone, readingVars, Sent, ReadingsIn, ToSet
<1>3. Sent \cup heard \cup shed \subseteq Sent' \cup heard' \cup shed'
  BY SentIsOut DEF readingVars, Sent, ReadingsIn, ToSet
<1>4. QED
  BY <1>1, <1>2, <1>3 DEF Conserved, readingVars

LEMMA PublishReadingMoves ==
    ASSUME TypeOK, NEW r \in Readings, PublishReading(r)
    PROVE  /\ ReadingsIn(out) \subseteq ReadingsIn(out')
           /\ ReadingsIn(out') \subseteq ReadingsIn(out) \cup {r}
           /\ mcu.qos = 1 => r \in ReadingsIn(out')
           /\ ReadingsIn(wire') \subseteq ReadingsIn(wire) \cup {r}
<1> DEFINE m == <<Reading(r)>>
<1>1. m \in Seq(Message) /\ ReadingsIn(m) = {r}
  <2>1. Reading(r) \in Message /\ Reading(r).kind = "reading" /\ Reading(r).number = r
    BY ReadingType DEF Reading
  <2>2. QED
    BY <2>1, OneMessage
<1>2. out \in Seq(Message) /\ wire \in Seq(Message)
  BY DEF TypeOK
<1> HIDE DEF m
<1>3. /\ ReadingsIn(out \o m) = ReadingsIn(out) \cup {r}
      /\ ReadingsIn(wire \o m) = ReadingsIn(wire) \cup {r}
  BY <1>1, <1>2, Concatenation
<1>4. /\ wire' = wire \/ wire' = wire \o m
      /\ (out' = out /\ mcu.qos # 1) \/ out' = out \o m
  BY DEF PublishReading, Publish, Send, m
<1>5. QED
  BY <1>3, <1>4

(* A reading that is published, held or given up, alone or for an older    *)
(* one.                                                                    *)
LEMMA publishMoves ==
    ASSUME TypeOK, IsInjective(buffer), NEW r \in Readings, r \notin ToSet(buffer), publish(r),
           heard' = heard, mcu' = mcu, ToSet(buffer) \cap Gone = {}, r \notin Gone
    PROVE  /\ ToSet(buffer') \subseteq ToSet(buffer) \cup {r}
           /\ Gone' \subseteq Gone \cup ToSet(buffer) \cup {r}
           /\ ToSet(buffer') \cap Gone' = {} /\ IsInjective(buffer')
           /\ mcu.qos = 1 => ToSet(buffer) \cup Sent \cup heard \cup shed \cup {r}
                                \subseteq ToSet(buffer') \cup Sent' \cup heard' \cup shed'
<1>0. buffer \in Seq(Readings) /\ Len(buffer) \in Nat /\ mcu.buffer \in Nat
  BY SettingsType DEF TypeOK
<1>s. Sent = ReadingsIn(out) /\ Sent' = ReadingsIn(out')
  BY DEF Sent, ReadingsIn, ToSet
<1>1. CASE connected /\ PublishReading(r) /\ UNCHANGED <<buffer, shed>>
  BY <1>1, <1>s, PublishReadingMoves DEF Gone
<1>2. CASE shed' = shed \cup {r} /\ UNCHANGED <<buffer, out, wire>>
  BY <1>2, <1>s DEF Gone
<1>3. CASE UNCHANGED <<out, wire>> /\ buffer' = Append(buffer, r) /\ shed' = shed
  <2>1. ToSet(buffer') = ToSet(buffer) \cup {r} /\ IsInjective(buffer')
    BY <1>0, <1>3, BufferFacts
  <2>2. QED
    BY <1>3, <1>s, <2>1 DEF Gone
<1>4. CASE /\ UNCHANGED <<out, wire>> /\ mcu.buffer > 0 /\ ~(Len(buffer) < mcu.buffer)
           /\ buffer' = Append(Tail(buffer), r) /\ shed' = shed \cup {Head(buffer)}
  <2>1. buffer # <<>>
    BY <1>0, <1>4
  <2>2. /\ ToSet(buffer) = ToSet(Tail(buffer)) \cup {Head(buffer)}
        /\ IsInjective(Tail(buffer)) /\ Head(buffer) \notin ToSet(Tail(buffer))
    BY <1>0, <2>1, BufferFacts
  <2>3. Tail(buffer) \in Seq(Readings)
    BY <1>0, <2>1
  <2>4. ToSet(buffer') = ToSet(Tail(buffer)) \cup {r} /\ IsInjective(buffer')
    BY <1>4, <2>2, <2>3, BufferFacts
  <2>5. QED
    BY <1>4, <1>s, <2>2, <2>4 DEF Gone
<1>5. QED
  BY <1>1, <1>2, <1>3, <1>4 DEF publish

LEMMA _flushConserves ==
    ASSUME TypeOK, Conserved, _flush
    PROVE  Conserved'
<1>1. CASE UNCHANGED <<buffer, out, wire>>
  BY <1>1, MovesKeepConserved DEF _flush, readingVars, brokerVars, Conserved
<1>2. CASE buffer # <<>> /\ PublishReading(Head(buffer)) /\ buffer' = Tail(buffer)
  <2> DEFINE h == Head(buffer)
  <2>1. UNCHANGED <<mcu, late, taken, shed, back, heard>>
    BY DEF _flush, brokerVars
  <2>2. h \in Readings
    BY <1>2 DEF TypeOK
  <2>3. /\ ToSet(buffer) = ToSet(buffer') \cup {h} /\ h \notin ToSet(buffer')
        /\ IsInjective(buffer')
    BY <1>2, <2>2, BufferFacts DEF Conserved, TypeOK
  <2>4. /\ Sent \subseteq Sent' /\ Sent' \subseteq Sent \cup {h}
        /\ mcu.qos = 1 => h \in Sent'
        /\ ReadingsIn(wire') \subseteq ReadingsIn(wire) \cup {h}
    BY <1>2, <2>2, PublishReadingMoves DEF Sent, ReadingsIn, ToSet
  <2> HIDE DEF h
  <2>5. h \in ToSet(buffer) /\ h \notin late
    BY <2>3 DEF Conserved
  <2>6. Held = Held' \cup {h} /\ h \notin Held'
    BY <2>1, <2>3, <2>5 DEF Held
  <2>7. Gone' \subseteq Gone \cup {h}
    BY <2>1, <2>4 DEF Gone
  <2>8. Held' \cup Gone' \subseteq 1 .. taken /\ Held' \cap Gone' = {}
    BY <2>6, <2>7 DEF Conserved
  <2>9. mcu.qos = 1 => 1 .. taken \subseteq Held' \cup Sent' \cup heard' \cup shed'
    BY <2>1, <2>4, <2>6 DEF Conserved
  <2>10. QED
    BY <2>1, <2>3, <2>8, <2>9 DEF Conserved
<1>3. QED
  BY <1>1, <1>2 DEF _flush

LEMMA TakeReadingConserves ==
    ASSUME TypeOK, Conserved, TakeReading
    PROVE  Conserved'
<1> DEFINE r == taken + 1
<1>1. /\ taken \in Nat /\ taken < mcu.readings /\ mcu.readings \in 0 .. MaxReadings /\ MaxReadings \in Nat
  BY SettingsType DEF TakeReading, TypeOK
<1>2. r \in Readings /\ r \notin 1 .. taken /\ 1 .. r = 1 .. taken \cup {r} /\ r <= mcu.readings
  BY <1>1 DEF Readings
<1>3. taken' = r /\ UNCHANGED <<mcu, back, heard>>
  BY DEF TakeReading, brokerVars
<1> HIDE DEF r
<1>4. r \notin Held /\ r \notin Gone
  BY <1>2 DEF Conserved
<1>5. CASE publish(r) /\ late' = late
  <2>1. /\ ToSet(buffer) \cap Gone = {} /\ late \cap Gone = {} /\ ToSet(buffer) \cap late = {}
        /\ IsInjective(buffer) /\ r \notin ToSet(buffer) /\ r \notin late
    BY <1>4 DEF Conserved, Held
  <2>2. /\ ToSet(buffer') \subseteq ToSet(buffer) \cup {r}
        /\ Gone' \subseteq Gone \cup ToSet(buffer) \cup {r}
        /\ ToSet(buffer') \cap Gone' = {} /\ IsInjective(buffer')
        /\ mcu.qos = 1 => ToSet(buffer) \cup Sent \cup heard \cup shed \cup {r}
                             \subseteq ToSet(buffer') \cup Sent' \cup heard' \cup shed'
    BY <1>2, <1>3, <1>4, <1>5, <2>1, publishMoves
  <2>3. Held' \cup Gone' \subseteq 1 .. r /\ Held' \cap Gone' = {}
    BY <1>2, <1>5, <2>1, <2>2 DEF Held, Conserved
  <2>4. mcu.qos = 1 => 1 .. r \subseteq Held' \cup Sent' \cup heard' \cup shed'
    BY <1>2, <1>5, <2>2 DEF Held, Conserved
  <2>5. ToSet(buffer') \cap late' = {}
    BY <1>5, <2>1, <2>2
  <2>6. QED
    BY <1>2, <1>3, <2>2, <2>3, <2>4, <2>5 DEF Conserved
<1>6. CASE late' = late \cup {r} /\ UNCHANGED <<buffer, shed, out, wire>>
  <2>1. Gone' = Gone /\ Sent' = Sent /\ Held' = Held \cup {r}
    BY <1>3, <1>6 DEF Gone, Sent, Held
  <2>2. Held' \cup Gone' \subseteq 1 .. r /\ Held' \cap Gone' = {}
    BY <1>2, <1>4, <2>1 DEF Conserved
  <2>3. mcu.qos = 1 => 1 .. r \subseteq Held' \cup Sent' \cup heard' \cup shed'
    BY <1>2, <1>3, <1>6, <2>1 DEF Conserved
  <2>4. ToSet(buffer') \cap late' = {} /\ IsInjective(buffer')
    BY <1>4, <1>6 DEF Conserved, Held
  <2>5. QED
    BY <1>2, <1>3, <2>2, <2>3, <2>4 DEF Conserved
<1>7. QED
  BY <1>5, <1>6 DEF TakeReading, r

LEMMA PublishLateConserves ==
    ASSUME TypeOK, Conserved, PublishLate
    PROVE  Conserved'
<1>1. PICK r \in late : publish(r) /\ late' = late \ {r}
  BY DEF PublishLate
<1>2. r \in Readings /\ UNCHANGED <<mcu, taken, back, heard>>
  BY DEF TypeOK, PublishLate, brokerVars
<1>3. /\ ToSet(buffer) \cap Gone = {} /\ late \cap Gone = {} /\ ToSet(buffer) \cap late = {}
      /\ IsInjective(buffer) /\ r \notin ToSet(buffer) /\ r \notin Gone
  BY DEF Conserved, Held
<1>4. /\ ToSet(buffer') \subseteq ToSet(buffer) \cup {r}
      /\ Gone' \subseteq Gone \cup ToSet(buffer) \cup {r}
      /\ ToSet(buffer') \cap Gone' = {} /\ IsInjective(buffer')
      /\ mcu.qos = 1 => ToSet(buffer) \cup Sent \cup heard \cup shed \cup {r}
                           \subseteq ToSet(buffer') \cup Sent' \cup heard' \cup shed'
  BY <1>1, <1>2, <1>3, publishMoves
<1>5. Held' \cup Gone' \subseteq 1 .. taken /\ Held' \cap Gone' = {}
  BY <1>1, <1>3, <1>4 DEF Held, Conserved
<1>6. mcu.qos = 1 => 1 .. taken \subseteq Held' \cup Sent' \cup heard' \cup shed'
  BY <1>1, <1>4 DEF Held, Conserved
<1>7. ToSet(buffer') \cap late' = {}
  BY <1>1, <1>3, <1>4
<1>8. QED
  BY <1>2, <1>4, <1>5, <1>6, <1>7 DEF Conserved

LEMMA SendingConserves ==
    ASSUME TypeOK, Conserved, _announce \/ SaySleeping
    PROVE  Conserved'
<1>0. out \in Seq(Message) /\ wire \in Seq(Message)
  BY DEF TypeOK
<1>1. CASE _announce
  <2> DEFINE ms == (IF mcu.availability THEN <<Plain("online")>> ELSE <<>>)
                     \o (IF registered THEN <<>> ELSE <<Plain("register")>>)
             sent == <<Plain("subscribe")>> \o ms
  <2>1. ms \in Seq(Message) /\ sent \in Seq(Message) /\ ReadingsIn(ms) = {} /\ ReadingsIn(sent) = {}
    BY AnnouncementType
  <2>2. /\ out' = out \/ out' = out \o ms
        /\ wire' = wire \/ wire' = wire \o sent
    BY <1>1 DEF _announce, Send
  <2> HIDE DEF ms, sent
  <2>3. ReadingsIn(out') = ReadingsIn(out) /\ ReadingsIn(wire') = ReadingsIn(wire)
    BY <1>0, <2>1, <2>2, Silent
  <2>4. QED
    BY <1>1, <2>3, MovesKeepConserved DEF _announce, brokerVars, Conserved
<1>2. CASE SaySleeping
  <2> DEFINE m == <<Plain("sleeping")>>
  <2>1. m \in Seq(Message) /\ ReadingsIn(m) = {}
    <3>1. Plain("sleeping") \in Message /\ Plain("sleeping").kind = "sleeping"
      BY PlainType DEF Kinds, Plain
    <3>2. QED
      BY <3>1, OneMessage
  <2>2. ReadingsIn(out \o m) = ReadingsIn(out) /\ ReadingsIn(wire \o m) = ReadingsIn(wire)
    BY <1>0, <2>1, Silent
  <2>3. ReadingsIn(out') = ReadingsIn(out) /\ ReadingsIn(wire') = ReadingsIn(wire)
    BY <1>2, <2>2 DEF SaySleeping, Publish, Send
  <2>4. QED
    BY <1>2, <2>3, MovesKeepConserved DEF SaySleeping, brokerVars, Conserved
<1>3. QED
  BY <1>1, <1>2

LEMMA ConnectionConserves ==
    ASSUME TypeOK, Conserved,
           Connect \/ Lose \/ Receive \/ SendWill \/ Answer \/ ReadAnswer \/ Disconnect
    PROVE  Conserved'
<1>0. out \in Seq(Message) /\ wire \in Seq(Message) /\ back \in Seq(Message)
  BY DEF TypeOK
<1>1. CASE Connect
  BY <1>1, NoMessage, MovesKeepConserved DEF Connect
<1>2. CASE Lose
  BY <1>2, NoMessage, MovesKeepConserved DEF Lose
<1>3. CASE Receive
  <2> DEFINE m == Head(wire)
             read1 == IF m.kind = "reading" THEN {m.number} ELSE {}
  <2>1. m \in Message /\ ReadingsIn(wire) = ReadingsIn(wire') \cup read1
    BY <1>0, <1>3, Taking DEF Receive
  <2>2. heard' = heard \cup read1
    BY <1>3 DEF Receive
  <2>3. ReadingsIn(back') \subseteq ReadingsIn(back) \cup read1
    <3>1. ReadingsIn(Append(back, m)) = ReadingsIn(back) \cup read1
      BY <1>0, <2>1, Appending
    <3>2. QED
      BY <1>3, <3>1 DEF Receive
  <2>4. UNCHANGED <<mcu, readingVars, out>>
    BY <1>3 DEF Receive, clientVars
  <2> HIDE DEF m, read1
  <2>5. QED
    BY <2>1, <2>2, <2>3, <2>4, MovesKeepConserved DEF Conserved
<1>4. CASE SendWill
  BY <1>4, MovesKeepConserved DEF SendWill, clientVars, Conserved
<1>5. CASE Answer
  <2>1. Plain("registered") \in Message /\ Plain("registered").kind = "registered"
    BY PlainType DEF Kinds, Plain
  <2>2. ReadingsIn(Append(back, Plain("registered"))) = ReadingsIn(back)
    BY <1>0, <2>1, Appending
  <2>3. ReadingsIn(back') = ReadingsIn(back)
    BY <1>5, <2>2 DEF Answer
  <2>4. QED
    BY <1>5, <2>3, MovesKeepConserved DEF Answer, clientVars, Conserved
<1>6. CASE ReadAnswer
  <2> DEFINE m == Head(back)
             read1 == IF m.kind = "reading" THEN {m.number} ELSE {}
  <2>1. m \in Message /\ ReadingsIn(back) = ReadingsIn(back') \cup read1
    BY <1>0, <1>6, Taking DEF ReadAnswer
  <2>2. ReadingsIn(out') \subseteq ReadingsIn(out) /\ ReadingsIn(out) \subseteq ReadingsIn(out') \cup read1
    BY <1>0, <1>6, <2>1, Removing DEF ReadAnswer
  <2>3. UNCHANGED <<mcu, readingVars, wire, heard>>
    BY <1>6 DEF ReadAnswer, brokerVars
  <2> HIDE DEF m, read1
  <2>4. QED
    BY <2>1, <2>2, <2>3, MovesKeepConserved DEF Conserved
<1>7. CASE Disconnect
  <2> DEFINE m == Plain(IF status = "offline" THEN "drop" ELSE "bye")
  <2>1. m \in Message /\ m.kind # "reading"
    BY PlainType DEF Kinds, Plain
  <2>2. ReadingsIn(Append(wire, m)) = ReadingsIn(wire)
    BY <1>0, <2>1, Appending
  <2>3. ReadingsIn(wire') \subseteq ReadingsIn(wire) /\ ReadingsIn(back') = {}
    BY <1>7, <2>2, NoMessage DEF Disconnect
  <2>4. QED
    BY <1>7, <2>3, MovesKeepConserved DEF Disconnect
<1>8. QED
  BY <1>1, <1>2, <1>3, <1>4, <1>5, <1>6, <1>7

LEMMA ConservedStep == TypeOK /\ Conserved /\ [Next]_vars => Conserved'
<1> SUFFICES ASSUME TypeOK, Conserved, [Next]_vars PROVE Conserved'
  OBVIOUS
<1>1. CASE \/ _wake \/ StartRound \/ ReplyWaitOver \/ DropEnds \/ stop \/ Stopped
           \/ CheckLink \/ SetAnnounced \/ EndRound \/ _settle \/ GiveUp \/ _on_connect
           \/ UNCHANGED vars
  <2>1. UNCHANGED <<mcu, readingVars, out, wire, back, heard>>
    BY <1>1 DEF _wake, StartRound, ReplyWaitOver, DropEnds, stop, Stopped, CheckLink,
                SetAnnounced, EndRound, _settle, GiveUp, _on_connect,
                vars, nodeVars, clientVars, brokerVars
  <2>2. QED
    BY <2>1, MovesKeepConserved DEF Conserved
<1>2. QED
  BY <1>1, _flushConserves, TakeReadingConserves, PublishLateConserves, SendingConserves,
     ConnectionConserves DEF Next, NodeThread, NetworkThread

(* Every reading taken is held, on its way, heard or given up, and none of *)
(* what is held was published.                                             *)
THEOREM ReadingsAreConserved == Spec => []ReadingsConserved
<1>1. Init => TypeOK /\ Conserved
  BY InitType, ConservedInit
<1>2. TypeOK /\ Conserved /\ [Next]_vars => (TypeOK /\ Conserved)'
  BY StepType, ConservedStep
<1>3. TypeOK /\ Conserved => ReadingsConserved
  BY ConservedImplies
<1>4. QED
  BY <1>1, <1>2, <1>3, PTL DEF Spec

-----------------------------------------------------------------------------
(* "sleeping" stays on the topic.  While the connection lasts, the client  *)
(* keeps each "sleeping" that is on the wire or whose acknowledgement was   *)
(* not read, so that _settle cannot overlook the one just sent; what it    *)
(* sent before is acknowledged before.                                     *)

Owed == link = "up" => Sleepings(out) >= Sleepings(wire) + Sleepings(back)

Telling ==
  \/ wire # <<>> /\ wire[Len(wire)].kind = "sleeping"
  \/ /\ wire = <<>> /\ topic = "sleeping"
     /\ \A i \in DOMAIN back : back[i].kind \notin {"sleeping", "registered"} =>
          \E j \in DOMAIN back : i < j /\ back[j].kind = "sleeping"

Asleep ==
  /\ awake <=> link # "off"
  /\ link = "up" => ~willDue
  /\ pc \in {"announce", "announced", "flush", "sleep", "settle", "close"} => awake
  /\ told /\ awake =>
       /\ pc \in {"settle", "close"} /\ link = "up" /\ status = "sleeping" /\ Telling
       /\ pc = "close" => wire = <<>> /\ \A i \in DOMAIN back : back[i].kind = "registered"
  /\ told /\ ~awake =>
       topic = "sleeping" /\ ~willDue /\ \A i \in DOMAIN wire : wire[i].kind = "bye"

LEMMA OwedInit == Init => Owed
BY DEF Init, Owed

(* A step that leaves the client and the connection alone. *)
LEMMA OwedStays ==
    ASSUME Owed, link' = "up" => link = "up", UNCHANGED <<out, wire, back>>
    PROVE  Owed'
BY DEF Owed, Sleepings, At

LEMMA SendingOwes ==
    ASSUME TypeOK, Owed, link' = link, back' = back,
           NEW s \in Seq(Message), NEW t \in Seq(Message), Sleepings(s) = Sleepings(t),
           out' = out \o s, Send(t)
    PROVE  Owed'
<1>1. CASE link = "up"
  <2>1. out \in Seq(Message) /\ wire \in Seq(Message) /\ back \in Seq(Message)
    BY DEF TypeOK
  <2>2. /\ Sleepings(out') = Sleepings(out) + Sleepings(s)
        /\ Sleepings(wire') = Sleepings(wire) + Sleepings(t)
        /\ Sleepings(back') = Sleepings(back)
    BY <1>1, <2>1, Concatenation DEF Send
  <2>3. /\ Sleepings(out) \in Nat /\ Sleepings(wire) \in Nat /\ Sleepings(back) \in Nat
        /\ Sleepings(s) \in Nat /\ Sleepings(t) \in Nat
    BY <2>1, AtFinite
  <2>4. Sleepings(out) >= Sleepings(wire) + Sleepings(back)
    BY <1>1 DEF Owed
  <2>5. Sleepings(out') >= Sleepings(wire') + Sleepings(back')
    BY <2>2, <2>3, <2>4
  <2>6. Sleepings(out)' = Sleepings(out') /\ Sleepings(wire)' = Sleepings(wire')
        /\ Sleepings(back)' = Sleepings(back')
    BY DEF Sleepings, At
  <2>7. QED
    BY <2>5, <2>6 DEF Owed
<1>2. CASE link # "up"
  BY <1>2 DEF Owed
<1>3. QED
  BY <1>1, <1>2

LEMMA PublishReadingOwes ==
    ASSUME TypeOK, Owed, link' = link, back' = back, NEW r \in Readings, PublishReading(r)
    PROVE  Owed'
<1> DEFINE m == <<Reading(r)>>
<1>1. m \in Seq(Message) /\ Sleepings(m) = 0
  <2>1. Reading(r) \in Message /\ Reading(r).kind = "reading"
    BY ReadingType DEF Reading
  <2>2. QED
    BY <2>1, OneMessage
<1>2. CASE out' = out \o m /\ Send(m)
  BY <1>1, <1>2, SendingOwes
<1>3. CASE out' = out /\ Send(m)
  <2>1. out' = out \o <<>>
    BY <1>3 DEF TypeOK
  <2>2. <<>> \in Seq(Message) /\ Sleepings(<<>>) = Sleepings(m)
    BY <1>1, NoMessage
  <2>3. QED
    BY <1>1, <1>3, <2>1, <2>2, SendingOwes
<1>4. QED
  BY <1>2, <1>3 DEF PublishReading, Publish

LEMMA NodeOwes ==
    ASSUME TypeOK, Owed, _announce \/ _flush \/ TakeReading \/ PublishLate \/ SaySleeping
    PROVE  Owed'
<1>1. CASE _announce
  <2> DEFINE ms == (IF mcu.availability THEN <<Plain("online")>> ELSE <<>>)
                     \o (IF registered THEN <<>> ELSE <<Plain("register")>>)
             sent == <<Plain("subscribe")>> \o ms
  <2>1. ms \in Seq(Message) /\ sent \in Seq(Message) /\ Sleepings(ms) = 0 /\ Sleepings(sent) = 0
    BY AnnouncementType
  <2>2. UNCHANGED <<out, wire>> \/ (out' = out \o ms /\ Send(sent))
    BY <1>1 DEF _announce
  <2>3. link' = link /\ back' = back
    BY <1>1 DEF _announce
  <2> HIDE DEF ms, sent
  <2>4. QED
    BY <2>1, <2>2, <2>3, SendingOwes, OwedStays
<1>2. CASE _flush
  <2>1. link' = link /\ back' = back
    BY <1>2 DEF _flush
  <2>2. buffer # <<>> => Head(buffer) \in Readings
    BY DEF TypeOK
  <2>3. UNCHANGED <<out, wire>> \/ (buffer # <<>> /\ PublishReading(Head(buffer)))
    BY <1>2 DEF _flush
  <2>4. QED
    BY <2>1, <2>2, <2>3, OwedStays, PublishReadingOwes
<1>3. CASE TakeReading
  <2>1. link' = link /\ back' = back
    BY <1>3 DEF TakeReading
  <2>2. taken + 1 \in Readings
    BY <1>3, SettingsType DEF TakeReading, TypeOK, Readings
  <2>3. UNCHANGED <<out, wire>> \/ PublishReading(taken + 1)
    BY <1>3 DEF TakeReading, publish
  <2>4. QED
    BY <2>1, <2>2, <2>3, OwedStays, PublishReadingOwes
<1>4. CASE PublishLate
  <2>1. link' = link /\ back' = back
    BY <1>4 DEF PublishLate
  <2>2. PICK r \in late : publish(r)
    BY <1>4 DEF PublishLate
  <2>3. r \in Readings /\ (UNCHANGED <<out, wire>> \/ PublishReading(r))
    BY <2>2 DEF publish, TypeOK
  <2>4. QED
    BY <2>1, <2>3, OwedStays, PublishReadingOwes
<1>5. CASE SaySleeping
  <2>1. <<Plain("sleeping")>> \in Seq(Message)
    BY PlainType DEF Kinds
  <2>2. link' = link /\ back' = back
    BY <1>5 DEF SaySleeping
  <2>3. UNCHANGED <<out, wire>>
        \/ (out' = out \o <<Plain("sleeping")>> /\ Send(<<Plain("sleeping")>>))
    BY <1>5 DEF SaySleeping, Publish
  <2>4. QED
    BY <2>1, <2>2, <2>3, OwedStays, SendingOwes
<1>6. QED
  BY <1>1, <1>2, <1>3, <1>4, <1>5

LEMMA ConnectionOwes ==
    ASSUME TypeOK, Owed,
           Connect \/ Lose \/ Receive \/ SendWill \/ Answer \/ ReadAnswer \/ Disconnect
    PROVE  Owed'
<1>0. out \in Seq(Message) /\ wire \in Seq(Message) /\ back \in Seq(Message)
  BY DEF TypeOK
<1>n. Sleepings(out) \in Nat /\ Sleepings(wire) \in Nat /\ Sleepings(back) \in Nat
  BY <1>0, AtFinite
<1>p. /\ Sleepings(out)' = Sleepings(out') /\ Sleepings(wire)' = Sleepings(wire')
      /\ Sleepings(back)' = Sleepings(back')
  BY DEF Sleepings, At
<1>1. CASE Connect
  <2>1. Sleepings(wire') = Sleepings(out') /\ Sleepings(back') = 0 /\ Sleepings(out') \in Nat
    BY <1>1, <1>n, NoMessage DEF Connect
  <2>2. QED
    BY <2>1, <1>p DEF Owed
<1>2. CASE Lose
  BY <1>2 DEF Lose, Owed
<1>3. CASE Receive
  <2> DEFINE m == Head(wire)
             k == IF m.kind = "sleeping" THEN 1 ELSE 0
  <2>1. m \in Message /\ wire' \in Seq(Message) /\ Sleepings(wire) = Sleepings(wire') + k
    BY <1>0, <1>3, Taking DEF Receive
  <2>2. Sleepings(Append(back, m)) = Sleepings(back) + k
    BY <1>0, <2>1, Appending
  <2>3. Sleepings(back') = Sleepings(back) + k \/ Sleepings(back') = Sleepings(back)
    BY <1>3, <2>2 DEF Receive
  <2>4. Sleepings(wire') \in Nat /\ k \in {0, 1}
    BY <2>1, AtFinite
  <2>5. out' = out /\ link' = link
    BY <1>3 DEF Receive, clientVars
  <2> HIDE DEF m, k
  <2>6. QED
    BY <1>n, <1>p, <2>1, <2>3, <2>4, <2>5 DEF Owed
<1>4. CASE SendWill
  BY <1>4, OwedStays DEF SendWill, clientVars
<1>5. CASE Answer
  <2>1. Plain("registered") \in Message /\ Plain("registered").kind = "registered"
    BY PlainType DEF Kinds, Plain
  <2>2. Sleepings(Append(back, Plain("registered"))) = Sleepings(back)
    BY <1>0, <1>n, <2>1, Appending
  <2>3. Sleepings(back') = Sleepings(back)
    BY <1>5, <2>2 DEF Answer
  <2>4. UNCHANGED <<out, link, wire>>
    BY <1>5 DEF Answer, clientVars
  <2>5. QED
    BY <1>p, <2>3, <2>4 DEF Owed
<1>6. CASE ReadAnswer
  <2> DEFINE m == Head(back)
             k == IF m.kind = "sleeping" THEN 1 ELSE 0
  <2>1. m \in Message /\ back' \in Seq(Message) /\ Sleepings(back) = Sleepings(back') + k
    BY <1>0, <1>6, Taking DEF ReadAnswer
  <2>2. out' \in Seq(Message) /\ Sleepings(out') >= Sleepings(out) - k
    BY <1>0, <1>6, <2>1, Removing DEF ReadAnswer
  <2>3. Sleepings(back') \in Nat /\ Sleepings(out') \in Nat /\ k \in {0, 1}
    BY <2>1, <2>2, AtFinite
  <2>4. wire' = wire /\ link' = link
    BY <1>6 DEF ReadAnswer
  <2> HIDE DEF m, k
  <2>5. QED
    BY <1>n, <1>p, <2>1, <2>2, <2>3, <2>4 DEF Owed
<1>7. CASE Disconnect
  BY <1>7 DEF Disconnect, Owed
<1>8. QED
  BY <1>1, <1>2, <1>3, <1>4, <1>5, <1>6, <1>7

LEMMA OwedStep == TypeOK /\ Owed /\ [Next]_vars => Owed'
<1> SUFFICES ASSUME TypeOK, Owed, [Next]_vars PROVE Owed'
  OBVIOUS
<1>1. CASE \/ _wake \/ StartRound \/ ReplyWaitOver \/ DropEnds \/ stop \/ Stopped
           \/ CheckLink \/ SetAnnounced \/ EndRound \/ _settle \/ GiveUp \/ _on_connect
           \/ UNCHANGED vars
  <2>1. UNCHANGED <<out, wire, back>> /\ (link' = "up" => link = "up")
    BY <1>1 DEF _wake, StartRound, ReplyWaitOver, DropEnds, stop, Stopped, CheckLink,
                SetAnnounced, EndRound, _settle, GiveUp, _on_connect, vars, clientVars
  <2>2. QED
    BY <2>1, OwedStays
<1>2. QED
  BY <1>1, NodeOwes, ConnectionOwes DEF Next, NodeThread, NetworkThread

LEMMA AsleepInit == Init => Asleep
BY DEF Init, Asleep

(* A step of the node's that sends nothing and stays out of _sleep. *)
LEMMA NodeAsleep ==
    ASSUME TypeOK, Asleep,
           \/ _wake \/ StartRound \/ ReplyWaitOver \/ DropEnds \/ stop \/ Stopped
           \/ CheckLink \/ SetAnnounced \/ EndRound \/ GiveUp \/ _on_connect
           \/ UNCHANGED vars
    PROVE  Asleep'
<1>0. told \in BOOLEAN /\ awake \in BOOLEAN
  BY DEF TypeOK
<1>1. CASE _wake \/ GiveUp
  BY <1>1 DEF _wake, GiveUp, Asleep, clientVars, brokerVars
<1>2. CASE StartRound \/ ReplyWaitOver \/ CheckLink \/ SetAnnounced
  BY <1>2 DEF StartRound, ReplyWaitOver, CheckLink, SetAnnounced, connected,
              Asleep, Telling, clientVars, brokerVars
<1>3. CASE stop \/ EndRound
  BY <1>3 DEF stop, EndRound, Asleep, Telling, clientVars, brokerVars
<1>4. CASE DropEnds \/ Stopped \/ _on_connect \/ UNCHANGED vars
  BY <1>4 DEF DropEnds, Stopped, _on_connect, vars, nodeVars, clientVars, brokerVars,
              Asleep, Telling
<1>5. QED
  BY <1>1, <1>2, <1>3, <1>4

(* Until the node sleeps, nothing was told; asleep, it sends nothing. *)
LEMMA PublishingAsleep ==
    ASSUME TypeOK, Asleep, _announce \/ _flush \/ TakeReading \/ PublishLate
    PROVE  Asleep'
<1>1. UNCHANGED <<awake, link, willDue, told, status, topic, back>>
  BY DEF _announce, _flush, TakeReading, PublishLate, nodeVars, brokerVars
<1>2. pc' \in {"announce", "announced", "flush", "sleep", "settle", "close"} => awake
  BY DEF _announce, _flush, TakeReading, PublishLate, nodeVars, Asleep
<1>3. pc \notin {"settle", "close"}
  BY DEF _announce, _flush, TakeReading, PublishLate
<1>4. ~awake => wire' = wire
  BY DEF _announce, _flush, TakeReading, PublishLate, publish, connected, Asleep
<1>5. QED
  BY <1>1, <1>2, <1>3, <1>4 DEF Asleep

LEMMA SayingAsleep ==
    ASSUME TypeOK, Asleep, SaySleeping
    PROVE  Asleep'
<1>1. UNCHANGED <<awake, link, willDue, status, topic, back>> /\ pc = "sleep" /\ awake
  BY DEF SaySleeping, brokerVars, Asleep
<1>2. ~told
  BY <1>1 DEF Asleep
<1>3. CASE told' # told
  <2> DEFINE m == Plain("sleeping")
  <2>1. status = "sleeping" /\ link = "up" /\ pc' = "settle" /\ wire' = wire \o <<m>>
    BY <1>2, <1>3 DEF SaySleeping, connected, Publish, Send
  <2>2. wire \in Seq(Message) /\ m \in Message /\ m.kind = "sleeping"
    BY PlainType DEF TypeOK, Kinds, Plain
  <2> HIDE DEF m
  <2>3. wire' # <<>> /\ wire'[Len(wire')] = m
    BY <2>1, <2>2
  <2>4. QED
    BY <1>1, <2>1, <2>2, <2>3 DEF Asleep, Telling
<1>4. CASE told' = told
  BY <1>1, <1>2, <1>4 DEF SaySleeping, Asleep
<1>5. QED
  BY <1>3, <1>4

(* Everything that _settle waits for was answered: so was "sleeping". *)
LEMMA SettlingAsleep ==
    ASSUME TypeOK, Owed, Asleep, _settle
    PROVE  Asleep'
<1>1. /\ UNCHANGED <<awake, link, willDue, status, topic, back, told, wire>>
      /\ pc = "settle" /\ pc' = "close" /\ awake
  BY DEF _settle, nodeVars, clientVars, brokerVars, Asleep
<1>2. ASSUME told
      PROVE  wire = <<>> /\ \A i \in DOMAIN back : back[i].kind = "registered"
  <2>1. out \in Seq(Message) /\ wire \in Seq(Message) /\ back \in Seq(Message)
    BY DEF TypeOK
  <2>2. link = "up" /\ Telling
    BY <1>1, <1>2 DEF Asleep
  <2>3. Sleepings(out) = 0
    <3>1. \A i \in DOMAIN out : out[i].kind # "sleeping"
      BY DEF _settle, Answered
    <3>2. QED
      BY <2>1, <3>1, NoSleeping
  <2>4. Sleepings(wire) = 0 /\ Sleepings(back) = 0
    BY <2>1, <2>2, <2>3, AtFinite DEF Owed
  <2>5. /\ \A i \in DOMAIN wire : wire[i].kind # "sleeping"
        /\ \A i \in DOMAIN back : back[i].kind # "sleeping"
    BY <2>1, <2>4, NoSleeping
  <2>6. wire # <<>> => Len(wire) \in DOMAIN wire
    BY <2>1
  <2>7. QED
    BY <2>2, <2>5, <2>6 DEF Telling
<1>3. QED
  BY <1>1, <1>2 DEF Asleep, Telling

LEMMA ReceiveAsleep ==
    ASSUME TypeOK, Asleep, Receive
    PROVE  Asleep'
<1> DEFINE m == Head(wire)
<1>1. /\ UNCHANGED <<awake, link, willDue, status, told, pc>>
      /\ wire # <<>> /\ wire' = Tail(wire)
  BY DEF Receive, nodeVars, clientVars
<1>2. /\ wire \in Seq(Message) /\ m = wire[1] /\ Len(wire) >= 1
      /\ Len(wire') = Len(wire) - 1 /\ DOMAIN wire' = 1 .. Len(wire) - 1
      /\ \A i \in 1 .. Len(wire) - 1 : wire'[i] = wire[i + 1]
  BY <1>1 DEF TypeOK
<1>3. ASSUME told, awake PROVE Telling' /\ pc' # "close"
  <2>1. pc # "close" /\ link = "up" /\ wire[Len(wire)].kind = "sleeping"
    BY <1>1, <1>3 DEF Asleep, Telling
  <2>2. CASE Len(wire) > 1
    <3>1. wire' # <<>> /\ wire'[Len(wire')] = wire[Len(wire)]
      BY <1>2, <2>2
    <3>2. QED
      BY <1>1, <2>1, <3>1 DEF Telling
  <2>3. CASE Len(wire) = 1
    <3>1. wire' = <<>> /\ m.kind = "sleeping"
      BY <1>1, <1>2, <2>1, <2>3
    <3>2. topic' = "sleeping" /\ back' = Append(back, m)
      BY <2>1, <3>1 DEF Receive, Acked
    <3>3. /\ DOMAIN back' = 1 .. Len(back) + 1 /\ Len(back) \in Nat
          /\ back'[Len(back) + 1] = m
      BY <3>2 DEF TypeOK
    <3>4. ASSUME NEW i \in DOMAIN back', back'[i].kind # "sleeping"
          PROVE  \E j \in DOMAIN back' : i < j /\ back'[j].kind = "sleeping"
      BY <3>1, <3>3, <3>4
    <3>5. QED
      BY <1>1, <2>1, <3>1, <3>2, <3>4 DEF Telling
  <2>4. QED
    BY <1>2, <2>2, <2>3
<1>4. ASSUME told, ~awake PROVE topic' = topic /\ \A i \in DOMAIN wire' : wire'[i].kind = "bye"
  <2>1. \A i \in DOMAIN wire : wire[i].kind = "bye"
    BY <1>4 DEF Asleep
  <2>2. m.kind = "bye"
    BY <1>2, <2>1
  <2>3. topic' = topic
    BY <2>2 DEF Receive
  <2>4. \A i \in DOMAIN wire' : i + 1 \in DOMAIN wire
    BY <1>2
  <2>5. QED
    BY <1>2, <2>1, <2>3, <2>4
<1>5. QED
  BY <1>1, <1>3, <1>4 DEF Asleep

LEMMA AnswerAsleep ==
    ASSUME TypeOK, Asleep, Answer
    PROVE  Asleep'
<1> DEFINE m == Plain("registered")
<1>1. UNCHANGED <<awake, link, willDue, status, told, pc, wire, topic>>
  BY DEF Answer, nodeVars, clientVars
<1>2. m.kind = "registered" /\ (back' = back \/ back' = Append(back, m))
  BY DEF Answer, Plain
<1>3. CASE back' = back
  BY <1>1, <1>3 DEF Asleep, Telling
<1>4. CASE back' = Append(back, m)
  <2>1. /\ DOMAIN back' = 1 .. Len(back) + 1 /\ DOMAIN back = 1 .. Len(back) /\ Len(back) \in Nat
        /\ back'[Len(back) + 1] = m /\ \A i \in 1 .. Len(back) : back'[i] = back[i]
    BY <1>4 DEF TypeOK
  <2> HIDE DEF m
  <2>2. \A i \in DOMAIN back' : i = Len(back) + 1 \/ (i \in DOMAIN back /\ back'[i] = back[i])
    BY <2>1
  <2>3. \A i \in DOMAIN back : i \in DOMAIN back' /\ back'[i] = back[i]
    BY <2>1
  <2>4. Telling => Telling'
    BY <1>1, <1>2, <2>1, <2>2, <2>3 DEF Telling
  <2>5. (\A i \in DOMAIN back : back[i].kind = "registered")
           => \A i \in DOMAIN back' : back'[i].kind = "registered"
    BY <1>2, <2>1, <2>2
  <2>6. QED
    BY <1>1, <2>4, <2>5 DEF Asleep
<1>5. QED
  BY <1>2, <1>3, <1>4

LEMMA ReadAnswerAsleep ==
    ASSUME TypeOK, Asleep, ReadAnswer
    PROVE  Asleep'
<1>1. /\ UNCHANGED <<awake, link, willDue, status, told, pc, wire, topic>>
      /\ back # <<>> /\ back' = Tail(back)
  BY DEF ReadAnswer, nodeVars, brokerVars
<1>2. /\ DOMAIN back' = 1 .. Len(back) - 1 /\ DOMAIN back = 1 .. Len(back) /\ Len(back) \in Nat
      /\ \A i \in 1 .. Len(back) - 1 : back'[i] = back[i + 1]
  BY <1>1 DEF TypeOK
<1>3. \A i \in DOMAIN back' : i \in Int /\ i + 1 \in DOMAIN back /\ back'[i] = back[i + 1]
  BY <1>2
<1>4. ASSUME Telling PROVE Telling'
  <2>1. CASE wire # <<>> /\ wire[Len(wire)].kind = "sleeping"
    BY <1>1, <2>1 DEF Telling
  <2>2. CASE /\ wire = <<>> /\ topic = "sleeping"
             /\ \A i \in DOMAIN back : back[i].kind \notin {"sleeping", "registered"} =>
                  \E j \in DOMAIN back : i < j /\ back[j].kind = "sleeping"
    <3>1. ASSUME NEW i \in DOMAIN back', back'[i].kind \notin {"sleeping", "registered"}
          PROVE  \E j \in DOMAIN back' : i < j /\ back'[j].kind = "sleeping"
      <4>1. PICK j \in DOMAIN back : i + 1 < j /\ back[j].kind = "sleeping"
        BY <1>3, <2>2, <3>1
      <4>2. j - 1 \in DOMAIN back' /\ back'[j - 1] = back[j] /\ i < j - 1
        BY <1>2, <1>3, <4>1
      <4>3. QED
        BY <4>1, <4>2
    <3>2. QED
      BY <1>1, <2>2, <3>1 DEF Telling
  <2>3. QED
    BY <1>4, <2>1, <2>2 DEF Telling
<1>5. QED
  BY <1>1, <1>3, <1>4 DEF Asleep

(* A clean end: "sleeping" was acknowledged, and no answer is left unread. *)
LEMMA DisconnectAsleep ==
    ASSUME TypeOK, Asleep, Disconnect
    PROVE  Asleep'
<1>1. /\ link' = "off" /\ ~awake' /\ topic' = topic /\ pc = "close"
      /\ pc' \in {"idle", "stopped"} /\ awake
  BY DEF Disconnect, Asleep
<1>2. ASSUME told' PROVE topic = "sleeping" /\ ~willDue' /\ \A i \in DOMAIN wire' : wire'[i].kind = "bye"
  <2>1. told /\ Plain("registered") \notin ToSet(back)
    BY <1>2 DEF Disconnect
  <2>2. /\ link = "up" /\ ~willDue /\ status = "sleeping" /\ wire = <<>> /\ topic = "sleeping"
        /\ \A i \in DOMAIN back : back[i].kind = "registered"
    BY <1>1, <2>1 DEF Asleep, Telling
  <2>3. back = <<>>
    <3>1. ASSUME NEW i \in DOMAIN back PROVE back[i] = Plain("registered")
      <4>1. back[i] \in Message /\ back[i].kind = "registered"
        BY <2>2 DEF TypeOK
      <4>2. QED
        BY <4>1 DEF Message, Plain, Kinds
    <3>2. DOMAIN back = {}
      BY <2>1, <3>1 DEF ToSet
    <3>3. QED
      BY <3>2 DEF TypeOK
  <2>4. wire' = Append(wire, Plain("bye")) /\ willDue' = willDue
    BY <2>2, <2>3 DEF Disconnect
  <2>5. wire' = <<Plain("bye")>> /\ Plain("bye").kind = "bye"
    BY <2>2, <2>4 DEF Plain
  <2>6. QED
    BY <2>2, <2>4, <2>5
<1>3. QED
  BY <1>1, <1>2 DEF Asleep

LEMMA LinkAsleep ==
    ASSUME TypeOK, Asleep, Connect \/ Lose \/ SendWill
    PROVE  Asleep'
<1>1. CASE Connect
  <2>1. UNCHANGED <<awake, told, pc, willDue>> /\ link = "joining" /\ link' = "up" /\ ~willDue
    BY <1>1 DEF Connect, nodeVars
  <2>2. QED
    BY <2>1 DEF Asleep
<1>2. CASE Lose
  BY <1>2 DEF Lose, nodeVars, Asleep
<1>3. CASE SendWill
  BY <1>3 DEF SendWill, nodeVars, clientVars, Asleep
<1>4. QED
  BY <1>1, <1>2, <1>3

LEMMA AsleepStep == TypeOK /\ Owed /\ Asleep /\ [Next]_vars => Asleep'
BY NodeAsleep, PublishingAsleep, SayingAsleep, SettlingAsleep, ReceiveAsleep, AnswerAsleep,
   ReadAnswerAsleep, DisconnectAsleep, LinkAsleep DEF Next, NodeThread, NetworkThread

(* A sleeper whose "sleeping" was sent and met no trouble has it on the    *)
(* topic for as long as it sleeps.                                         *)
THEOREM SleepingIsTold == Spec => []SleepingTold
<1>1. Init => TypeOK /\ Owed /\ Asleep
  BY InitType, OwedInit, AsleepInit
<1>2. TypeOK /\ Owed /\ Asleep /\ [Next]_vars => (TypeOK /\ Owed /\ Asleep)'
  BY StepType, OwedStep, AsleepStep
<1>3. Asleep => SleepingTold
  BY DEF Asleep, SleepingTold
<1>4. QED
  BY <1>1, <1>2, <1>3, PTL DEF Spec

=============================================================================
