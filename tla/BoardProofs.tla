---------------------------- MODULE BoardProofs ----------------------------
(***************************************************************************)
(* What holds of the emulated board: of its serial port, for any number of *)
(* readers, sizes and timeouts, of its I2C bus, of the files a board has,  *)
(* of the parts on the buses, and of the layout that puts them there.      *)
(***************************************************************************)
EXTENDS Serial, SequenceTheorems, FiniteSetTheorems, TLAPS

(* The constants are what the module's comments say. *)
Sensible == Capacity \in Nat /\ MaxBytes \in Nat /\ Sizes \subseteq Nat \ {0}

Byte == {"rx"} \X (1..MaxBytes)

Reading == [kind : {"none", "read", "line"}, size : Nat, line : Seq(Byte)]

(* TypeOK does not look at the calls. *)
Types ==
    /\ TypeOK
    /\ call \in [Scripts -> Reading]

-----------------------------------------------------------------------------
LEMMA BytesLeft ==
    ASSUME Sensible, rx \in Seq(Byte), Len(rx) <= Capacity, NEW n \in 0..Len(rx)
    PROVE  /\ Left(n) \in Seq(Byte)
           /\ Len(Left(n)) = Len(rx) - n
           /\ \A i \in 1..Len(Left(n)) : Left(n)[i] = rx[n + i]
<1>1. Len(rx) \in Nat /\ \A i \in n + 1..Len(rx) : rx[i] \in Byte
  BY ElementOfSeq, LenProperties
<1>2. n + 1 \in Int /\ Len(rx) \in Int
  BY <1>1
<1>3. /\ SubSeq(rx, n + 1, Len(rx)) \in Seq(Byte)
      /\ Len(SubSeq(rx, n + 1, Len(rx))) = IF n + 1 <= Len(rx) THEN Len(rx) - (n + 1) + 1 ELSE 0
      /\ \A i \in 1..Len(rx) - (n + 1) + 1 : SubSeq(rx, n + 1, Len(rx))[i] = rx[n + 1 + i - 1]
  BY <1>1, <1>2, SubSeqProperties
<1>4. QED
  BY <1>1, <1>3 DEF Left

LEMMA LineGrows ==
    ASSUME Sensible, Types, NEW s \in Scripts, NEW n \in 0..Len(rx), n <= 1
    PROVE  /\ SubSeq(rx, 1, n) \in Seq(Byte)
           /\ Len(SubSeq(rx, 1, n)) = n
           /\ n = 1 => SubSeq(rx, 1, n)[1] = rx[1]
           /\ call[s].line \o SubSeq(rx, 1, n) \in Seq(Byte)
<1>1. rx \in Seq(Byte) /\ call[s].line \in Seq(Byte)
  BY DEF Types, TypeOK, Byte, Reading
<1>2. Len(rx) \in Nat /\ \A i \in 1..n : rx[i] \in Byte
  BY <1>1, ElementOfSeq, LenProperties
<1>3. /\ SubSeq(rx, 1, n) \in Seq(Byte)
      /\ Len(SubSeq(rx, 1, n)) = IF 1 <= n THEN n - 1 + 1 ELSE 0
      /\ \A i \in 1..n - 1 + 1 : SubSeq(rx, 1, n)[i] = rx[1 + i - 1]
  BY <1>2, SubSeqProperties
<1>4. QED
  BY <1>1, <1>3, ConcatProperties

LEMMA TakesSome ==
    ASSUME NEW s, NEW count, NEW n \in Takes(s, count)
    PROVE  n \in 0..Len(rx)
BY DEF Takes

LEMMA TakesOne ==
    ASSUME Types, NEW s, NEW n \in Takes(s, 1)
    PROVE  n <= 1
<1>1. Len(rx) \in Nat
  BY DEF Types, TypeOK, Byte
<1>2. QED
  BY <1>1 DEF Takes

-----------------------------------------------------------------------------
LEMMA InitTypes == ASSUME Sensible, Init PROVE Types
<1>1. <<>> \in Seq(Byte) /\ Len(<<>>) = 0
  BY EmptySeq
<1>2. QED
  BY <1>1 DEF Init, Types, TypeOK, Byte, Reading, NoCall, Sensible, Idle

LEMMA FeedTypes == ASSUME Sensible, Types, feed PROVE Types'
<1>1. <<"rx", arrived + 1>> \in Byte
  BY DEF Types, TypeOK, Byte, feed, Fits, Sensible
<1>2. rx' \in Seq(Byte) /\ Len(rx') = Len(rx) + 1
  BY <1>1 DEF Types, TypeOK, Byte, feed
<1>3. Len(rx') <= Capacity
  BY <1>2 DEF Types, TypeOK, Byte, feed, Fits, Sensible
<1>4. QED
  BY <1>2, <1>3 DEF Types, TypeOK, Byte, feed, Fits, Sensible, Idle

LEMMA OwnerTypes ==
    ASSUME Sensible, Types, NEW s \in Scripts,
           \/ Open(s) \/ Close(s) \/ write(s) \/ reset_input_buffer(s)
           \/ \E kind \in {"read", "line"}, size \in Sizes : Begin(s, kind, size)
    PROVE  Types'
<1>0. <<>> \in Seq(Byte) /\ Len(<<>>) = 0
  BY EmptySeq
<1>1. CASE Open(s) \/ reset_input_buffer(s)
  <2>1. rx' \in {rx, <<>>} /\ arrived' = arrived /\ call' = call
    BY <1>1 DEF Open, reset_input_buffer, flush_input
  <2>2. open' \in SUBSET Scripts /\ open \subseteq open'
    BY <1>1 DEF Open, reset_input_buffer, Types, TypeOK
  <2>3. rx' \in Seq(Byte) /\ Len(rx') <= Capacity
    <3>1. CASE rx' = rx
      BY <3>1 DEF Types, TypeOK, Byte
    <3>2. CASE rx' = <<>>
      BY <1>0, <3>2 DEF Sensible
    <3>3. QED
      BY <2>1, <3>1, <3>2
  <2>4. QED
    BY <2>1, <2>2, <2>3 DEF Types, TypeOK, Byte, Idle
<1>2. CASE Close(s)
  BY <1>2 DEF Types, TypeOK, Byte, Close, Idle
<1>3. CASE write(s)
  BY <1>3, FeedTypes DEF write
<1>4. ASSUME NEW kind \in {"read", "line"}, NEW size \in Sizes, Begin(s, kind, size)
      PROVE  Types'
  <2>1. call' \in [Scripts -> Reading]
    BY <1>0, <1>4 DEF Types, Begin, Reading, Sensible
  <2>2. \A u \in Scripts : ~Idle(u)' => u \in open
    BY <1>4 DEF Types, TypeOK, Begin, Idle
  <2>3. QED
    BY <1>4, <2>1, <2>2 DEF Types, TypeOK, Byte, Begin, Idle
<1>5. QED
  BY <1>1, <1>2, <1>3, <1>4

LEMMA ReadTypes ==
    ASSUME Sensible, Types, NEW s \in Scripts, Reads(s)
    PROVE  Types'
<1>1. NoCall \in Reading
  BY EmptySeq DEF NoCall, Reading
<1>2. rx \in Seq(Byte) /\ Len(rx) \in Nat /\ Len(rx) <= Capacity
  BY DEF Types, TypeOK, Byte
<1>3. CASE read(s)
  <2>1. PICK n \in Takes(s, call[s].size) : rx' = Left(n)
    BY <1>3 DEF read
  <2>2. rx' \in Seq(Byte) /\ Len(rx') <= Capacity
    BY <1>2, <2>1, TakesSome, BytesLeft DEF Sensible
  <2>3. QED
    BY <1>1, <1>3, <2>2 DEF Types, TypeOK, Byte, read, Return, Idle
<1>4. CASE read_until(s)
  <2> DEFINE line(n) == call[s].line \o SubSeq(rx, 1, n)
  <2>1. PICK n \in Takes(s, 1) :
          /\ rx' = Left(n)
          /\ \/ Return(s)
             \/ call' = [call EXCEPT ![s].line = line(n)]
    BY <1>4 DEF read_until
  <2> HIDE DEF line
  <2>2. n \in 0..Len(rx) /\ n <= 1
    BY <2>1, TakesSome, TakesOne
  <2>3. rx' \in Seq(Byte) /\ Len(rx') <= Capacity
    BY <1>2, <2>1, <2>2, BytesLeft DEF Sensible
  <2>4. line(n) \in Seq(Byte)
    BY <2>2, LineGrows DEF line
  <2>5. call' \in [Scripts -> Reading]
    <3>1. call[s] \in Reading
      BY DEF Types
    <3>2. [call[s] EXCEPT !.line = line(n)] \in Reading
      BY <2>4, <3>1 DEF Reading
    <3>3. QED
      BY <1>1, <2>1, <3>2 DEF Types, Return
  <2>6. \A u \in Scripts : ~Idle(u)' => u \in open
    <3>1. ~Idle(s)
      BY <1>4 DEF read_until, Idle, NoCall
    <3>2. \A u \in Scripts \ {s} : call'[u] = call[u]
      BY <2>1 DEF Types, Return
    <3>3. QED
      BY <3>1, <3>2 DEF Types, TypeOK, Idle
  <2>7. QED
    BY <1>4, <2>3, <2>5, <2>6 DEF Types, TypeOK, Byte, read_until
<1>5. QED
  BY <1>3, <1>4 DEF Reads

LEMMA NextTypes == ASSUME Sensible, Types, [Next]_vars PROVE Types'
<1>1. CASE Next
  BY <1>1, FeedTypes, OwnerTypes, ReadTypes DEF Next
<1>2. CASE UNCHANGED vars
  BY <1>2 DEF vars, Types, TypeOK, Byte, Idle
<1>3. QED
  BY <1>1, <1>2

(* buses.py: the port's bytes and the objects in use keep their types, and *)
(* only a script whose port is open is in a call.                          *)
THEOREM SerialTypeCorrect == ASSUME Sensible PROVE Spec => []TypeOK
<1>1. Init => Types
  BY InitTypes
<1>2. Types /\ [Next]_vars => Types'
  BY NextTypes
<1>3. Types => TypeOK
  BY DEF Types
<1>4. QED
  BY <1>1, <1>2, <1>3, PTL DEF Spec

-----------------------------------------------------------------------------
(* The port is an EventQueue of one buffer and one source.                 *)

LEMMA FeedPuts == ASSUME Types, feed PROVE Buffer!Put("port", "rx")
BY DEF feed, Fits, Buffer!Put

LEMMA ReadTakes ==
    ASSUME Sensible, Types, NEW n \in 0..Len(rx), rx' = Left(n), arrived' = arrived
    PROVE  [Buffer!Next]_Buffer!vars
<1>1. rx \in Seq(Byte) /\ Len(rx) \in Nat /\ Len(rx) <= Capacity
  BY DEF Types, TypeOK, Byte
<1>2. CASE n = 0
  <2>1. rx' = rx
    BY <1>1, <1>2, SubSeqFull DEF Left
  <2>2. QED
    BY <2>1 DEF Buffer!vars
<1>3. CASE n > 0
  <2>1. n \in 1..Capacity
    BY <1>1, <1>3 DEF Sensible
  <2>2. Buffer!Take("port", n)
    <3>1. /\ [q \in {"port"} |-> rx]["port"] = rx
          /\ [[q \in {"port"} |-> rx] EXCEPT !["port"] = Left(n)] = [q \in {"port"} |-> Left(n)]
      OBVIOUS
    <3>2. n <= Len(rx)
      BY <1>1
    <3>3. QED
      BY <3>1, <3>2 DEF Buffer!Take, Left
  <2>3. QED
    BY <2>1, <2>2 DEF Buffer!Next
<1>4. QED
  BY <1>2, <1>3

LEMMA FlushDrops == ASSUME flush_input PROVE Buffer!Drop("port")
BY DEF flush_input, Buffer!Drop

LEMMA NextBuffers == ASSUME Sensible, Types, [Next]_vars PROVE [Buffer!Next]_Buffer!vars
<1>1. ASSUME rx' = rx, arrived' = arrived PROVE UNCHANGED Buffer!vars
  BY <1>1 DEF Buffer!vars
<1>2. CASE feed \/ \E s \in Scripts : write(s)
  BY <1>2, FeedPuts DEF write, Buffer!Next
<1>3. ASSUME NEW s \in Scripts, Open(s) \/ reset_input_buffer(s)
      PROVE  [Buffer!Next]_Buffer!vars
  <2>1. flush_input \/ (rx' = rx /\ arrived' = arrived)
    BY <1>3 DEF Open, reset_input_buffer
  <2>2. QED
    BY <1>1, <2>1, FlushDrops DEF Buffer!Next
<1>4. ASSUME NEW s \in Scripts, Reads(s)
      PROVE  [Buffer!Next]_Buffer!vars
  <2>1. PICK n \in 0..Len(rx) : rx' = Left(n) /\ arrived' = arrived
    BY <1>4, TakesSome DEF Reads, read, read_until
  <2>2. QED
    BY <2>1, ReadTakes
<1>5. ASSUME NEW s \in Scripts,
             Close(s) \/ \E kind \in {"read", "line"}, size \in Sizes : Begin(s, kind, size)
      PROVE  [Buffer!Next]_Buffer!vars
  BY <1>1, <1>5 DEF Close, Begin
<1>6. CASE UNCHANGED vars
  BY <1>1, <1>6 DEF vars
<1>7. QED
  BY <1>2, <1>3, <1>4, <1>5, <1>6 DEF Next

(* buses.py's serial port implements EventQueue: whoever reads, flushes,   *)
(* opens and closes, its bytes are handed over once and in order.          *)
THEOREM SerialBuffersEvents == ASSUME Sensible PROVE Spec => BuffersEvents
<1>1. Init => Types
  BY InitTypes
<1>2. Types /\ [Next]_vars => Types'
  BY NextTypes
<1>3. Init => Buffer!Init
  BY DEF Init, Buffer!Init
<1>4. Types /\ [Next]_vars => [Buffer!Next]_Buffer!vars
  BY NextBuffers
<1>5. QED
  BY <1>1, <1>2, <1>3, <1>4, PTL DEF Spec, BuffersEvents, Buffer!Spec

-----------------------------------------------------------------------------
(* The bytes that wait are in order, and nothing is newer than "arrived".  *)
Ordered ==
    /\ \A i, j \in DOMAIN rx : i < j => rx[i][2] < rx[j][2]
    /\ \A i \in DOMAIN rx : rx[i][2] <= arrived
    /\ \A s \in Scripts : \A i \in DOMAIN call[s].line : call[s].line[i][2] <= arrived
    /\ LinesInOrder

LEMMA Numbers ==
    ASSUME NEW q \in Seq(Byte)
    PROVE  /\ Len(q) \in Nat /\ DOMAIN q = 1..Len(q)
           /\ \A i \in DOMAIN q : q[i][2] \in Int
BY ElementOfSeq, LenProperties DEF Byte

LEMMA SequenceTypes ==
    ASSUME Types
    PROVE  /\ rx \in Seq(Byte)
           /\ arrived \in Int
           /\ \A s \in Scripts : call[s].line \in Seq(Byte)
BY DEF Types, TypeOK, Byte, Reading

(* What is left in order is so after bytes were taken from the front.      *)
LEMMA FewerOrdered ==
    ASSUME Sensible, Types, Ordered, NEW n \in 0..Len(rx), rx' = Left(n), arrived' = arrived,
           \A s \in Scripts : call'[s].line \in {call[s].line, <<>>}
    PROVE  Ordered'
<1>1. /\ rx' \in Seq(Byte) /\ DOMAIN rx' = 1..Len(rx') /\ DOMAIN rx = 1..Len(rx)
      /\ Len(rx) \in Nat /\ Len(rx') = Len(rx) - n
      /\ \A i \in DOMAIN rx' : n + i \in DOMAIN rx /\ rx'[i] = rx[n + i]
  <2>1. rx \in Seq(Byte) /\ Len(rx) \in Nat /\ DOMAIN rx = 1..Len(rx) /\ Len(rx) <= Capacity
    BY SequenceTypes, Numbers DEF Types, TypeOK
  <2>2. /\ rx' \in Seq(Byte) /\ Len(rx') = Len(rx) - n
        /\ \A i \in 1..Len(rx') : rx'[i] = rx[n + i]
    BY <2>1, BytesLeft
  <2>3. DOMAIN rx' = 1..Len(rx')
    BY <2>2, Numbers
  <2>4. QED
    BY <2>1, <2>2, <2>3
<1>2. /\ \A i, j \in DOMAIN rx' : i < j => rx'[i][2] < rx'[j][2]
      /\ \A i \in DOMAIN rx' : rx'[i][2] <= arrived'
  BY <1>1, SMTT(30) DEF Ordered
<1>3. ASSUME NEW s \in Scripts
      PROVE  /\ \A i \in DOMAIN call'[s].line : call'[s].line[i][2] <= arrived'
             /\ \A i, j \in DOMAIN call'[s].line :
                    i < j => call'[s].line[i][2] < call'[s].line[j][2]
             /\ \A i \in DOMAIN call'[s].line, j \in DOMAIN rx' : call'[s].line[i][2] < rx'[j][2]
  <2>1. CASE call'[s].line = call[s].line
    BY <1>1, <2>1 DEF Ordered, LinesInOrder
  <2>2. CASE call'[s].line = <<>>
    BY <2>2
  <2>3. QED
    BY <2>1, <2>2
<1>4. QED
  BY <1>2, <1>3 DEF Ordered, LinesInOrder

LEMMA FeedOrdered == ASSUME Sensible, Types, Ordered, feed PROVE Ordered'
<1>1. /\ Len(rx) \in Nat /\ DOMAIN rx = 1..Len(rx) /\ arrived \in Int
      /\ \A i \in DOMAIN rx : rx[i][2] \in Int
  BY SequenceTypes, Numbers
<1>2. /\ DOMAIN rx' = 1..Len(rx) + 1 /\ arrived' = arrived + 1 /\ call' = call
      /\ \A i \in DOMAIN rx : rx'[i] = rx[i]
      /\ rx'[Len(rx) + 1] = <<"rx", arrived + 1>>
  BY <1>1, SequenceTypes DEF feed
<1>3. /\ \A i, j \in DOMAIN rx' : i < j => rx'[i][2] < rx'[j][2]
      /\ \A i \in DOMAIN rx' : rx'[i][2] <= arrived'
  BY <1>1, <1>2 DEF Ordered
<1>4. ASSUME NEW s \in Scripts
      PROVE  /\ \A i \in DOMAIN call[s].line : call[s].line[i][2] <= arrived'
             /\ \A i \in DOMAIN call[s].line, j \in DOMAIN rx' : call[s].line[i][2] < rx'[j][2]
  <2>1. \A i \in DOMAIN call[s].line : call[s].line[i][2] \in Int
    BY SequenceTypes, Numbers
  <2>2. QED
    BY <1>1, <1>2, <2>1 DEF Ordered, LinesInOrder
<1>5. QED
  BY <1>2, <1>3, <1>4 DEF Ordered, LinesInOrder

(* One element more at the end of a sequence. *)
LEMMA OneMore ==
    ASSUME NEW a \in Seq(Byte), NEW b \in Seq(Byte), Len(b) = 1
    PROVE  /\ a \o b \in Seq(Byte) /\ Len(a \o b) = Len(a) + 1
           /\ \A i \in 1..Len(a) : (a \o b)[i] = a[i]
           /\ (a \o b)[Len(a) + 1] = b[1]
<1>1. Len(a) \in Nat
  BY LenProperties
<1>2. /\ a \o b \in Seq(Byte) /\ Len(a \o b) = Len(a) + Len(b)
      /\ \A i \in 1..Len(a) + Len(b) : (a \o b)[i] = IF i <= Len(a) THEN a[i] ELSE b[i - Len(a)]
  BY ConcatProperties
<1> HIDE DEF Byte
<1>3. QED
  BY <1>1, <1>2

InOrder(q) == \A i, j \in 1..Len(q) : i < j => q[i][2] < q[j][2]

Older(p, q) == \A i \in 1..Len(p), j \in 1..Len(q) : p[i][2] < q[j][2]

UpTo(q, n) == \A i \in 1..Len(q) : q[i][2] <= n

Fine(p, q, n) == InOrder(p) /\ InOrder(q) /\ Older(p, q) /\ UpTo(p, n) /\ UpTo(q, n)

Moves(p, q, longer, rest) ==
    /\ Len(q) >= 1 /\ Len(rest) = Len(q) - 1 /\ \A i \in 1..Len(rest) : rest[i] = q[1 + i]
    /\ Len(longer) = Len(p) + 1 /\ \A i \in 1..Len(p) : longer[i] = p[i]
    /\ longer[Len(p) + 1] = q[1]

(* The first element of q moves to the end of p, which was older. *)
LEMMA FirstMoves ==
    \A p, q, longer, rest \in Seq(Byte), n \in Int :
        Moves(p, q, longer, rest) /\ Fine(p, q, n) => Fine(longer, rest, n)
<1> SUFFICES ASSUME NEW p \in Seq(Byte), NEW q \in Seq(Byte),
                    NEW longer \in Seq(Byte), NEW rest \in Seq(Byte), NEW n \in Int,
                    Moves(p, q, longer, rest), Fine(p, q, n)
             PROVE  Fine(longer, rest, n)
  OBVIOUS
<1> USE DEF Moves, Fine
<1>1. Len(p) \in Nat /\ Len(q) \in Nat
  BY LenProperties
<1>2. \A i \in 1..Len(rest) : 1 + i \in 1..Len(q)
  BY <1>1
<1>3. InOrder(rest) /\ UpTo(rest, n)
  <2>1. ASSUME NEW i \in 1..Len(rest), NEW j \in 1..Len(rest), i < j
        PROVE  rest[i][2] < rest[j][2]
    <3>1. 1 + i \in 1..Len(q) /\ 1 + j \in 1..Len(q) /\ 1 + i < 1 + j
      BY <1>2, <2>1
    <3>2. q[1 + i][2] < q[1 + j][2]
      BY <3>1 DEF InOrder
    <3>3. QED
      BY <3>2
  <2>2. ASSUME NEW i \in 1..Len(rest)
        PROVE  rest[i][2] <= n
    BY <1>2 DEF UpTo
  <2>3. QED
    BY <2>1, <2>2 DEF InOrder, UpTo
<1>4. \A i \in 1..Len(longer) : i \in 1..Len(p) \/ (i = Len(p) + 1 /\ longer[i] = q[1])
  BY <1>1
<1>5. 1 \in 1..Len(q)
  BY <1>1
<1>6. ASSUME NEW j \in 1..Len(rest)
      PROVE  q[1][2] < rest[j][2]
  <2>1. 1 + j \in 1..Len(q) /\ 1 < 1 + j
    BY <1>2
  <2>2. q[1][2] < q[1 + j][2]
    BY <1>5, <2>1 DEF InOrder
  <2>3. QED
    BY <2>2
<1>7. Older(longer, rest) /\ UpTo(longer, n)
  BY <1>2, <1>4, <1>5, <1>6 DEF Older, UpTo
<1>8. InOrder(longer)
  <2>1. SUFFICES ASSUME NEW i \in 1..Len(longer), NEW j \in 1..Len(longer), i < j
                 PROVE  longer[i][2] < longer[j][2]
    BY DEF InOrder
  <2>2. i \in 1..Len(p)
    BY <1>1, <1>4, <2>1
  <2>3. QED
    BY <1>4, <1>5, <2>1, <2>2 DEF InOrder, Older
<1>9. QED
  BY <1>3, <1>7, <1>8

LEMMA LineOrdered ==
    ASSUME Sensible, Types, Ordered, NEW s \in Scripts, NEW n \in Takes(s, 1), rx' = Left(n),
           arrived' = arrived, call'[s].line = call[s].line \o SubSeq(rx, 1, n),
           \A u \in Scripts \ {s} : call'[u] = call[u]
    PROVE  Ordered'
<1>1. n \in 0..Len(rx) /\ n <= 1
  BY TakesSome, TakesOne
<1>2. CASE n = 0
  <2>1. \A u \in Scripts : call'[u].line = call[u].line
    <3>1. SubSeq(rx, 1, n) = <<>>
      BY <1>2, SubSeqEmpty
    <3>2. call[s].line \o <<>> = call[s].line
      BY SequenceTypes, ConcatEmptySeq
    <3>3. QED
      BY <3>1, <3>2
  <2>2. QED
    BY <1>1, <2>1, FewerOrdered
<1>3. CASE n = 1
  <2>1. /\ rx \in Seq(Byte) /\ call[s].line \in Seq(Byte) /\ arrived \in Int
        /\ Len(rx) <= Capacity /\ Len(rx) >= 1
    BY <1>1, <1>3, SequenceTypes, LenProperties DEF Types, TypeOK
  <2>2. /\ rx' \in Seq(Byte) /\ Len(rx') = Len(rx) - 1
        /\ \A i \in 1..Len(rx') : rx'[i] = rx[1 + i]
    BY <1>1, <1>3, <2>1, BytesLeft
  <2>3. SubSeq(rx, 1, 1) \in Seq(Byte) /\ Len(SubSeq(rx, 1, 1)) = 1 /\ SubSeq(rx, 1, 1)[1] = rx[1]
    BY <1>1, <1>3, LineGrows
  <2>4. /\ call'[s].line \in Seq(Byte) /\ Len(call'[s].line) = Len(call[s].line) + 1
        /\ \A i \in 1..Len(call[s].line) : call'[s].line[i] = call[s].line[i]
        /\ call'[s].line[Len(call[s].line) + 1] = rx[1]
    BY <1>3, <2>1, <2>3, OneMore
  <2>5. Fine(call[s].line, rx, arrived)
    BY <2>1, Numbers DEF Ordered, LinesInOrder, InOrder, Older, UpTo, Fine
  <2>6. Fine(call'[s].line, rx', arrived)
    <3>1. Moves(call[s].line, rx, call'[s].line, rx')
      BY <2>1, <2>2, <2>4 DEF Moves
    <3>2. QED
      BY <2>1, <2>2, <2>4, <2>5, <3>1, FirstMoves
  <2>7. ASSUME NEW u \in Scripts, u # s
        PROVE  InOrder(call'[u].line) /\ Older(call'[u].line, rx') /\ UpTo(call'[u].line, arrived)
    <3>1. /\ call'[u].line = call[u].line /\ call[u].line \in Seq(Byte)
          /\ Len(rx) \in Nat /\ \A i \in 1..Len(rx') : 1 + i \in 1..Len(rx)
      BY <2>1, <2>2, <2>7, SequenceTypes, LenProperties
    <3>2. InOrder(call[u].line) /\ Older(call[u].line, rx) /\ UpTo(call[u].line, arrived)
      BY <2>1, <3>1, Numbers DEF Ordered, LinesInOrder, InOrder, Older, UpTo
    <3>3. Older(call[u].line, rx')
      BY <2>2, <3>1, <3>2 DEF Older
    <3>4. QED
      BY <3>1, <3>2, <3>3
  <2>8. \A u \in Scripts : DOMAIN call'[u].line = 1..Len(call'[u].line)
    BY <2>4, SequenceTypes, Numbers
  <2>9. DOMAIN rx' = 1..Len(rx')
    BY <2>2, Numbers
  <2>10. QED
    BY <2>6, <2>7, <2>8, <2>9, ZenonT(60) DEF Ordered, LinesInOrder, InOrder, Older, UpTo, Fine
<1>4. QED
  BY <1>1, <1>2, <1>3

LEMMA NextOrdered == ASSUME Sensible, Types, Ordered, [Next]_vars PROVE Ordered'
<1>0. rx \in Seq(Byte) /\ Len(rx) \in Nat
  BY SequenceTypes, Numbers
<1>1. Left(0) = rx
  BY <1>0, SubSeqFull DEF Left
<1>2. CASE feed \/ \E s \in Scripts : write(s)
  BY <1>2, FeedOrdered DEF write
<1>3. ASSUME NEW s \in Scripts, Open(s) \/ reset_input_buffer(s)
      PROVE  Ordered'
  <2>1. (rx' = rx \/ rx' = <<>>) /\ arrived' = arrived /\ call' = call
    BY <1>3 DEF Open, reset_input_buffer, flush_input
  <2>2. Left(Len(rx)) = <<>>
    BY <1>0, SubSeqEmpty DEF Left
  <2>3. PICK n \in 0..Len(rx) : rx' = Left(n)
    BY <1>0, <1>1, <2>1, <2>2
  <2>4. QED
    BY <2>1, <2>3, FewerOrdered
<1>4. ASSUME NEW s \in Scripts, Reads(s)
      PROVE  Ordered'
  <2>1. PICK n \in 0..Len(rx) :
          /\ rx' = Left(n) /\ arrived' = arrived
          /\ \/ Return(s)
             \/ /\ n \in Takes(s, 1)
                /\ call'[s].line = call[s].line \o SubSeq(rx, 1, n)
                /\ \A u \in Scripts \ {s} : call'[u] = call[u]
    <3>1. CASE read(s)
      BY <3>1, TakesSome DEF read
    <3>2. CASE read_until(s)
      <4>1. PICK n \in Takes(s, 1) :
              /\ rx' = Left(n) /\ arrived' = arrived
              /\ \/ Return(s)
                 \/ call' = [call EXCEPT ![s].line = call[s].line \o SubSeq(rx, 1, n)]
        BY <3>2 DEF read_until
      <4> DEFINE line == call[s].line \o SubSeq(rx, 1, n)
      <4> HIDE DEF line
      <4>2. CASE call' = [call EXCEPT ![s].line = line]
        <5>1. call'[s].line = line /\ \A u \in Scripts \ {s} : call'[u] = call[u]
          BY <4>2 DEF Types, Reading
        <5>2. QED
          BY <4>1, <5>1, TakesSome DEF line
      <4>3. CASE Return(s)
        BY <4>1, <4>3, TakesSome
      <4>4. QED
        BY <4>1, <4>2, <4>3 DEF line
    <3>3. QED
      BY <1>4, <3>1, <3>2 DEF Reads
  <2>2. CASE Return(s)
    <3>1. \A u \in Scripts : call'[u].line \in {call[u].line, <<>>}
      BY <2>2 DEF Return, NoCall, Types
    <3>2. QED
      BY <2>1, <3>1, FewerOrdered
  <2>3. QED
    BY <2>1, <2>2, LineOrdered
<1>5. ASSUME NEW s \in Scripts,
             Close(s) \/ \E kind \in {"read", "line"}, size \in Sizes : Begin(s, kind, size)
      PROVE  Ordered'
  <2>1. /\ rx' = Left(0) /\ arrived' = arrived
        /\ \A u \in Scripts : call'[u].line \in {call[u].line, <<>>}
    BY <1>1, <1>5 DEF Close, Begin, Types
  <2>2. QED
    BY <1>0, <2>1, FewerOrdered
<1>6. CASE UNCHANGED vars
  BY <1>0, <1>1, <1>6, FewerOrdered DEF vars
<1>7. QED
  BY <1>2, <1>3, <1>4, <1>5, <1>6 DEF Next

(* serial_stub.Serial.read_until(): however many scripts read and flush a  *)
(* port, what one has of a line is in order, and older than all that waits. *)
THEOREM SerialLinesInOrder == ASSUME Sensible PROVE Spec => []LinesInOrder
<1>1. Init => Types /\ Ordered
  <2>1. Init => Ordered
    BY DEF Init, Ordered, LinesInOrder, NoCall
  <2>2. QED
    BY <2>1, InitTypes
<1>2. Types /\ Ordered /\ [Next]_vars => (Types /\ Ordered)'
  BY NextTypes, NextOrdered
<1>3. Ordered => LinesInOrder
  BY DEF Ordered
<1>4. QED
  BY <1>1, <1>2, <1>3, PTL DEF Spec

-----------------------------------------------------------------------------
(* The I2C bus: the scripts' calls, and what the lock keeps of them.       *)
CONSTANTS Addresses, Attached, Registers, Counts
VARIABLES pointer, silent, lock

Bus == INSTANCE I2c

SensibleBus ==
    /\ Registers \in Nat \ {0} /\ Counts \subseteq Nat
    /\ None \notin Int /\ None \notin Scripts

Steps == {"w", "W", "r"} \X Nat

BusCall == [kind : Bus!Kinds \cup {"none"}, address : Addresses \cup {None},
            next : Nat \cup {None}, todo : Seq(Steps)]

BusTypes ==
    /\ library \in [Scripts -> Libraries]
    /\ open \subseteq Scripts
    /\ pointer \in [Attached -> Bus!Register]
    /\ lock \in Scripts \cup {None}
    /\ call \in [Scripts -> BusCall]
    /\ lock # None => call[lock].todo # <<>>
    /\ \A s \in Scripts : \A i \in DOMAIN call[s].todo :
          call[s].todo[i][1] # "r" => call[s].todo[i][2] \in Bus!Register

(* A call of several transfers begins with one that sets the pointer.      *)
SetsFirst == \A s \in Scripts :
    Len(call[s].todo) > 1 /\ call[s].next = None => call[s].todo[1][1] # "r"

(* A combined call that has begun keeps the lock, and its part.            *)
KeepsLock == \A s \in Scripts :
    Bus!Combined(call[s].kind) /\ call[s].next # None => lock = s /\ call[s].address \in Attached

BusInv == BusTypes /\ SetsFirst /\ KeepsLock /\ Bus!ReadsAreWhole

LEMMA BusInit == ASSUME SensibleBus, Bus!Init PROVE BusInv
<1>1. Bus!NoCall \in BusCall /\ Bus!NoCall.todo = <<>> /\ Bus!NoCall.next = None
  BY DEF Bus!NoCall, BusCall
<1>2. \A s \in Scripts : call[s] = Bus!NoCall
  BY DEF Bus!Init
<1>3. BusTypes
  BY <1>1, <1>2 DEF Bus!Init, BusTypes, SensibleBus, Bus!Register
<1>4. SetsFirst /\ KeepsLock /\ Bus!ReadsAreWhole
  BY <1>1, <1>2 DEF SetsFirst, KeepsLock, Bus!ReadsAreWhole
<1>5. QED
  BY <1>3, <1>4 DEF BusInv

LEMMA KindsAre ==
    Bus!Kinds = {"write", "read", "register_read", "block_read", "process_call",
                 "block_process_call", "rdwr"}
BY DEF Bus!Kinds, Bus!Transfers

(* What a call is made of. *)
LEMMA TransfersAre ==
    ASSUME SensibleBus, NEW r \in Bus!Register, NEW n \in Nat, NEW kind \in Bus!Kinds
    PROVE  LET T == Bus!Transfers(r, n)[kind]
           IN  /\ T \in Seq(Steps)
               /\ Len(T) > 1 => T[1][1] # "r"
               /\ \A i \in DOMAIN T : T[i][1] # "r" => T[i][2] \in Bus!Register
<1>1. r \in Nat
  BY DEF Bus!Register, SensibleBus
<1> DEFINE w == <<"w", r>>
           W == <<"W", r>>
           one == <<"r", 1>>
           more == <<"r", n>>
           Good(T) == /\ T \in Seq(Steps) /\ (Len(T) > 1 => T[1][1] # "r")
                      /\ \A i \in DOMAIN T : T[i][1] # "r" => T[i][2] \in Bus!Register
<1>2. /\ w \in Steps /\ W \in Steps /\ one \in Steps /\ more \in Steps
      /\ w[1] = "w" /\ W[1] = "W" /\ one[1] = "r" /\ more[1] = "r" /\ w[2] = r /\ W[2] = r
  BY <1>1 DEF Steps
<1>3. CASE kind \in {"write", "read"}
  <2>1. Bus!Transfers(r, n)[kind] = <<W>> \/ Bus!Transfers(r, n)[kind] = <<more>>
    BY <1>3 DEF Bus!Transfers
  <2> HIDE DEF w, W, one, more
  <2>2. Good(<<W>>) /\ Good(<<more>>)
    BY <1>2
  <2>3. QED
    BY <2>1, <2>2
<1>4. CASE kind \in {"register_read", "process_call", "rdwr"}
  <2>1. Bus!Transfers(r, n)[kind] = <<w, more>> \/ Bus!Transfers(r, n)[kind] = <<W, more>>
    BY <1>4 DEF Bus!Transfers
  <2> HIDE DEF w, W, one, more
  <2>2. Good(<<w, more>>) /\ Good(<<W, more>>)
    BY <1>2
  <2>3. QED
    BY <2>1, <2>2
<1>5. CASE kind \in {"block_read", "block_process_call"}
  <2>1. Bus!Transfers(r, n)[kind] = <<w, one, more>> \/ Bus!Transfers(r, n)[kind] = <<W, one, more>>
    BY <1>5 DEF Bus!Transfers
  <2> HIDE DEF w, W, one, more
  <2>2. Good(<<w, one, more>>) /\ Good(<<W, one, more>>)
    BY <1>2
  <2>3. QED
    BY <2>1, <2>2
<1>6. QED
  BY <1>3, <1>4, <1>5, KindsAre

(* The rest of a call's transfers. *)
LEMMA RestOfCall ==
    ASSUME SensibleBus, NEW T \in Seq(Steps), T # <<>>,
           \A i \in DOMAIN T : T[i][1] # "r" => T[i][2] \in Bus!Register
    PROVE  /\ T[1] \in Steps /\ Head(T) = T[1] /\ (T[1][1] # "r" => T[1][2] \in Bus!Register)
           /\ Tail(T) \in Seq(Steps) /\ (Len(T) # 1 => Len(T) > 1 /\ Tail(T) # <<>>)
           /\ \A i \in DOMAIN Tail(T) : Tail(T)[i][1] # "r" => Tail(T)[i][2] \in Bus!Register
<1>1. Len(T) \in Nat /\ Len(T) >= 1 /\ DOMAIN T = 1..Len(T)
  BY EmptySeq, LenProperties
<1>2. /\ Tail(T) \in Seq(Steps) /\ Len(Tail(T)) = Len(T) - 1
      /\ \A i \in 1..Len(T) - 1 : Tail(T)[i] = T[i + 1]
      /\ Head(T) = T[1] /\ T[1] \in Steps
  BY <1>1
<1>3. DOMAIN Tail(T) = 1..Len(T) - 1
  BY <1>2, LenProperties
<1>4. Len(T) # 1 => Len(T) > 1 /\ Tail(T) # <<>>
  BY <1>1, <1>2
<1>5. QED
  BY <1>1, <1>2, <1>3, <1>4

(* The steps that leave the transfers under way alone. *)
LEMMA AsideBus ==
    ASSUME SensibleBus, BusInv, open' \subseteq Scripts, UNCHANGED <<library, pointer, lock, call>>
    PROVE  BusInv'
BY DEF BusInv, BusTypes, SetsFirst, KeepsLock, Bus!ReadsAreWhole

LEMMA BusBegin ==
    ASSUME SensibleBus, BusInv, NEW s \in Scripts, NEW kind \in Bus!Kinds, NEW a \in Addresses,
           NEW r \in Bus!Register, NEW n \in Counts, Bus!Begin(s, kind, a, r, n)
    PROVE  BusInv'
<1> DEFINE T == Bus!Transfers(r, n)[kind]
           c == [kind |-> kind, address |-> a, next |-> None, todo |-> T]
<1>1. /\ T \in Seq(Steps) /\ (Len(T) > 1 => T[1][1] # "r")
      /\ \A i \in DOMAIN T : T[i][1] # "r" => T[i][2] \in Bus!Register
  BY TransfersAre DEF SensibleBus
<1>2. /\ call' = [call EXCEPT ![s] = c] /\ UNCHANGED <<library, open, pointer, silent, lock>>
      /\ call[s].todo = <<>>
  BY DEF Bus!Begin, Bus!Busy
<1> HIDE DEF T
<1>3. c \in BusCall /\ c.next = None /\ c.todo = T
  BY <1>1 DEF BusCall
<1> HIDE DEF c
<1>4. \A u \in Scripts : call'[u] = IF u = s THEN c ELSE call[u]
  BY <1>2 DEF BusInv, BusTypes
<1>5. lock # s
  BY <1>2 DEF BusInv, BusTypes, SensibleBus
<1>6. BusTypes'
  <2>1. call' \in [Scripts -> BusCall]
    BY <1>2, <1>3 DEF BusInv, BusTypes
  <2>2. lock' # None => call'[lock'].todo # <<>>
    BY <1>2, <1>4, <1>5 DEF BusInv, BusTypes
  <2>3. \A u \in Scripts : \A i \in DOMAIN call'[u].todo :
          call'[u].todo[i][1] # "r" => call'[u].todo[i][2] \in Bus!Register
    BY <1>1, <1>3, <1>4 DEF BusInv, BusTypes
  <2>4. QED
    BY <1>2, <2>1, <2>2, <2>3 DEF BusInv, BusTypes
<1>7. SetsFirst'
  BY <1>1, <1>3, <1>4 DEF BusInv, SetsFirst
<1>8. KeepsLock' /\ Bus!ReadsAreWhole'
  BY <1>2, <1>3, <1>4 DEF BusInv, KeepsLock, Bus!ReadsAreWhole
<1>9. QED
  BY <1>6, <1>7, <1>8 DEF BusInv

(* A transfer that a part answers. *)
LEMMA BusWorks ==
    ASSUME SensibleBus, BusInv, NEW s \in Scripts, Bus!Busy(s), lock \in {None, s},
           call[s].address \in Attached,
           Bus!Works(s, call[s].address, Head(call[s].todo)[1], Head(call[s].todo)[2]),
           UNCHANGED <<library, open>>
    PROVE  BusInv'
<1> DEFINE c == call[s]
           a == call[s].address
           what == Head(call[s].todo)[1]
           n == Head(call[s].todo)[2]
           after == CASE what = "r" -> (pointer[a] + n) % Registers
                      [] what = "w" -> n
                      [] what = "W" -> (n + 1) % Registers
           now == IF what = "r" THEN (c.next + n) % Registers ELSE after
           d == [c EXCEPT !.todo = Tail(@), !.next = IF what = "r" THEN (@ + n) % Registers ELSE after]
<1>1. c \in BusCall /\ c.todo \in Seq(Steps) /\ c.todo # <<>> /\ a \in Attached
  BY DEF BusInv, BusTypes, BusCall, Bus!Busy
<1>2. \A i \in DOMAIN c.todo : c.todo[i][1] # "r" => c.todo[i][2] \in Bus!Register
  BY DEF BusInv, BusTypes
<1>3. /\ c.todo[1] \in Steps /\ Head(c.todo) = c.todo[1]
      /\ (c.todo[1][1] # "r" => c.todo[1][2] \in Bus!Register)
      /\ Tail(c.todo) \in Seq(Steps) /\ (Len(c.todo) # 1 => Len(c.todo) > 1 /\ Tail(c.todo) # <<>>)
      /\ \A i \in DOMAIN Tail(c.todo) :
            Tail(c.todo)[i][1] # "r" => Tail(c.todo)[i][2] \in Bus!Register
  BY <1>1, <1>2, RestOfCall
<1>4. /\ what \in {"w", "W", "r"} /\ n \in Nat /\ (what # "r" => n \in Bus!Register)
      /\ what = c.todo[1][1]
  BY <1>3 DEF Steps
<1>5. pointer[a] \in Nat /\ \A i \in Nat : i % Registers \in Bus!Register /\ i % Registers \in Nat
  BY <1>1 DEF BusInv, BusTypes, Bus!Register, SensibleBus
<1>6. after \in Bus!Register
  BY <1>4, <1>5
<1>6a. \A i \in Bus!Register : i \in Nat /\ i # None
  BY DEF Bus!Register, SensibleBus
<1>7. /\ pointer' = [pointer EXCEPT ![a] = after]
      /\ IF Len(c.todo) = 1 THEN Bus!Return(s)
         ELSE /\ call' = [call EXCEPT ![s] = d]
              /\ lock' = IF Bus!Combined(c.kind) THEN s ELSE None
  BY DEF Bus!Works
<1>8. pointer' \in [Attached -> Bus!Register] /\ pointer'[a] = after
  BY <1>1, <1>6, <1>7 DEF BusInv, BusTypes
(* A combined call of another script would have the lock. *)
<1>9. \A u \in Scripts : u # s => ~(Bus!Combined(call[u].kind) /\ call[u].next # None)
  BY DEF BusInv, KeepsLock, SensibleBus
<1>10. CASE Len(c.todo) = 1
  <2>1. call' = [call EXCEPT ![s] = Bus!NoCall] /\ lock' = None
    BY <1>7, <1>10 DEF Bus!Return
  <2>2. Bus!NoCall \in BusCall /\ Bus!NoCall.todo = <<>> /\ Bus!NoCall.next = None
    BY DEF Bus!NoCall, BusCall
  <2>3. \A u \in Scripts : call'[u] = IF u = s THEN Bus!NoCall ELSE call[u]
    BY <2>1 DEF BusInv, BusTypes
  <2>4. BusTypes'
    <3>1. call' \in [Scripts -> BusCall]
      BY <2>1, <2>2 DEF BusInv, BusTypes
    <3>2. \A u \in Scripts : \A i \in DOMAIN call'[u].todo :
            call'[u].todo[i][1] # "r" => call'[u].todo[i][2] \in Bus!Register
      BY <2>2, <2>3 DEF BusInv, BusTypes
    <3>3. QED
      BY <1>8, <2>1, <3>1, <3>2 DEF BusInv, BusTypes
  <2>5. SetsFirst'
    BY <2>2, <2>3 DEF BusInv, SetsFirst
  <2>6. KeepsLock' /\ Bus!ReadsAreWhole'
    BY <1>9, <2>2, <2>3 DEF KeepsLock, Bus!ReadsAreWhole, Bus!Combined
  <2>7. QED
    BY <2>4, <2>5, <2>6 DEF BusInv
<1>11. CASE Len(c.todo) # 1
  <2>1. Len(c.todo) > 1
    BY <1>3, <1>11
  <2>2. what = "r" => c.next \in Nat
    BY <1>1, <1>4, <2>1 DEF BusInv, SetsFirst, BusCall
  <2>3. now \in Nat /\ now # None
    <3>1. CASE what = "r"
      BY <1>4, <1>5, <2>2, <3>1 DEF SensibleBus
    <3>2. CASE what # "r"
      <4>1. now = after
        BY <3>2
      <4> HIDE DEF now, after
      <4>2. QED
        BY <1>6, <1>6a, <4>1
    <3>3. QED
      BY <3>1, <3>2
  <2>4. /\ d = [c EXCEPT !.todo = Tail(c.todo), !.next = now]
        /\ call' = [call EXCEPT ![s] = d] /\ lock' = IF Bus!Combined(c.kind) THEN s ELSE None
    BY <1>7, <1>11
  <2>5. Bus!Combined(c.kind) => now = after
    <3>1. CASE what = "r" /\ Bus!Combined(c.kind)
      <4>1. pointer[a] = c.next
        BY <2>2, <3>1 DEF BusInv, Bus!ReadsAreWhole, Bus!Combined, SensibleBus
      <4>2. QED
        BY <3>1, <4>1
    <3>2. CASE what # "r"
      BY <3>2
    <3>3. QED
      BY <3>1, <3>2
  <2> HIDE DEF what, n, after, now, d
  <2>6. /\ d \in BusCall /\ d.todo = Tail(c.todo) /\ d.next = now /\ d.kind = c.kind /\ d.address = a
    BY <1>1, <1>3, <2>3, <2>4 DEF BusCall
  <2>7. \A u \in Scripts : call'[u] = IF u = s THEN d ELSE call[u]
    BY <2>4 DEF BusInv, BusTypes
  <2>8. BusTypes'
    <3>1. call' \in [Scripts -> BusCall] /\ lock' \in Scripts \cup {None}
      BY <2>4, <2>6 DEF BusInv, BusTypes
    <3>2. lock' # None => call'[lock'].todo # <<>>
      BY <1>3, <1>11, <2>4, <2>6, <2>7
    <3>3. \A u \in Scripts : \A i \in DOMAIN call'[u].todo :
            call'[u].todo[i][1] # "r" => call'[u].todo[i][2] \in Bus!Register
      BY <1>3, <2>6, <2>7 DEF BusInv, BusTypes
    <3>4. QED
      BY <1>8, <3>1, <3>2, <3>3 DEF BusInv, BusTypes
  <2>9. SetsFirst'
    BY <2>3, <2>6, <2>7 DEF BusInv, SetsFirst
  <2>10. KeepsLock'
    BY <1>1, <1>9, <2>4, <2>6, <2>7 DEF KeepsLock
  <2>11. Bus!ReadsAreWhole'
    BY <1>8, <1>9, <2>5, <2>6, <2>7 DEF Bus!ReadsAreWhole, Bus!Combined
  <2>12. QED
    BY <2>8, <2>9, <2>10, <2>11 DEF BusInv
<1>12. QED
  BY <1>10, <1>11

(* One that nobody answers ends the call. *)
LEMMA BusFails ==
    ASSUME SensibleBus, BusInv, NEW s \in Scripts, lock \in {None, s}, Bus!Return(s),
           UNCHANGED <<library, open, pointer>>
    PROVE  BusInv'
<1>1. call' = [call EXCEPT ![s] = Bus!NoCall] /\ lock' = None
  BY DEF Bus!Return
<1>2. Bus!NoCall \in BusCall /\ Bus!NoCall.todo = <<>> /\ Bus!NoCall.next = None
  BY DEF Bus!NoCall, BusCall
<1>3. \A u \in Scripts : call'[u] = IF u = s THEN Bus!NoCall ELSE call[u]
  BY <1>1 DEF BusInv, BusTypes
<1>4. \A u \in Scripts : u # s => ~(Bus!Combined(call[u].kind) /\ call[u].next # None)
  BY DEF BusInv, KeepsLock, SensibleBus
<1>5. BusTypes'
  <2>1. call' \in [Scripts -> BusCall]
    BY <1>1, <1>2 DEF BusInv, BusTypes
  <2>2. \A u \in Scripts : \A i \in DOMAIN call'[u].todo :
          call'[u].todo[i][1] # "r" => call'[u].todo[i][2] \in Bus!Register
    BY <1>2, <1>3 DEF BusInv, BusTypes
  <2>3. QED
    BY <1>1, <2>1, <2>2 DEF BusInv, BusTypes
<1>6. SetsFirst'
  BY <1>2, <1>3 DEF BusInv, SetsFirst
<1>7. KeepsLock' /\ Bus!ReadsAreWhole'
  BY <1>2, <1>3, <1>4 DEF KeepsLock, Bus!ReadsAreWhole, Bus!Combined
<1>8. QED
  BY <1>5, <1>6, <1>7 DEF BusInv

LEMMA BusNext == ASSUME SensibleBus, BusInv, [Bus!Next]_Bus!vars PROVE BusInv'
<1>1. ASSUME NEW s \in Scripts, Bus!Script(s) PROVE BusInv'
  <2>1. ASSUME NEW kind \in Bus!Kinds, NEW a \in Addresses, NEW r \in Bus!Register, NEW n \in Counts,
               Bus!Begin(s, kind, a, r, n)
        PROVE  BusInv'
    BY <2>1, BusBegin
  <2>2. CASE Bus!Open(s) \/ Bus!Close(s)
    <3>1. open' \subseteq Scripts /\ UNCHANGED <<library, pointer, lock, call>>
      BY <2>2 DEF Bus!Open, Bus!Close, BusInv, BusTypes
    <3>2. QED
      BY <3>1, AsideBus
  <2>3. CASE Bus!Transfer(s)
    <3>1. Bus!Busy(s) /\ lock \in {None, s} /\ UNCHANGED <<library, open, silent>>
      BY <2>3 DEF Bus!Transfer
    <3>2. CASE call[s].address \in Attached \ silent
      <4>1. Bus!Works(s, call[s].address, Head(call[s].todo)[1], Head(call[s].todo)[2])
        BY <2>3, <3>2 DEF Bus!Transfer
      <4>2. QED
        BY <3>1, <3>2, <4>1, BusWorks
    <3>3. CASE call[s].address \notin Attached \ silent
      <4>1. Bus!Return(s) /\ UNCHANGED pointer
        BY <2>3, <3>3 DEF Bus!Transfer
      <4>2. QED
        BY <3>1, <4>1, BusFails
    <3>4. QED
      BY <3>2, <3>3
  <2>4. QED
    BY <1>1, <2>1, <2>2, <2>3 DEF Bus!Script
<1>2. ASSUME NEW a \in Attached, Bus!Dropout(a) PROVE BusInv'
  <2>1. open' \subseteq Scripts /\ UNCHANGED <<library, pointer, lock, call>>
    BY <1>2 DEF Bus!Dropout, BusInv, BusTypes
  <2>2. QED
    BY <2>1, AsideBus
<1>3. CASE UNCHANGED Bus!vars
  <2>1. open' \subseteq Scripts /\ UNCHANGED <<library, pointer, lock, call>>
    BY <1>3 DEF Bus!vars, BusInv, BusTypes
  <2>2. QED
    BY <2>1, AsideBus
<1>4. QED
  BY <1>1, <1>2, <1>3 DEF Bus!Next

(* What holds of the bus and its calls after every step. *)
LEMMA BusInductive == ASSUME SensibleBus PROVE Bus!Spec => []BusInv
<1>1. Bus!Init => BusInv
  BY BusInit
<1>2. BusInv /\ [Bus!Next]_Bus!vars => BusInv'
  BY BusNext
<1>3. QED
  BY <1>1, <1>2, PTL DEF Bus!Spec

(* The lock of the bus is free, or held by a script that is in a call.     *)
THEOREM I2cTypeCorrect == ASSUME SensibleBus PROVE Bus!Spec => []Bus!TypeOK
<1>1. BusInv => Bus!TypeOK
  BY DEF BusInv, BusTypes, Bus!TypeOK, Bus!Busy
<1>2. QED
  BY <1>1, BusInductive, PTL

(* buses.py:35: a combined I2C call reads from where it set the pointer,   *)
(* for any number of scripts, parts and registers, in whatever order they  *)
(* transfer and whichever parts fall silent: the I2C conjunct of the run's *)
(* BusesInOrder.                                                           *)
THEOREM I2cReadsAreWhole == ASSUME SensibleBus PROVE Bus!Spec => []Bus!ReadsAreWhole
<1>1. BusInv => Bus!ReadsAreWhole
  BY DEF BusInv
<1>2. QED
  BY <1>1, BusInductive, PTL

-----------------------------------------------------------------------------
(* The virtual files: the threads that open them, and the module's lock.   *)
CONSTANTS Paths, Dynamic, Threads, MaxSamples
VARIABLES installed, files, copy, sample, holder, pc, path, since, got

Files == INSTANCE Vfs WITH lock <- holder

SensibleFiles == MaxSamples \in Nat /\ None \notin Int /\ None \notin Threads

Materialising == {"generate", "truncate", "write"}

FileTypes ==
    /\ files \subseteq Paths
    /\ installed \in BOOLEAN
    /\ copy \in [Paths -> 0..MaxSamples \cup {None}]
    /\ sample \in 0..MaxSamples
    /\ pc \in [Threads -> Materialising \cup {"idle", "open", "read"}]
    /\ path \in [Threads -> Paths \cup {None}]
    /\ since \in [Threads -> Nat]
    /\ got \in [Threads -> Nat \cup {None}]
    /\ holder \in Threads \cup {None}
    /\ \A p \in Paths : copy[p] # None <=> Files!Redirected(p)

(* A thread that opens a path opens one that is there. *)
OpensWhatIsThere == \A t \in Threads :
    pc[t] # "idle" => path[t] \in Paths /\ Files!Redirected(path[t])

(* One thread at a time is in _materialise. *)
HoldsLock == \A t \in Threads : pc[t] \in Materialising <=> holder = t

(* Samples are numbered as they are taken: a sample that is still to be    *)
(* written is newer than every open that has begun.                        *)
SamplesAreNewer ==
    /\ \A t \in Threads : since[t] <= sample
    /\ \A t, u \in Threads :
          pc[t] \in {"truncate", "write"} /\ pc[u] # "idle" => since[u] < sample

(* The copy a thread is about to read was written after its open.          *)
CopiesAreFresh == \A t \in Threads :
    pc[t] = "open" /\ path[t] \in Dynamic => copy[path[t]] = Files!Empty \/ copy[path[t]] > since[t]

FilesInv ==
    FileTypes /\ OpensWhatIsThere /\ HoldsLock /\ SamplesAreNewer /\ CopiesAreFresh /\ Files!FreshReads

USE DEF Files!Empty, Files!Goto, Files!Redirected

LEMMA FilesInit == ASSUME SensibleFiles, Files!Init PROVE FilesInv
<1>1. FileTypes
  <2>1. sample \in 0..MaxSamples /\ holder \in Threads \cup {None}
    BY DEF Files!Init, SensibleFiles
  <2>2. /\ copy \in [Paths -> 0..MaxSamples \cup {None}] /\ files \subseteq Paths
        /\ installed \in BOOLEAN /\ \A p \in Paths : copy[p] # None <=> Files!Redirected(p)
    BY DEF Files!Init
  <2>3. /\ pc \in [Threads -> Materialising \cup {"idle", "open", "read"}]
        /\ path \in [Threads -> Paths \cup {None}]
        /\ since \in [Threads -> Nat] /\ got \in [Threads -> Nat \cup {None}]
    BY DEF Files!Init
  <2>4. QED
    BY <2>1, <2>2, <2>3 DEF FileTypes
<1>2. OpensWhatIsThere /\ HoldsLock /\ SamplesAreNewer /\ CopiesAreFresh /\ Files!FreshReads
  BY DEF Files!Init, SensibleFiles, Materialising, OpensWhatIsThere, HoldsLock, SamplesAreNewer,
         CopiesAreFresh, Files!FreshReads
<1>3. QED
  BY <1>1, <1>2 DEF FilesInv

LEMMA ListingKeeps ==
    ASSUME SensibleFiles, FilesInv,
           \/ \E p \in Paths : Files!add_file(p)
           \/ Files!install
           \/ Files!uninstall
    PROVE  FilesInv'
<1> USE DEF FilesInv
<1>1. CASE \E p \in Paths : Files!add_file(p)
  <2>1. PICK p \in Paths : Files!add_file(p)
    BY <1>1
  <2>2. FileTypes'
    BY <2>1 DEF FileTypes, Files!add_file, SensibleFiles
  <2>3. OpensWhatIsThere' /\ HoldsLock' /\ SamplesAreNewer' /\ Files!FreshReads'
    BY <2>1 DEF Files!add_file, OpensWhatIsThere, HoldsLock, SamplesAreNewer, Files!FreshReads
  <2>4. CopiesAreFresh'
    BY <2>1 DEF Files!add_file, FileTypes, OpensWhatIsThere, CopiesAreFresh
  <2>5. QED
    BY <2>2, <2>3, <2>4
<1>2. CASE Files!install
  <2>1. FileTypes'
    BY <1>2 DEF FileTypes, Files!install, SensibleFiles
  <2>2. \A t \in Threads : pc[t] = "idle"
    BY <1>2 DEF Files!install, OpensWhatIsThere
  <2>3. OpensWhatIsThere' /\ HoldsLock' /\ SamplesAreNewer' /\ CopiesAreFresh' /\ Files!FreshReads'
    BY <1>2, <2>2 DEF Files!install, OpensWhatIsThere, HoldsLock, SamplesAreNewer, CopiesAreFresh,
                      Files!FreshReads
  <2>4. QED
    BY <2>1, <2>3
<1>3. CASE Files!uninstall
  <2>1. FileTypes'
    BY <1>3 DEF FileTypes, Files!uninstall, SensibleFiles
  <2>2. OpensWhatIsThere' /\ HoldsLock' /\ SamplesAreNewer' /\ CopiesAreFresh' /\ Files!FreshReads'
    BY <1>3 DEF Files!uninstall, OpensWhatIsThere, HoldsLock, SamplesAreNewer, CopiesAreFresh,
                Files!FreshReads
  <2>3. QED
    BY <2>1, <2>2
<1>4. QED
  BY <1>1, <1>2, <1>3

LEMMA OpenKeeps ==
    ASSUME SensibleFiles, FilesInv, NEW t \in Threads, NEW p \in Paths, Files!open(t, p)
    PROVE  FilesInv'
<1> USE DEF FilesInv, Files!open, Files!Refreshed
<1>1. FileTypes'
  BY DEF FileTypes, Materialising
<1>2. OpensWhatIsThere'
  BY DEF OpensWhatIsThere, FileTypes
<1>3. HoldsLock'
  BY DEF HoldsLock, FileTypes, Materialising, SensibleFiles
<1>4. \A u \in Threads : pc[u] \notin Materialising
  BY DEF HoldsLock, SensibleFiles
<1>5. SamplesAreNewer'
  BY <1>4 DEF SamplesAreNewer, FileTypes, Materialising
<1>6. CopiesAreFresh'
  BY DEF CopiesAreFresh, FileTypes
<1>7. Files!FreshReads'
  BY DEF Files!FreshReads, FileTypes
<1>8. QED
  BY <1>1, <1>2, <1>3, <1>5, <1>6, <1>7

LEMMA MaterialiseKeeps ==
    ASSUME SensibleFiles, FilesInv, NEW t \in Threads,
           Files!generate(t) \/ Files!truncate(t) \/ Files!write(t)
    PROVE  FilesInv'
<1> USE DEF FilesInv
<1>0. \A u \in Threads : u # t => pc[u] \notin Materialising
  BY DEF HoldsLock, Materialising, Files!generate, Files!truncate, Files!write
<1>1. CASE Files!generate(t)
  <2>1. FileTypes'
    <3>1. sample' \in 0..MaxSamples /\ holder' \in Threads \cup {None}
      BY <1>1 DEF FileTypes, Files!generate, SensibleFiles
    <3>2. pc' \in [Threads -> Materialising \cup {"idle", "open", "read"}]
      BY <1>1 DEF FileTypes, Files!generate, Materialising
    <3>3. QED
      BY <1>1, <3>1, <3>2 DEF FileTypes, Files!generate
  <2>2. OpensWhatIsThere' /\ Files!FreshReads' /\ CopiesAreFresh'
    BY <1>1 DEF Files!generate, FileTypes, OpensWhatIsThere, Files!FreshReads, CopiesAreFresh
  <2>3. HoldsLock'
    BY <1>1, <1>0 DEF HoldsLock, FileTypes, Materialising, SensibleFiles, Files!generate
  <2>4. SamplesAreNewer'
    <3>1. CASE sample' = sample + 1
      BY <1>1, <3>1 DEF SamplesAreNewer, FileTypes, Files!generate
    <3>2. CASE pc' = [pc EXCEPT ![t] = "idle"] /\ sample' = sample
      BY <1>1, <3>2 DEF SamplesAreNewer, FileTypes, Files!generate
    <3>3. QED
      BY <1>1, <3>1, <3>2 DEF Files!generate
  <2>5. QED
    BY <2>1, <2>2, <2>3, <2>4
<1>2. CASE Files!truncate(t)
  <2>0. path[t] \in Paths /\ Files!Redirected(path[t])
    BY <1>2 DEF Files!truncate, OpensWhatIsThere
  <2>1. FileTypes'
    BY <1>2, <2>0 DEF FileTypes, Files!truncate, Materialising, SensibleFiles
  <2>2. OpensWhatIsThere' /\ Files!FreshReads'
    BY <1>2 DEF Files!truncate, FileTypes, OpensWhatIsThere, Files!FreshReads
  <2>3. HoldsLock'
    BY <1>2, <1>0 DEF HoldsLock, FileTypes, Materialising, SensibleFiles, Files!truncate
  <2>4. SamplesAreNewer'
    BY <1>2 DEF SamplesAreNewer, FileTypes, Files!truncate
  <2>5. CopiesAreFresh'
    BY <1>2, <2>0 DEF CopiesAreFresh, FileTypes, OpensWhatIsThere, Files!truncate
  <2>6. QED
    BY <2>1, <2>2, <2>3, <2>4, <2>5
<1>3. CASE Files!write(t)
  <2>0. path[t] \in Paths /\ Files!Redirected(path[t])
    BY <1>3 DEF Files!write, OpensWhatIsThere
  <2>1. FileTypes'
    BY <1>3, <2>0 DEF FileTypes, Files!write, Materialising, SensibleFiles
  <2>2. OpensWhatIsThere' /\ Files!FreshReads'
    BY <1>3 DEF Files!write, FileTypes, OpensWhatIsThere, Files!FreshReads
  <2>3. HoldsLock'
    BY <1>3, <1>0 DEF HoldsLock, FileTypes, Materialising, SensibleFiles, Files!write
  <2>4. SamplesAreNewer'
    BY <1>3 DEF SamplesAreNewer, FileTypes, Files!write
  <2>5. CopiesAreFresh'
    <3> SUFFICES ASSUME NEW u \in Threads, pc'[u] = "open", path[u] \in Dynamic
                 PROVE  copy'[path[u]] = Files!Empty \/ copy'[path[u]] > since[u]
      BY <1>3 DEF CopiesAreFresh, Files!write
    <3>1. pc[u] # "idle"
      BY <1>3 DEF Files!write, FileTypes
    <3>2. path[u] \in Paths /\ since[u] < sample
      BY <1>3, <3>1 DEF Files!write, OpensWhatIsThere, SamplesAreNewer
    <3>3. CASE path[u] = path[t]
      BY <1>3, <3>2, <3>3 DEF Files!write, FileTypes
    <3>4. CASE path[u] # path[t]
      <4>1. u # t
        BY <3>4
      <4>2. pc[u] = "open"
        BY <1>3, <4>1 DEF Files!write, FileTypes
      <4>3. QED
        BY <1>3, <3>2, <3>4, <4>2 DEF Files!write, FileTypes, CopiesAreFresh
    <3>5. QED
      BY <3>3, <3>4
  <2>6. QED
    BY <2>1, <2>2, <2>3, <2>4, <2>5
<1>4. QED
  BY <1>1, <1>2, <1>3

LEMMA ReadKeeps ==
    ASSUME SensibleFiles, FilesInv, NEW t \in Threads, Files!read(t) \/ Files!close(t)
    PROVE  FilesInv'
<1> USE DEF FilesInv
<1>1. path[t] \in Paths /\ Files!Redirected(path[t])
  BY DEF Files!read, Files!close, OpensWhatIsThere
<1>2. FileTypes'
  <2>1. copy[path[t]] \in Nat \cup {None}
    BY <1>1 DEF FileTypes, SensibleFiles
  <2>2. got' \in [Threads -> Nat \cup {None}]
    BY <2>1 DEF FileTypes, Files!read, Files!close
  <2>3. pc' \in [Threads -> Materialising \cup {"idle", "open", "read"}]
    BY DEF FileTypes, Files!read, Files!close
  <2>4. QED
    BY <2>2, <2>3 DEF FileTypes, Files!read, Files!close
<1>3. OpensWhatIsThere'
  BY DEF OpensWhatIsThere, FileTypes, Files!read, Files!close
<1>4. HoldsLock'
  BY DEF HoldsLock, FileTypes, Materialising, Files!read, Files!close
<1>5. SamplesAreNewer'
  BY DEF SamplesAreNewer, FileTypes, Files!read, Files!close
<1>6. CopiesAreFresh'
  BY DEF CopiesAreFresh, FileTypes, Files!read, Files!close
<1>7. Files!FreshReads'
  BY DEF Files!FreshReads, CopiesAreFresh, FileTypes, Files!read, Files!close
<1>8. QED
  BY <1>2, <1>3, <1>4, <1>5, <1>6, <1>7

(* What holds of every file, thread and copy, after every step.            *)
LEMMA FilesInductive == ASSUME SensibleFiles PROVE Files!Spec => []FilesInv
<1>1. Files!Init => FilesInv
  BY FilesInit
<1>2. FilesInv /\ [Files!Next]_Files!vars => FilesInv'
  <2>1. CASE UNCHANGED Files!vars
    BY <2>1 DEF FilesInv, FileTypes, OpensWhatIsThere, HoldsLock, SamplesAreNewer, CopiesAreFresh,
                Files!FreshReads, Files!vars
  <2>2. ASSUME FilesInv, Files!Next PROVE FilesInv'
    BY <2>2, ListingKeeps, OpenKeeps, MaterialiseKeeps, ReadKeeps DEF Files!Next, Files!Script
  <2>3. QED
    BY <2>1, <2>2
<1>3. QED
  BY <1>1, <1>2, PTL DEF Files!Spec

(* A path has a copy in the scratch directory exactly while it is served,  *)
(* and the lock is free or a thread's.                                     *)
THEOREM FilesTypeCorrect == ASSUME SensibleFiles PROVE Files!Spec => []Files!TypeOK
<1>1. FilesInv => Files!TypeOK
  BY DEF FilesInv, FileTypes, HoldsLock, Files!TypeOK
<1>2. QED
  BY <1>1, FilesInductive, PTL

(* vfs.py:8, "regenerated on every open": whoever else opens a dynamic     *)
(* file at the time, a thread reads a sample taken since it opened it, or  *)
(* the file as another thread truncated it: the copy is rewritten under    *)
(* the lock, and every sample written is newer than the opens before it.   *)
THEOREM OpensReadFreshSamples ==
    ASSUME SensibleFiles
    PROVE  Files!Spec => []Files!FreshReads
<1>1. FilesInv => Files!FreshReads
  BY DEF FilesInv
<1>2. QED
  BY <1>1, FilesInductive, PTL

-----------------------------------------------------------------------------
(* The parts: what a driver was told, and what a part does.                *)
CONSTANTS Channels, MaxTaken
VARIABLES taken, bme, ads, mpu, refused

Board == INSTANCE Parts WITH sample <- taken, MaxSamples <- MaxTaken

Bme == [ctrl_hum : BOOLEAN, osrs : BOOLEAN, mode : Board!Modes, osrs_h : BOOLEAN,
        data : [climate : Nat, humidity : Nat]]

Ads == [pointer : {"conversion", "config"}, mux : Channels, single : BOOLEAN,
        started : BOOLEAN, conversion : Channels \cup {Board!Skipped}]

PartTypes == taken \in Nat /\ bme \in Bme /\ ads \in Ads

PartsInv == PartTypes /\ Board!SettingsHold

USE DEF Board!Sleep, Board!Forced, Board!Normal, Board!Modes, Board!Skipped

LEMMA ClimateKeeps ==
    ASSUME PartsInv,
           \/ \E on \in BOOLEAN : Board!write_ctrl_hum(on)
           \/ \E on \in BOOLEAN, mode \in Board!Modes : Board!write_ctrl_meas(on, mode)
           \/ Board!write_reset
           \/ Board!read_bme
    PROVE  PartsInv'
<1> USE DEF PartsInv, PartTypes, Bme, Board!SettingsHold
<1>0. (taken' = taken \/ taken' = taken + 1) /\ UNCHANGED ads
  BY Zenon DEF Board!write_ctrl_hum, Board!write_ctrl_meas, Board!write_reset, Board!read_bme,
               Board!Taken, Board!Dropout
<1>1. taken' \in Nat /\ UNCHANGED ads
  BY <1>0
<1>a. "ads1115" \in refused' <=> "ads1115" \in refused
  <2>1. \/ refused' = refused
        \/ refused' = refused \cup {"bme280"}
        \/ refused' = refused \ {"bme280"}
    BY DEF Board!write_ctrl_hum, Board!write_ctrl_meas, Board!write_reset, Board!read_bme,
           Board!Refuses, Board!Accepts
  <2>2. QED
    BY <2>1
<1>2. Board!ConversionIsTheConfigs' /\ ads' \in Ads
  BY <1>1, <1>a DEF Board!ConversionIsTheConfigs, Ads
<1>b. \A b \in Bme : Board!Measured(b) \in Bme /\ Board!Measured(b).mode = b.mode
  <2> SUFFICES ASSUME NEW b \in Bme
               PROVE  Board!Measured(b) \in Bme /\ Board!Measured(b).mode = b.mode
    OBVIOUS
  <2> DEFINE d == [climate  |-> IF b.osrs THEN taken + 1 ELSE Board!Skipped,
                   humidity |-> IF b.osrs_h THEN taken + 1 ELSE Board!Skipped]
  <2>1. d \in [climate : Nat, humidity : Nat]
    OBVIOUS
  <2>2. Board!Measured(b) = [b EXCEPT !.data = d]
    BY DEF Board!Measured
  <2> HIDE DEF d
  <2>3. QED
    BY <2>1, <2>2
<1>3. \A b \in Bme : Board!AfterMeasuring(b) \in Bme /\ Board!AfterMeasuring(b).mode # Board!Forced
  BY <1>b DEF Board!AfterMeasuring
<1>4. bme' \in Bme /\ Board!ForcedSleeps'
  <2>1. CASE \E on \in BOOLEAN : Board!write_ctrl_hum(on)
    BY <2>1 DEF Board!write_ctrl_hum, Board!ForcedSleeps
  <2>2. CASE \E on \in BOOLEAN, mode \in Board!Modes : Board!write_ctrl_meas(on, mode)
    <3>1. PICK on \in BOOLEAN, mode \in Board!Modes : Board!write_ctrl_meas(on, mode)
      BY <2>2
    <3> DEFINE b == [bme EXCEPT !.osrs = on, !.mode = mode, !.osrs_h = bme.ctrl_hum]
    <3>2. b \in Bme /\ b.mode = mode
      OBVIOUS
    <3>3. \/ mode = Board!Sleep /\ bme' = b
          \/ bme' = Board!AfterMeasuring(b)
          \/ bme' = b /\ "bme280" \in refused'
      BY <3>1 DEF Board!write_ctrl_meas, Board!Refuses
    <3> HIDE DEF b
    <3>4. QED
      BY <1>3, <3>2, <3>3 DEF Board!ForcedSleeps
  <2>3. CASE Board!write_reset
    BY <2>3 DEF Board!write_reset, Board!ResetBme, Board!ForcedSleeps
  <2>4. CASE Board!read_bme
    BY <1>b, <2>4 DEF Board!read_bme, Board!ForcedSleeps
  <2>5. QED
    BY <2>1, <2>2, <2>3, <2>4
<1>5. QED
  BY <1>1, <1>2, <1>4

LEMMA ConverterKeeps ==
    ASSUME PartsInv,
           \/ \E mux \in Channels, single, start \in BOOLEAN : Board!write_config(mux, single, start)
           \/ \E register \in {"conversion", "config"} : Board!write_pointer(register)
           \/ Board!read_ads
    PROVE  PartsInv'
<1> USE DEF PartsInv, PartTypes, Ads, Board!SettingsHold
<1>0. (taken' = taken \/ taken' = taken + 1) /\ UNCHANGED bme
  BY Zenon DEF Board!write_config, Board!write_pointer, Board!read_ads, Board!Taken, Board!Dropout
<1>1. taken' \in Nat /\ UNCHANGED bme
  BY <1>0
<1>a. "bme280" \in refused' <=> "bme280" \in refused
  <2>1. \/ refused' = refused
        \/ refused' = refused \cup {"ads1115"}
        \/ refused' = refused \ {"ads1115"}
    BY DEF Board!write_config, Board!write_pointer, Board!read_ads, Board!Refuses, Board!Accepts
  <2>2. QED
    BY <2>1
<1>2. Board!ForcedSleeps' /\ bme' \in Bme
  BY <1>1, <1>a DEF Board!ForcedSleeps, Bme
<1>3. \A a \in Ads : /\ Board!Converted(a) \in Ads
                     /\ Board!Converted(a).mux = a.mux
                     /\ Board!Converted(a).conversion = a.mux
                     /\ Board!Converted(a).single = a.single
                     /\ Board!Converted(a).started = a.started
  BY DEF Board!Converted
<1>4. ads' \in Ads /\ Board!ConversionIsTheConfigs'
  <2>1. CASE \E mux \in Channels, single, start \in BOOLEAN : Board!write_config(mux, single, start)
    <3>1. PICK mux \in Channels, single \in BOOLEAN, start \in BOOLEAN :
              Board!write_config(mux, single, start)
      BY <2>1
    <3> DEFINE a == [ads EXCEPT !.mux = mux, !.single = single, !.started = start,
                                !.pointer = "config"]
    <3>2. a \in Ads /\ a.single = single /\ a.started = start
      OBVIOUS
    <3>3. \/ ~(start /\ single) /\ ads' = a
          \/ ads' = Board!Converted(a)
          \/ ads' = a /\ "ads1115" \in refused'
      BY <3>1 DEF Board!write_config, Board!Refuses
    <3> HIDE DEF a
    <3>4. QED
      BY <1>3, <3>2, <3>3 DEF Board!ConversionIsTheConfigs
  <2>2. CASE \E register \in {"conversion", "config"} : Board!write_pointer(register)
    BY <2>2 DEF Board!write_pointer, Board!ConversionIsTheConfigs
  <2>3. CASE Board!read_ads
    BY <1>3, <2>3 DEF Board!read_ads, Board!ConversionIsTheConfigs
  <2>4. QED
    BY <2>1, <2>2, <2>3
<1>5. QED
  BY <1>1, <1>2, <1>4

LEMMA MotionKeeps ==
    ASSUME PartsInv,
           \/ \E value \in {"wake", "sleep", "reset"} : Board!write_pwr_mgmt(value)
           \/ Board!read_mpu
    PROVE  PartsInv'
<1>1. taken' \in Nat /\ UNCHANGED <<bme, ads, refused>>
  BY DEF PartsInv, PartTypes, Board!write_pwr_mgmt, Board!read_mpu, Board!Taken, Board!Dropout
<1>2. QED
  BY <1>1 DEF PartsInv, PartTypes, Bme, Ads, Board!SettingsHold, Board!ForcedSleeps,
              Board!ConversionIsTheConfigs

LEMMA PartsInductive == ASSUME Channels # {} PROVE Board!Spec => []PartsInv
<1>1. Board!Init => PartsInv
  <2> SUFFICES ASSUME Board!Init PROVE PartsInv
    OBVIOUS
  <2>1. (CHOOSE c \in Channels : TRUE) \in Channels
    OBVIOUS
  <2>2. PartTypes
    BY <2>1 DEF Board!Init, Board!ResetBme, PartTypes, Bme, Ads
  <2>3. QED
    BY <2>2 DEF Board!Init, Board!ResetBme, PartsInv, Board!SettingsHold, Board!ForcedSleeps,
                Board!ConversionIsTheConfigs
<1>2. PartsInv /\ [Board!Next]_Board!vars => PartsInv'
  <2>1. CASE UNCHANGED Board!vars
    BY <2>1 DEF PartsInv, PartTypes, Bme, Ads, Board!SettingsHold, Board!ForcedSleeps,
                Board!ConversionIsTheConfigs, Board!vars
  <2>2. ASSUME PartsInv, Board!Next PROVE PartsInv'
    BY <2>2, ClimateKeeps, ConverterKeeps, MotionKeeps DEF Board!Next
  <2>3. QED
    BY <2>1, <2>2
<1>3. QED
  BY <1>1, <1>2, PTL DEF Board!Spec

(* A part in forced mode is one whose driver was told that its measurement *)
(* failed, and the conversion a driver reads after it started one, and was *)
(* not refused, is the one it asked for: an ADS1115's configuration and    *)
(* conversion agree after every history of settings, dropouts and reads.   *)
THEOREM PartsDoAsTold ==
    ASSUME Channels # {}
    PROVE  Board!Spec => []Board!SettingsHold
<1>1. PartsInv => Board!SettingsHold
  BY DEF PartsInv
<1>2. QED
  BY <1>1, PartsInductive, PTL

(* The data registers hold samples that were taken. *)
DataIsTaken ==
    /\ bme.data \in [climate : 0..taken, humidity : 0..taken]
    /\ mpu \in [asleep : BOOLEAN, data : 0..taken]

LEMMA DataStaysTaken ==
    ASSUME PartsInv, DataIsTaken, Board!Next
    PROVE  DataIsTaken'
<1>1. taken \in Nat
  BY DEF PartsInv, PartTypes
<1>2. (taken' = taken \/ taken' = taken + 1) /\ 0..taken \subseteq 0..taken'
  <2>1. taken' = taken \/ taken' = taken + 1
    BY Zenon DEF Board!Next, Board!write_ctrl_hum, Board!write_ctrl_meas, Board!write_reset,
        Board!read_bme, Board!write_config, Board!write_pointer, Board!read_ads, Board!write_pwr_mgmt,
        Board!read_mpu, Board!Taken, Board!Dropout
  <2>2. QED
    BY <1>1, <2>1
<1> DEFINE Measured == [climate  : 0..taken + 1, humidity : 0..taken + 1]
<1>3. bme'.data \in [climate : 0..taken', humidity : 0..taken']
  <2>0. bme \in Bme /\ bme.data \in [climate : 0..taken, humidity : 0..taken]
    BY DEF PartsInv, PartTypes, DataIsTaken
  <2>1. \A b \in Bme : /\ Board!Measured(b).data \in Measured
                       /\ Board!AfterMeasuring(b).data \in Measured
    <3> SUFFICES ASSUME NEW b \in Bme
                 PROVE  Board!Measured(b).data \in Measured /\ Board!AfterMeasuring(b).data \in Measured
      OBVIOUS
    <3>1. Board!Measured(b).data \in Measured
      BY <1>1 DEF Board!Measured, Bme
    <3>2. Board!AfterMeasuring(b).data = Board!Measured(b).data
      BY DEF Board!AfterMeasuring, Board!Measured, Bme
    <3>3. QED
      BY <3>1, <3>2
  <2>2. CASE bme'.data = bme.data
    BY <1>2, <2>0, <2>2
  <2>3. CASE taken' = taken + 1 /\ bme'.data \in Measured
    BY <2>3
  <2>4. CASE bme' = Board!ResetBme
    BY <1>1, <1>2, <2>4 DEF Board!ResetBme
  <2>5. ASSUME NEW on \in BOOLEAN, NEW mode \in Board!Modes, Board!write_ctrl_meas(on, mode)
        PROVE  bme'.data = bme.data \/ (taken' = taken + 1 /\ bme'.data \in Measured)
    <3> DEFINE b == [bme EXCEPT !.osrs = on, !.mode = mode, !.osrs_h = bme.ctrl_hum]
    <3>1. b \in Bme /\ b.data = bme.data
      BY <2>0 DEF Bme
    <3>2. bme' = b \/ (taken' = taken + 1 /\ bme' = Board!AfterMeasuring(b))
      BY Zenon, <2>5 DEF Board!write_ctrl_meas, Board!Taken
    <3> HIDE DEF b, Measured
    <3>3. QED
      BY <2>1, <3>1, <3>2
  <2>6. ASSUME NEW on \in BOOLEAN, Board!write_ctrl_hum(on)
        PROVE  bme'.data = bme.data
    BY <2>0, <2>6 DEF Board!write_ctrl_hum, Bme
  <2>7. ASSUME Board!read_bme
        PROVE  bme'.data = bme.data \/ (taken' = taken + 1 /\ bme'.data \in Measured)
    <3>1. bme' = bme \/ (taken' = taken + 1 /\ bme' = Board!Measured(bme))
      BY Zenon, <2>7 DEF Board!read_bme, Board!Taken
    <3> HIDE DEF Measured
    <3>2. QED
      BY <2>0, <2>1, <3>1
  <2>8. \/ \E on \in BOOLEAN : Board!write_ctrl_hum(on)
        \/ \E on \in BOOLEAN, mode \in Board!Modes : Board!write_ctrl_meas(on, mode)
        \/ bme' = Board!ResetBme
        \/ Board!read_bme
        \/ bme' = bme
    BY Zenon DEF Board!Next, Board!write_reset, Board!write_config, Board!write_pointer,
                 Board!read_ads, Board!write_pwr_mgmt, Board!read_mpu
  <2>9. QED
    BY <2>2, <2>3, <2>4, <2>5, <2>6, <2>7, <2>8
<1>4. mpu' \in [asleep : BOOLEAN, data : 0..taken']
  <2>1. CASE mpu' = mpu
    BY <1>2, <2>1 DEF DataIsTaken
  <2>2. CASE \E value \in {"wake", "sleep", "reset"} : Board!write_pwr_mgmt(value)
    <3>1. \/ mpu' = [mpu EXCEPT !.asleep = FALSE]
          \/ mpu' = [mpu EXCEPT !.asleep = TRUE]
          \/ mpu' = [asleep |-> TRUE, data |-> Board!Skipped]
      BY <2>2 DEF Board!write_pwr_mgmt
    <3>2. mpu' \in [asleep : BOOLEAN, data : 0..taken]
      <4>1. \A m \in [asleep : BOOLEAN, data : 0..taken] :
                /\ [m EXCEPT !.asleep = FALSE] \in [asleep : BOOLEAN, data : 0..taken]
                /\ [m EXCEPT !.asleep = TRUE] \in [asleep : BOOLEAN, data : 0..taken]
        OBVIOUS
      <4>2. [asleep |-> TRUE, data |-> Board!Skipped] \in [asleep : BOOLEAN, data : 0..taken]
        BY <1>1
      <4>3. QED
        BY <3>1, <4>1, <4>2 DEF DataIsTaken
    <3>3. QED
      BY <1>2, <3>2
  <2>3. CASE Board!read_mpu
    BY <1>1, <1>2, <2>3 DEF DataIsTaken, Board!read_mpu, Board!Taken, Board!Dropout
  <2>4. QED
    BY Zenon, <2>1, <2>2, <2>3 DEF Board!Next, Board!write_ctrl_hum, Board!write_ctrl_meas,
        Board!write_reset, Board!read_bme, Board!write_config, Board!write_pointer, Board!read_ads
<1>5. QED
  BY <1>3, <1>4 DEF DataIsTaken

(* The registers hold a sample that was taken, or nothing, and a conversion *)
(* of a channel.                                                            *)
THEOREM PartsTypeCorrect == ASSUME Channels # {} PROVE Board!Spec => []Board!TypeOK
<1>1. Board!Init => DataIsTaken
  BY DEF Board!Init, Board!ResetBme, DataIsTaken
<1>2. PartsInv /\ DataIsTaken /\ [Board!Next]_Board!vars => DataIsTaken'
  BY DataStaysTaken DEF Board!vars, DataIsTaken
<1>3. PartsInv /\ DataIsTaken => Board!TypeOK
  BY DEF PartsInv, PartTypes, Bme, Ads, DataIsTaken, Board!TypeOK
<1>4. QED
  BY <1>1, <1>2, <1>3, PartsInductive, PTL DEF Board!Spec

-----------------------------------------------------------------------------
(* The layout: the parts of a document, and what the buses hold of them.   *)
CONSTANTS Entries, MaxParts
VARIABLES doc, verdict, board, onewire, nodes

Document == INSTANCE Layout

(* None is neither a verdict nor the place of a part that has one.         *)
SensibleLayout ==
    /\ MaxParts \in Nat
    /\ None \notin {"wrong", "accepted"}
    /\ \A e \in Entries : e.part \in Document!PARTS /\ (e.part = "ds18b20" => e.at # None) =>
          Document!where(e) # None

Sensors(d) == {i \in DOMAIN d : d[i].part = "ds18b20"}

Placed(d) == DOMAIN d \ Sensors(d)

Place(i) == Document!where(doc[i])

Before(d, i) == {j \in Sensors(d) : j < i /\ d[j].at = None}

Ids(d) == [i \in Sensors(d) |-> IF d[i].at # None THEN <<"own", d[i].at>>
                                ELSE <<"made up", Document!Cardinality(Before(d, i))>>]

Holds(d) == [w \in {Document!where(d[i]) : i \in Placed(d)} |->
                CHOOSE i \in Placed(d) :
                    Document!where(d[i]) = w /\ \A j \in Placed(d) : Document!where(d[j]) = w => j <= i]

Nodes(places) == Document!Buses \cup {IF w[1] = "i2c" THEN <<"i2c", w[2]>> ELSE w : w \in places}

InPlace == verdict = "accepted" /\ onewire = Ids(doc) /\ board = Holds(doc) /\ nodes = Nodes(DOMAIN board)

(* What stands on the buses is what an accepted document says.             *)
LayoutInv ==
    /\ doc \in Seq(Entries) /\ Len(doc) <= MaxParts
    /\ verdict \in {None, "wrong", "accepted"}
    /\ verdict = "accepted" =>
          \A i \in DOMAIN doc : Document!_part(doc[i]) /\ ~Document!Taken(i)
    /\ \/ board = <<>> /\ onewire = <<>> /\ nodes = {}
       \/ InPlace

LEMMA LayoutInductive == ASSUME SensibleLayout PROVE Document!Spec => []LayoutInv
<1>1. Document!Init => LayoutInv
  BY DEF Document!Init, LayoutInv, SensibleLayout
<1>2. LayoutInv /\ [Document!Next]_Document!vars => LayoutInv'
  <2> SUFFICES ASSUME LayoutInv, [Document!Next]_Document!vars PROVE LayoutInv'
    OBVIOUS
  <2>1. ASSUME NEW e \in Entries, Document!Write(e) PROVE LayoutInv'
    <3>1. board = <<>> /\ onewire = <<>> /\ nodes = {}
      BY <2>1 DEF LayoutInv, InPlace, Document!Write, SensibleLayout
    <3>2. doc' \in Seq(Entries) /\ Len(doc') = Len(doc) + 1 /\ Len(doc) \in Nat
      BY <2>1 DEF LayoutInv, Document!Write
    <3>3. QED
      BY <2>1, <3>1, <3>2 DEF LayoutInv, Document!Write, SensibleLayout
  <2>2. CASE Document!parse
    <3>1. board = <<>> /\ onewire = <<>> /\ nodes = {}
      BY <2>2 DEF LayoutInv, InPlace, Document!parse, SensibleLayout
    <3>2. verdict' = "accepted" =>
              \A i \in DOMAIN doc : Document!_part(doc[i]) /\ ~Document!Taken(i)
      BY <2>2 DEF Document!parse
    <3>3. doc' = doc /\ verdict' \in {"wrong", "accepted"}
      BY <2>2 DEF Document!parse
    <3>4. (\A i \in DOMAIN doc : Document!_part(doc[i]) /\ ~Document!Taken(i)) =>
              (\A i \in DOMAIN doc : Document!_part(doc[i]) /\ ~Document!Taken(i))'
      BY <3>3 DEF Document!_part, Document!Taken
    <3>5. QED
      BY <2>2, <3>1, <3>2, <3>3, <3>4 DEF LayoutInv, Document!parse
  <2>3. CASE Document!attach
    <3>1. UNCHANGED <<doc, verdict>> /\ verdict = "accepted"
      BY <2>3 DEF Document!attach
    <3>2. InPlace'
      <4>1. onewire' = Ids(doc)
        BY Zenon, <2>3 DEF Document!attach, Document!Ids, Document!Sensors, Ids, Sensors, Before
      <4>2. board' = Holds(doc)
        BY Zenon, <2>3 DEF Document!attach, Document!Sensors, Holds, Placed, Sensors
      <4>3. nodes' = Nodes(DOMAIN board')
        BY Zenon, <2>3 DEF Document!attach, Nodes
      <4>4. QED
        BY <3>1, <4>1, <4>2, <4>3 DEF InPlace
    <3>3. (\A i \in DOMAIN doc : Document!_part(doc[i]) /\ ~Document!Taken(i))'
      BY <3>1 DEF LayoutInv, Document!_part, Document!Taken
    <3>4. QED
      BY <3>1, <3>2, <3>3 DEF LayoutInv
  <2>4. CASE Document!reset
    BY <2>4 DEF LayoutInv, Document!reset, SensibleLayout
  <2>5. CASE UNCHANGED Document!vars
    BY <2>5 DEF LayoutInv, InPlace, Document!vars, Document!Taken
  <2>6. QED
    BY <2>1, <2>2, <2>3, <2>4, <2>5 DEF Document!Next
<1>3. QED
  BY <1>1, <1>2, PTL DEF Document!Spec

LEMMA DocumentShape ==
    ASSUME LayoutInv
    PROVE  /\ DOMAIN doc = 1..Len(doc) /\ Len(doc) \in Nat /\ doc \in Seq(Entries)
           /\ Sensors(doc) \subseteq 1..Len(doc) /\ Placed(doc) = (1..Len(doc)) \ Sensors(doc)
           /\ IsFiniteSet(Sensors(doc)) /\ IsFiniteSet(Placed(doc))
           /\ Cardinality(1..Len(doc)) = Len(doc) /\ IsFiniteSet(1..Len(doc))
<1>1. DOMAIN doc = 1..Len(doc) /\ Len(doc) \in Nat /\ doc \in Seq(Entries)
  BY DEF LayoutInv
<1>2. Sensors(doc) \subseteq 1..Len(doc) /\ Placed(doc) = (1..Len(doc)) \ Sensors(doc)
  BY <1>1 DEF Sensors, Placed
<1>3. 1 \in Int /\ Len(doc) \in Int
  BY <1>1
<1>4. /\ IsFiniteSet(1..Len(doc))
      /\ Cardinality(1..Len(doc)) = IF 1 > Len(doc) THEN 0 ELSE Len(doc) - 1 + 1
  BY <1>3, FS_Interval, Zenon
<1>5. Cardinality(1..Len(doc)) = Len(doc)
  BY <1>1, <1>4
<1>6. IsFiniteSet(Sensors(doc)) /\ IsFiniteSet(Placed(doc))
  BY <1>2, <1>4, FS_Subset
<1>7. QED
  BY <1>1, <1>2, <1>4, <1>5, <1>6

(* No two parts of an accepted document are in one place. *)
LEMMA OnePartEach ==
    ASSUME SensibleLayout, LayoutInv, verdict = "accepted",
           NEW i \in DOMAIN doc, NEW j \in DOMAIN doc, Place(i) = Place(j), Place(i) # None
    PROVE  i = j
<1>1. DOMAIN doc = 1..Len(doc) /\ Len(doc) \in Nat
  BY DocumentShape
<1>2. ~Document!Taken(i) /\ ~Document!Taken(j)
  BY DEF LayoutInv
<1>3. ~(j \in 1..i - 1) /\ ~(i \in 1..j - 1)
  BY <1>2 DEF Document!Taken, Place
<1>4. QED
  BY <1>1, <1>3

LEMMA PlacedSomewhere ==
    ASSUME SensibleLayout, LayoutInv, verdict = "accepted", NEW i \in DOMAIN doc,
           i \in Sensors(doc) => doc[i].at # None
    PROVE  Place(i) # None
<1>1. doc[i] \in Entries /\ Document!_part(doc[i])
  BY DEF LayoutInv
<1>2. QED
  BY <1>1 DEF SensibleLayout, Place, Document!_part, Sensors

LEMMA EachHasItsPlace ==
    ASSUME SensibleLayout, LayoutInv, InPlace, NEW i \in Placed(doc)
    PROVE  Place(i) \in DOMAIN board /\ board[Place(i)] = i
<1>1. verdict = "accepted"
  BY DEF InPlace
<1>2. \A j \in Placed(doc) : Place(j) = Place(i) => j = i
  BY <1>1, OnePartEach, PlacedSomewhere DEF Placed
<1>3. i \in Int /\ i <= i
  BY DocumentShape
<1>4. Place(i) \in DOMAIN board
  BY DEF InPlace, Holds, Place
<1> DEFINE Last(k) == Place(k) = Place(i) /\ \A j \in Placed(doc) : Place(j) = Place(i) => j <= k
<1>5. board[Place(i)] = CHOOSE k \in Placed(doc) : Last(k)
  BY <1>4 DEF InPlace, Holds, Place
<1>6. Last(i) /\ \A k \in Placed(doc) : Last(k) => k = i
  BY <1>2, <1>3
<1> HIDE DEF Last
<1>7. QED
  BY <1>4, <1>5, <1>6

(* The layout counts as everything else does. *)
LEMMA SameCardinality == \A S : Document!Cardinality(S) = Cardinality(S)
BY Zenon DEF Document!Cardinality, Cardinality

LEMMA PairsDiffer == \A a, b, c, d : <<a, b>> = <<c, d>> => a = c /\ b = d
OBVIOUS

LEMMA SensorsWhere ==
    ASSUME NEW p, p.part = "ds18b20", p.at # None
    PROVE  Document!where(p) = <<"w1", p.at>>
<1>1. p.part \notin DOMAIN Document!I2C_PARTS
  BY DEF Document!I2C_PARTS
<1>2. p.part # "mcp3008" /\ p.part # "loopback"
  OBVIOUS
<1>3. QED
  BY Zenon, <1>1, <1>2 DEF Document!where

(* The 1-Wire sensors have ids of their own: a number made up counts the   *)
(* sensors before it that have none.                                       *)
LEMMA IdsDiffer ==
    ASSUME SensibleLayout, LayoutInv, InPlace,
           NEW i \in Sensors(doc), NEW j \in Sensors(doc), i < j
    PROVE  Ids(doc)[i] # Ids(doc)[j]
<1>1. i \in DOMAIN doc /\ j \in DOMAIN doc /\ i \in Int /\ j \in Int /\ verdict = "accepted"
  BY DocumentShape DEF InPlace, Sensors
<1>2. \A k \in Sensors(doc) :
          /\ doc[k].at # None => Ids(doc)[k] = <<"own", doc[k].at>>
          /\ doc[k].at = None => Ids(doc)[k] = <<"made up", Cardinality(Before(doc, k))>>
  BY SameCardinality DEF Ids
<1>3. CASE doc[i].at # None /\ doc[j].at # None
  <2>1. Place(i) # None
    BY <1>1, <1>3, PlacedSomewhere
  <2>2. Place(i) = <<"w1", doc[i].at>> /\ Place(j) = <<"w1", doc[j].at>>
    BY Zenon, SensorsWhere, <1>3 DEF Place, Sensors
  <2>3. doc[i].at # doc[j].at
    BY <1>1, <2>1, <2>2, OnePartEach
  <2>4. Ids(doc)[i] = <<"own", doc[i].at>> /\ Ids(doc)[j] = <<"own", doc[j].at>>
    BY <1>2, <1>3
  <2>5. QED
    BY <2>3, <2>4
<1>4. CASE doc[i].at = None /\ doc[j].at = None
  <2>1. Before(doc, i) \subseteq Before(doc, j) /\ i \in Before(doc, j) /\ i \notin Before(doc, i)
    <3>1. \A k \in Sensors(doc) : k \in Int
      BY DocumentShape
    <3>2. QED
      BY <1>1, <1>4, <3>1 DEF Before
  <2>2. IsFiniteSet(Before(doc, j))
    BY DocumentShape, FS_Subset DEF Before
  <2>3. Cardinality(Before(doc, i)) # Cardinality(Before(doc, j))
    BY <2>1, <2>2, FS_Subset
  <2>4. /\ Ids(doc)[i] = <<"made up", Cardinality(Before(doc, i))>>
        /\ Ids(doc)[j] = <<"made up", Cardinality(Before(doc, j))>>
    BY <1>2, <1>4
  <2>5. QED
    BY Zenon, <2>3, <2>4, PairsDiffer
<1>5. CASE ~(doc[i].at # None <=> doc[j].at # None)
  <2>1. PICK k \in {i, j}, l \in {i, j} : doc[k].at # None /\ doc[l].at = None /\ {k, l} = {i, j}
    BY <1>5
  <2>2. Ids(doc)[k] # Ids(doc)[l]
    <3>2. k \in Sensors(doc) /\ l \in Sensors(doc)
      OBVIOUS
    <3>3. /\ Ids(doc)[k] = <<"own", doc[k].at>>
          /\ Ids(doc)[l] = <<"made up", Cardinality(Before(doc, l))>>
      BY Zenon, <1>2, <2>1, <3>2
    <3> SUFFICES ASSUME Ids(doc)[k] = Ids(doc)[l] PROVE FALSE
      OBVIOUS
    <3>4. <<"own", doc[k].at>> = <<"made up", Cardinality(Before(doc, l))>>
      BY Zenon, <3>3
    <3>5. QED
      BY <3>4
  <2>3. QED
    BY <2>1, <2>2
<1>6. QED
  BY <1>3, <1>4, <1>5

LEMMA AllThere ==
    ASSUME SensibleLayout, LayoutInv, InPlace
    PROVE  Cardinality(DOMAIN onewire) + Cardinality(DOMAIN board) = Len(doc)
<1>1. DOMAIN onewire = Sensors(doc) /\ DOMAIN board = {Place(i) : i \in Placed(doc)}
  BY DEF InPlace, Ids, Holds, Place
<1>2. Cardinality(Sensors(doc)) + Cardinality(Placed(doc)) = Len(doc)
  <2>1. Sensors(doc) \cup Placed(doc) = 1..Len(doc) /\ Sensors(doc) \cap Placed(doc) = {}
    BY DocumentShape
  <2>2. Cardinality(Sensors(doc)) \in Nat /\ Cardinality(Placed(doc)) \in Nat
    BY DocumentShape, FS_CardinalityType
  <2>3. Cardinality(1..Len(doc)) = Cardinality(Sensors(doc)) + Cardinality(Placed(doc)) - Cardinality({})
    BY <2>1, DocumentShape, FS_Union, Zenon
  <2>4. QED
    BY <2>2, <2>3, DocumentShape, FS_EmptySet
<1>3. Cardinality(DOMAIN board) = Cardinality(Placed(doc))
  <2> DEFINE f == [i \in Placed(doc) |-> Place(i)]
  <2>1. f \in [Placed(doc) -> DOMAIN board] /\ \A w \in DOMAIN board : \E i \in Placed(doc) : f[i] = w
    BY <1>1
  <2>2. \A i, j \in Placed(doc) : f[i] = f[j] => i = j
    BY EachHasItsPlace
  <2>3. f \in Bijection(Placed(doc), DOMAIN board)
    BY <2>1, <2>2 DEF Bijection, Injection, Surjection, IsInjective
  <2>4. QED
    BY <2>3, DocumentShape, FS_Bijection DEF ExistsBijection
<1>4. QED
  BY <1>1, <1>2, <1>3

THEOREM LayoutTypeCorrect == ASSUME SensibleLayout PROVE Document!Spec => []Document!TypeOK
<1>1. LayoutInv => Document!TypeOK
  <2> SUFFICES ASSUME LayoutInv PROVE Document!TypeOK
    OBVIOUS
  <2>1. \A w \in DOMAIN board : board[w] \in DOMAIN doc
    <3>1. CASE InPlace
      <4>1. DOMAIN board = {Place(i) : i \in Placed(doc)}
        BY <3>1 DEF InPlace, Holds, Place
      <4>2. \A i \in Placed(doc) : board[Place(i)] \in DOMAIN doc
        BY <3>1, EachHasItsPlace DEF Placed
      <4>3. QED
        BY <4>1, <4>2
    <3>2. CASE board = <<>>
      BY <3>2
    <3>3. QED
      BY <3>1, <3>2 DEF LayoutInv
  <2>2. QED
    BY <2>1 DEF LayoutInv, Document!TypeOK
<1>2. QED
  BY <1>1, LayoutInductive, PTL

(* No part of an accepted layout hides another: each is found in its place *)
(* on its bus, or under an id of its own, none is lost, and each bus has   *)
(* its file in /dev.                                                       *)
THEOREM LayoutShadowsNothing == ASSUME SensibleLayout PROVE Document!Spec => []Document!NothingShadowed
<1>1. LayoutInv => Document!NothingShadowed
  <2> SUFFICES ASSUME LayoutInv, nodes # {} PROVE Document!NothingShadowed
    BY DEF Document!NothingShadowed
  <2>1. InPlace
    BY DEF LayoutInv
  <2>2. \A i \in DOMAIN doc : doc[i].part # "ds18b20" => board[Document!where(doc[i])] = i
    BY <2>1, EachHasItsPlace DEF Placed, Place, Sensors
  <2>3. \A i, j \in DOMAIN onewire : i # j => onewire[i] # onewire[j]
    <3>1. onewire = Ids(doc) /\ DOMAIN onewire = Sensors(doc)
      BY <2>1 DEF InPlace, Ids
    <3>2. \A i, j \in Sensors(doc) : i # j => i < j \/ j < i
      BY DocumentShape
    <3>3. QED
      BY <2>1, <3>1, <3>2, IdsDiffer
  <2>4. Cardinality(DOMAIN onewire) + Cardinality(DOMAIN board) = Len(doc)
    BY <2>1, AllThere
  <2>5. \A w \in DOMAIN board : (IF w[1] = "i2c" THEN <<w[1], w[2]>> ELSE w) \in nodes
    BY <2>1 DEF InPlace, Nodes
  <2>6. QED
    BY <2>2, <2>3, <2>4, <2>5, SameCardinality DEF Document!NothingShadowed
<1>2. QED
  BY <1>1, LayoutInductive, PTL
=============================================================================
