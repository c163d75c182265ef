----------------------------- MODULE GpiodProofs -----------------------------
(***************************************************************************)
(* What holds of the gpiod front ends for any lines, threads, requests,    *)
(* settings, descriptors and sizes of the buffer: of v2 first, and then of *)
(* v1, an instance of its module.                                          *)
(***************************************************************************)
EXTENDS Gpiod2, TLAPS

(* A request has lines, a closed pipe is told from one that holds bytes,   *)
(* and a line that nobody holds from one of a request.                     *)
Sensible ==
    /\ Bundles \subseteq SUBSET Lines /\ {} \notin Bundles
    /\ None \notin Requests /\ None \notin Pipes /\ None \notin Nat
    /\ BufferSize \in Nat
    /\ \A s \in Settings \cup {Quiet} : s.edge \subseteq {0, 1}

Request == [lines : SUBSET Lines, settings : [Lines -> Settings \cup {Quiet}],
            seqno : [Lines -> Nat], events : Seq(Lines \X Nat), pipe : Pipes \cup {None},
            released : BOOLEAN, configuring : BOOLEAN]

Given == {<<>>} \cup UNION {[lines -> Settings] : lines \in SUBSET Lines}

Call == [request : Requests \cup {None}, todo : SUBSET Lines, given : Given,
         output : BOOLEAN, level : {0, 1}]

(* The types of everything, what a request is before it is made, and that  *)
(* no buffer holds more than it may.                                       *)
Types ==
    /\ requested \in [Lines -> Requests \cup {None}]
    /\ pin \in [Lines -> [function : {"input", "output", None}, level : {0, 1}]]
    /\ req \in [Requests -> Request]
    /\ pipes \in [Pipes -> Nat \cup {None}]
    /\ pc \in [Callers -> Places]
    /\ call \in [Callers -> Call]
    /\ \A r \in Requests : /\ ~Made(r) => req[r] = Unmade
                           /\ Len(req[r].events) <= BufferSize

(* What a thread's call is about where it is: a request that was made; a   *)
(* reader's is live, since its release waits for the reader.               *)
Doing(t, place, c) ==
    /\ place \in Places \ {"idle", "changed"} => c.request \in Requests /\ Made(c.request)
    /\ place \in {"apply", "applied"} => c.given \in [req[c.request].lines -> Settings]
    /\ place \in {"read", "select"} => t \in Readers /\ Live(c.request)
    /\ place \in {"release", "close"} => req[c.request].released

Calls == \A t \in Callers : Doing(t, pc[t], call[t])

Closes(t, r) == pc[t] \in {"release", "close"} /\ call[t].request = r

(* One thread releases a request. *)
Closers == \A t, u \in Callers, r \in Requests : Closes(t, r) /\ Closes(u, r) => t = u

(* The request's pipe is still its own. *)
Open(r) == Live(r) \/ \E t \in Callers : Closes(t, r)

PipesApart ==
    /\ \A r \in Requests : Open(r) => req[r].pipe \in Pipes /\ pipes[req[r].pipe] # None
    /\ \A r, q \in Requests : Open(r) /\ Open(q) /\ r # q => req[r].pipe # req[q].pipe

Inv == Types /\ HeldByTheLive /\ Calls /\ Closers /\ PipesApart /\ NoMissedWakeup

-----------------------------------------------------------------------------
LEMMA UnmadeType == ASSUME Sensible PROVE Unmade \in Request
BY DEF Sensible, Unmade, Request

LEMMA NoCallType == NoCall \in Call
BY DEF NoCall, Call, Given

LEMMA InitInv == ASSUME Sensible, Init PROVE Inv
<1>1. \A r \in Requests : req[r] = Unmade /\ ~Made(r) /\ ~Live(r)
  BY DEF Init, Made, Live, Unmade
<1>2. Types
  <2>1. req \in [Requests -> Request] /\ call \in [Callers -> Call]
    BY UnmadeType, NoCallType DEF Init
  <2>2. \A r \in Requests : Len(req[r].events) <= BufferSize
    BY <1>1 DEF Unmade, Sensible
  <2>3. QED
    BY <1>1, <2>1, <2>2 DEF Init, Types, Places
<1>3. HeldByTheLive
  BY <1>1 DEF Init, HeldByTheLive, Sensible
<1>4. \A t \in Callers : pc[t] = "idle"
  BY DEF Init
<1>5. Calls /\ Closers
  BY <1>4 DEF Calls, Doing, Closers, Closes
<1>6. PipesApart /\ NoMissedWakeup
  BY <1>1, <1>4 DEF PipesApart, Open, Closes, NoMissedWakeup
<1>7. QED
  BY <1>2, <1>3, <1>5, <1>6 DEF Inv

-----------------------------------------------------------------------------
(* The frame of most steps: requests keep their lines and pipes, none is   *)
(* made or released.                                                       *)

Kept == \A r \in Requests : /\ req'[r].lines = req[r].lines
                            /\ req'[r].pipe = req[r].pipe
                            /\ req'[r].released = req[r].released

LEMMA GotoCalls ==
    ASSUME Types, Calls, Kept, NEW t \in Callers, NEW place, NEW c,
           Goto(t, place, c), Doing(t, place, c)
    PROVE  Calls'
<1>1. \A u \in Callers : /\ pc'[u] = IF u = t THEN place ELSE pc[u]
                         /\ call'[u] = IF u = t THEN c ELSE call[u]
  BY DEF Goto, Types
<1>2. ASSUME NEW u, NEW where, NEW d, Doing(u, where, d) PROVE Doing(u, where, d)'
  BY <1>2 DEF Doing, Kept, Made, Live, Places
<1>3. ASSUME NEW u \in Callers PROVE Doing(u, pc'[u], call'[u])
  BY <1>1 DEF Calls
<1>4. QED
  BY <1>2, <1>3 DEF Calls

LEMMA GotoClosers ==
    ASSUME Types, Closers, Kept, NEW t \in Callers, NEW place, NEW c, Goto(t, place, c),
           place \in {"release", "close"} => Closes(t, c.request)
    PROVE  /\ Closers'
           /\ \A u \in Callers, r \in Requests : Closes(u, r)' => Closes(u, r)
<1>1. \A u \in Callers : /\ pc'[u] = IF u = t THEN place ELSE pc[u]
                         /\ call'[u] = IF u = t THEN c ELSE call[u]
  BY DEF Goto, Types
<1>2. \A u \in Callers, r \in Requests : Closes(u, r)' => Closes(u, r)
  BY <1>1 DEF Closes
<1>3. QED
  BY <1>2 DEF Closers

(* ... and so nothing is held, opened or closed by others.                 *)
LEMMA KeptHolds ==
    ASSUME Inv, Kept, UNCHANGED requested, pipes' \in [Pipes -> Nat \cup {None}],
           \A t \in Callers, r \in Requests : Closes(t, r)' => Closes(t, r),
           \A p \in Pipes : pipes[p] # None => pipes'[p] # None
    PROVE  HeldByTheLive' /\ PipesApart'
<1>1. HeldByTheLive'
  BY DEF Inv, HeldByTheLive, Kept, Live, Made
<1>2. \A r \in Requests : Open(r)' => Open(r)
  BY DEF Open, Kept, Live, Made
<1>3. PipesApart'
  BY <1>2 DEF Inv, PipesApart, Kept
<1>4. QED
  BY <1>1, <1>3

(* A thread goes on to its next statement and changes no pipe or buffer.   *)
LEMMA MovesOn ==
    ASSUME Inv, Kept, UNCHANGED <<requested, pipes>>, NEW t \in Callers,
           NEW place \in Places, NEW c \in Call, Goto(t, place, c), Doing(t, place, c),
           place \in {"release", "close"} => Closes(t, c.request),
           pin' \in [Lines -> [function : {"input", "output", None}, level : {0, 1}]],
           req' \in [Requests -> Request],
           \A r \in Requests : ~Made(r) => req'[r] = req[r],
           \A r \in Requests : req'[r].events = req[r].events
    PROVE  Inv'
<1>1. Types /\ Calls /\ Closers
  BY DEF Inv
<1>2. Calls'
  BY <1>1, GotoCalls
<1>3. /\ Closers'
      /\ \A u \in Callers, r \in Requests : Closes(u, r)' => Closes(u, r)
  BY <1>1, GotoClosers
<1>4. HeldByTheLive' /\ PipesApart'
  BY <1>1, <1>3, KeptHolds DEF Types
<1>5. Types'
  <2>1. pc' \in [Callers -> Places] /\ call' \in [Callers -> Call]
    BY <1>1 DEF Goto, Types
  <2>2. \A r \in Requests : Made(r)' <=> Made(r)
    BY DEF Kept, Made
  <2>3. QED
    BY <1>1, <2>1, <2>2 DEF Types
<1>6. NoMissedWakeup'
  BY DEF Inv, NoMissedWakeup, Kept, Live, Made
<1>7. QED
  BY <1>2, <1>3, <1>4, <1>5, <1>6 DEF Inv

-----------------------------------------------------------------------------
(* The owners.                                                             *)

LEMMA RequestLinesInv ==
    ASSUME Sensible, Inv, NEW t \in Owners, NEW lines \in Bundles, NEW output \in BOOLEAN,
           NEW given \in [lines -> Settings], request_lines(t, lines, given, output)
    PROVE  Inv'
<1>0. Types /\ HeldByTheLive /\ Calls /\ Closers /\ PipesApart /\ NoMissedWakeup
  BY DEF Inv
<1>1. t \in Callers /\ lines \in SUBSET Lines /\ lines # {}
  BY DEF Callers, Sensible
<1>2. PICK r \in Requests, fd \in Pipes :
        /\ ~Made(r) /\ pipes[fd] = None
        /\ pipes' = [pipes EXCEPT ![fd] = 0]
        /\ req' = [req EXCEPT ![r] = [Unmade EXCEPT !.lines = lines, !.pipe = fd,
                         !.settings = [l \in Lines |-> IF l \in lines THEN given[l] ELSE @[l]]]]
        /\ requested' = [l \in Lines |-> IF l \in lines THEN r ELSE requested[l]]
        /\ Goto(t, "apply", [NoCall EXCEPT !.request = r, !.todo = lines, !.given = given,
                                           !.output = output])
  BY DEF request_lines
<1> DEFINE made == [Unmade EXCEPT !.lines = lines, !.pipe = fd,
                      !.settings = [l \in Lines |-> IF l \in lines THEN given[l] ELSE @[l]]]
           c == [NoCall EXCEPT !.request = r, !.todo = lines, !.given = given, !.output = output]
<1>3. /\ made.lines = lines /\ made.pipe = fd /\ made.events = <<>> /\ ~made.released
      /\ made \in Request
  BY <1>1, UnmadeType DEF Unmade, Request
<1>4. /\ c.request = r /\ c.given = given
      /\ c \in Call
  BY <1>1, NoCallType DEF NoCall, Call, Given
<1>5. \A l \in lines : requested[l] = None
  BY DEF request_lines
<1> HIDE DEF made, c
<1>6. /\ req' = [req EXCEPT ![r] = made] /\ pc' = [pc EXCEPT ![t] = "apply"]
      /\ call' = [call EXCEPT ![t] = c] /\ pin' = pin
  BY <1>2 DEF made, c, Goto, request_lines
<1>7. \A q \in Requests : req'[q] = IF q = r THEN made ELSE req[q]
  BY <1>0, <1>6 DEF Types
<1>8. \A q \in Requests : /\ Made(q)' <=> q = r \/ Made(q)
                          /\ Live(q)' <=> q = r \/ Live(q)
  BY <1>1, <1>3, <1>7 DEF Made, Live
<1>9. ~Live(r) /\ \A u \in Callers : ~Closes(u, r)
  BY <1>0, <1>2 DEF Live, Calls, Doing, Closes, Places
<1>10. \A u \in Callers : /\ pc'[u] = IF u = t THEN "apply" ELSE pc[u]
                          /\ call'[u] = IF u = t THEN c ELSE call[u]
  BY <1>0, <1>1, <1>6 DEF Types
<1>11. \A u \in Callers, q \in Requests : Closes(u, q)' => Closes(u, q)
  BY <1>10 DEF Closes
<1>12. Types'
  <2>1. pc' \in [Callers -> Places] /\ call' \in [Callers -> Call] /\ req' \in [Requests -> Request]
    BY <1>0, <1>3, <1>4, <1>6 DEF Types, Places
  <2>2. requested' \in [Lines -> Requests \cup {None}] /\ pipes' \in [Pipes -> Nat \cup {None}]
    BY <1>0, <1>2 DEF Types
  <2>3. \A q \in Requests : /\ ~Made(q)' => req'[q] = Unmade
                            /\ Len(req'[q].events) <= BufferSize
    BY <1>0, <1>3, <1>7, <1>8 DEF Types, Sensible
  <2>4. QED
    BY <1>0, <1>6, <2>1, <2>2, <2>3 DEF Types
<1>13. HeldByTheLive'
  <2>1. \A l \in Lines : requested'[l] = IF l \in lines THEN r ELSE requested[l]
    BY <1>2
  <2>2. ASSUME NEW l \in Lines, NEW q \in Requests
        PROVE  requested'[l] = q <=> Live(q)' /\ l \in req'[q].lines
    <3>1. requested[l] = q <=> Live(q) /\ l \in req[q].lines
      BY <1>0 DEF HeldByTheLive
    <3>2. CASE q = r
      BY <1>3, <1>7, <1>8, <1>9, <2>1, <3>1, <3>2
    <3>3. CASE q # r
      BY <1>5, <1>7, <1>8, <2>1, <3>1, <3>3 DEF Sensible
    <3>4. QED
      BY <3>2, <3>3
  <2>3. QED
    BY <2>2 DEF HeldByTheLive
<1>14. Calls'
  <2>1. ASSUME NEW u \in Callers, NEW place, NEW d, place = pc'[u], d = call'[u]
        PROVE  Doing(u, place, d)'
    <3>1. CASE u = t
      <4>1. place = "apply" /\ d = c
        BY <1>10, <2>1, <3>1
      <4>2. d.request = r /\ Made(r)' /\ d.given \in [req'[r].lines -> Settings]
        BY <1>3, <1>4, <1>7, <1>8, <4>1
      <4>3. QED
        BY <4>1, <4>2 DEF Doing
    <3>2. CASE u # t
      <4>1. Doing(u, place, d) /\ place \in Places
        BY <1>0, <1>10, <2>1, <3>2 DEF Calls, Types
      <4>2. ASSUME place \in Places \ {"idle", "changed"}
            PROVE  d.request # r /\ d.request \in Requests
        BY <1>2, <4>1, <4>2 DEF Doing
      <4>3. ASSUME place \in Places \ {"idle", "changed"}
            PROVE  /\ req'[d.request] = req[d.request]
                   /\ Made(d.request)' <=> Made(d.request)
                   /\ Live(d.request)' <=> Live(d.request)
        BY <1>7, <1>8, <4>2, <4>3
      <4>4. QED
        BY <4>1, <4>2, <4>3 DEF Doing, Places
    <3>3. QED
      BY <3>1, <3>2
  <2>2. QED
    BY <2>1 DEF Calls
<1>15. Closers'
  BY <1>0, <1>11 DEF Closers
<1>16. \A q \in Requests : Open(q)' => q = r \/ Open(q)
  BY <1>8, <1>11 DEF Open
<1>17. \A p \in Pipes : pipes'[p] = IF p = fd THEN 0 ELSE pipes[p]
  BY <1>0, <1>2 DEF Types
<1>18. PipesApart'
  <2>1. \A q \in Requests : Open(q) => req[q].pipe # fd
    BY <1>0, <1>2 DEF PipesApart
  <2>2. 0 # None
    BY DEF Sensible
  <2>3. QED
    BY <1>0, <1>3, <1>7, <1>16, <1>17, <2>1, <2>2 DEF PipesApart
<1>19. NoMissedWakeup'
  <2>1. ASSUME NEW q \in Requests, Live(q)'
        PROVE  pipes'[req'[q].pipe] >= Len(req'[q].events)
    <3>1. CASE q = r
      BY <1>3, <1>7, <1>17, <3>1
    <3>2. CASE q # r
      <4>1. Live(q) /\ req'[q] = req[q] /\ req[q].pipe \in Pipes /\ req[q].pipe # fd
        BY <1>0, <1>2, <1>7, <1>8, <2>1, <3>2 DEF PipesApart, Open
      <4>2. QED
        BY <1>0, <1>17, <4>1 DEF NoMissedWakeup
    <3>3. QED
      BY <3>1, <3>2
  <2>2. QED
    BY <2>1 DEF NoMissedWakeup
<1>20. QED
  BY <1>12, <1>13, <1>14, <1>15, <1>18, <1>19 DEF Inv

LEMMA KeepsRequests ==
    ASSUME Inv, UNCHANGED req
    PROVE  /\ Kept /\ req' \in [Requests -> Request]
           /\ \A r \in Requests : ~Made(r) => req'[r] = req[r]
           /\ \A r \in Requests : req'[r].events = req[r].events
BY DEF Inv, Types, Kept

LEMMA ReconfigureInv ==
    ASSUME Sensible, Inv, NEW t \in Owners, NEW r \in Requests, NEW output \in BOOLEAN,
           NEW given \in [req[r].lines -> Settings], reconfigure_lines(t, r, given, output)
    PROVE  Inv'
<1> DEFINE c == [NoCall EXCEPT !.request = r, !.todo = req[r].lines, !.given = given,
                              !.output = output]
<1>1. req[r] \in Request /\ Made(r) /\ t \in Callers
  BY DEF reconfigure_lines, Inv, Types, Live, Callers
<1>2. c \in Call /\ c.request = r /\ c.given = given
  <2>1. req[r].lines \in SUBSET Lines
    BY <1>1 DEF Request
  <2>2. given \in Given
    BY <2>1 DEF Given
  <2>3. QED
    BY <2>1, <2>2, NoCallType DEF NoCall, Call
<1>3. Goto(t, "apply", c) /\ UNCHANGED <<requested, pin, req, pipes>>
  BY DEF reconfigure_lines
<1> HIDE DEF c
<1>4. Doing(t, "apply", c)
  BY <1>1, <1>2 DEF Doing
<1>5. pin' \in [Lines -> [function : {"input", "output", None}, level : {0, 1}]]
  BY <1>3 DEF Inv, Types
<1>6. QED
  BY <1>1, <1>2, <1>3, <1>4, <1>5, KeepsRequests, MovesOn DEF Places

LEMMA ApplyInv ==
    ASSUME Sensible, Inv, NEW t \in Owners, apply(t)
    PROVE  Inv'
<1>1. PICK l \in call[t].todo :
        /\ req' = [req EXCEPT ![call[t].request].configuring = TRUE]
        /\ pin' = [pin EXCEPT ![l] = [function |-> IF call[t].output THEN "output" ELSE "input",
                                      level |-> 0]]
        /\ Goto(t, "applied", [call[t] EXCEPT !.todo = @ \ {l}])
  BY DEF apply
<1> DEFINE r == call[t].request
           c == [call[t] EXCEPT !.todo = @ \ {l}]
           new == [req[r] EXCEPT !.configuring = TRUE]
<1>2. t \in Callers /\ call[t] \in Call /\ Doing(t, "apply", call[t])
  BY DEF Callers, Inv, Types, Calls, apply
<1>3. c \in Call /\ c.request = r /\ c.given = call[t].given
  BY <1>2 DEF Call
<1>4. r \in Requests /\ req[r] \in Request /\ Made(r)
  BY <1>2 DEF Doing, Places, Inv, Types
<1>5. /\ new \in Request /\ new.lines = req[r].lines /\ new.pipe = req[r].pipe
      /\ new.released = req[r].released /\ new.events = req[r].events
  BY <1>4 DEF Request
<1>6. req' = [req EXCEPT ![r] = new] /\ Goto(t, "applied", c)
  BY <1>1
<1>7. pin' \in [Lines -> [function : {"input", "output", None}, level : {0, 1}]]
  BY <1>1 DEF Inv, Types
<1>8. UNCHANGED <<requested, pipes>>
  BY DEF apply
<1> HIDE DEF new, c, r
<1>9. req' \in [Requests -> Request] /\ \A q \in Requests : req'[q] = IF q = r THEN new ELSE req[q]
  BY <1>5, <1>6 DEF Inv, Types
<1>10. /\ Kept
       /\ \A q \in Requests : ~Made(q) => req'[q] = req[q]
       /\ \A q \in Requests : req'[q].events = req[q].events
  BY <1>4, <1>5, <1>9 DEF Kept
<1>11. Doing(t, "applied", c)
  BY <1>2, <1>3 DEF Doing, r, Places
<1>12. QED
  BY <1>2, <1>3, <1>6, <1>7, <1>8, <1>9, <1>10, <1>11, MovesOn DEF Places

LEMMA AppliedInv ==
    ASSUME Sensible, Inv, NEW t \in Owners, applied(t)
    PROVE  Inv'
<1> DEFINE r == call[t].request
           left == call[t].todo
           given == call[t].given
           settings == [l \in Lines |-> IF l \in req[r].lines \ left THEN given[l]
                                        ELSE req[r].settings[l]]
           new == [req[r] EXCEPT !.configuring = FALSE, !.settings = settings]
<1>2. t \in Callers /\ call[t] \in Call /\ Doing(t, "applied", call[t])
  BY DEF Callers, Inv, Types, Calls, applied
<1>4. r \in Requests /\ req[r] \in Request /\ Made(r) /\ given \in [req[r].lines -> Settings]
  BY <1>2 DEF Doing, Places, Inv, Types
<1>5. /\ new \in Request /\ new.lines = req[r].lines /\ new.pipe = req[r].pipe
      /\ new.released = req[r].released /\ new.events = req[r].events
  <2>1. settings \in [Lines -> Settings \cup {Quiet}]
    BY <1>4 DEF Request
  <2> HIDE DEF settings
  <2>2. QED
    BY <1>4, <2>1 DEF Request
<1>6. req' = [req EXCEPT ![r] = new]
  <2>1. req' = [req EXCEPT ![r].configuring = FALSE,
                           ![r].settings = [l \in Lines |-> IF l \in req[r].lines \ left
                                                            THEN given[l] ELSE @[l]]]
    BY DEF applied
  <2>2. req \in [Requests -> Request]
    BY DEF Inv, Types
  <2>3. QED
    BY <1>4, <2>1, <2>2 DEF Request
<1>7. \/ Return(t)
      \/ Goto(t, "apply", call[t])
  BY DEF applied
<1>8. UNCHANGED <<requested, pin, pipes>>
  BY DEF applied
<1> HIDE DEF new, r, given, settings
<1>9. req' \in [Requests -> Request] /\ \A q \in Requests : req'[q] = IF q = r THEN new ELSE req[q]
  BY <1>5, <1>6 DEF Inv, Types
<1>10. /\ Kept
       /\ \A q \in Requests : ~Made(q) => req'[q] = req[q]
       /\ \A q \in Requests : req'[q].events = req[q].events
  BY <1>4, <1>5, <1>9 DEF Kept
<1>11. Doing(t, "apply", call[t]) /\ Doing(t, "idle", NoCall)
  BY <1>2 DEF Doing, Places
<1>12. pin' \in [Lines -> [function : {"input", "output", None}, level : {0, 1}]]
  BY <1>8 DEF Inv, Types
<1>13. CASE Return(t)
  BY <1>2, <1>8, <1>9, <1>10, <1>11, <1>12, <1>13, NoCallType, MovesOn DEF Places, Return
<1>14. CASE Goto(t, "apply", call[t])
  BY <1>2, <1>8, <1>9, <1>10, <1>11, <1>12, <1>14, MovesOn DEF Places
<1>15. QED
  BY <1>7, <1>13, <1>14

(* A step of which only the pins know. *)
LEMMA PinsOnly ==
    ASSUME Inv, UNCHANGED <<requested, req, pipes, pc, call>>,
           pin' \in [Lines -> [function : {"input", "output", None}, level : {0, 1}]]
    PROVE  Inv'
<1>1. \A r \in Requests : /\ Live(r)' <=> Live(r)
                          /\ Made(r)' <=> Made(r)
                          /\ Open(r)' <=> Open(r)
  BY DEF Live, Made, Open, Closes
<1>2. Types' /\ HeldByTheLive'
  BY DEF Inv, Types, HeldByTheLive, Live, Made
<1>3. Calls' /\ Closers'
  BY DEF Inv, Calls, Doing, Closers, Closes, Live, Made
<1>4. PipesApart' /\ NoMissedWakeup'
  BY <1>1 DEF Inv, PipesApart, NoMissedWakeup
<1>5. QED
  BY <1>2, <1>3, <1>4 DEF Inv

LEMMA SetValuesInv ==
    ASSUME Inv, NEW t \in Owners, NEW r \in Requests, NEW l \in Lines, set_values(t, r, l)
    PROVE  Inv'
<1>1. pin[l] \in [function : {"input", "output", None}, level : {0, 1}]
  BY DEF Inv, Types
<1>2. pin' = [pin EXCEPT ![l] = [pin[l] EXCEPT !.level = 1 - @]]
  BY DEF set_values
<1>3. pin' \in [Lines -> [function : {"input", "output", None}, level : {0, 1}]]
  BY <1>1, <1>2 DEF Inv, Types
<1>4. QED
  BY <1>3, PinsOnly DEF set_values

LEMMA ReleaseInv ==
    ASSUME Sensible, Inv, NEW t \in Owners, NEW r \in Requests, release(t, r)
    PROVE  Inv'
<1> DEFINE new == [req[r] EXCEPT !.released = TRUE]
           c   == [NoCall EXCEPT !.request = r]
<1>0. Types /\ HeldByTheLive /\ Calls /\ Closers /\ PipesApart /\ NoMissedWakeup
  BY DEF Inv
<1>1. t \in Callers /\ pc[t] = "idle" /\ Live(r) /\ req[r] \in Request
  BY <1>0 DEF Callers, release, Types
<1>2. /\ new \in Request /\ new.lines = req[r].lines /\ new.pipe = req[r].pipe
      /\ new.released /\ new.events = req[r].events
  BY <1>1 DEF Request
<1>3. c \in Call /\ c.request = r
  BY NoCallType DEF NoCall, Call
<1>4. /\ req' = [req EXCEPT ![r] = new] /\ Goto(t, "release", c) /\ UNCHANGED <<pin, pipes>>
      /\ requested' = [l \in Lines |-> IF requested[l] = r THEN None ELSE requested[l]]
  BY DEF release
<1>5. \A u \in Callers : pc[u] \in {"read", "select"} => call[u].request # r
  BY <1>0 DEF release, BusyWith, Calls, Doing
<1> HIDE DEF new, c
<1>6. req' \in [Requests -> Request] /\ \A q \in Requests : req'[q] = IF q = r THEN new ELSE req[q]
  BY <1>0, <1>2, <1>4 DEF Types
<1>7. \A u \in Callers : /\ pc'[u] = IF u = t THEN "release" ELSE pc[u]
                         /\ call'[u] = IF u = t THEN c ELSE call[u]
  BY <1>0, <1>4 DEF Goto, Types
<1>8. \A q \in Requests : /\ Made(q)' <=> Made(q)
                          /\ Live(q)' <=> Live(q) /\ q # r
                          /\ req'[q].lines = req[q].lines /\ req'[q].pipe = req[q].pipe
                          /\ req'[q].events = req[q].events
  BY <1>2, <1>6 DEF Made, Live
<1>9. \A u \in Callers : ~Closes(u, r)
  BY <1>0, <1>1 DEF Closes, Live, Calls, Doing
<1>10. Types'
  <2>1. pc' \in [Callers -> Places] /\ call' \in [Callers -> Call]
    BY <1>0, <1>3, <1>4 DEF Goto, Types, Places
  <2>2. requested' \in [Lines -> Requests \cup {None}]
    BY <1>0, <1>4 DEF Types
  <2>3. Made(r)
    BY <1>1 DEF Live
  <2>4. QED
    BY <1>0, <1>4, <1>6, <1>8, <2>1, <2>2, <2>3 DEF Types
<1>11. HeldByTheLive'
  <2>1. \A l \in Lines : requested'[l] = IF requested[l] = r THEN None ELSE requested[l]
    BY <1>4
  <2>2. QED
    BY <1>0, <1>8, <2>1 DEF HeldByTheLive, Sensible
<1>12. Calls'
  <2>1. ASSUME NEW u \in Callers, NEW place, NEW d, place = pc'[u], d = call'[u]
        PROVE  Doing(u, place, d)'
    <3>1. CASE u = t
      <4>1. place = "release" /\ d = c /\ Made(r)' /\ req'[r].released
        BY <1>1, <1>2, <1>6, <1>7, <1>8, <2>1, <3>1 DEF Live
      <4>2. QED
        BY <1>3, <4>1 DEF Doing
    <3>2. CASE u # t
      <4>1. Doing(u, place, d) /\ place \in Places /\ (place \in {"read", "select"} => d.request # r)
        BY <1>0, <1>5, <1>7, <2>1, <3>2 DEF Calls, Types
      <4>2. ASSUME place \in Places \ {"idle", "changed"}
            PROVE  /\ d.request \in Requests
                   /\ req'[d.request].lines = req[d.request].lines
                   /\ Made(d.request)' <=> Made(d.request)
                   /\ Live(d.request)' <=> Live(d.request) /\ d.request # r
                   /\ req[d.request].released => req'[d.request].released
        BY <1>2, <1>6, <1>8, <4>1, <4>2 DEF Doing
      <4>3. QED
        BY <4>1, <4>2 DEF Doing, Places
    <3>3. QED
      BY <3>1, <3>2
  <2>2. QED
    BY <2>1 DEF Calls
<1>13. \A u \in Callers, q \in Requests : Closes(u, q)' <=> Closes(u, q) \/ (u = t /\ q = r)
  BY <1>1, <1>3, <1>7 DEF Closes
<1>14. Closers'
  BY <1>0, <1>9, <1>13 DEF Closers
<1>15. \A q \in Requests : Open(q)' => Open(q)
  BY <1>1, <1>8, <1>13 DEF Open
<1>16. PipesApart'
  BY <1>0, <1>4, <1>8, <1>15 DEF PipesApart
<1>17. NoMissedWakeup'
  BY <1>0, <1>4, <1>8 DEF NoMissedWakeup
<1>18. QED
  BY <1>10, <1>11, <1>12, <1>14, <1>16, <1>17 DEF Inv

LEMMA ReleasePinsInv ==
    ASSUME Sensible, Inv, NEW t \in Owners, release_pins(t)
    PROVE  Inv'
<1>1. t \in Callers /\ call[t] \in Call /\ Doing(t, "release", call[t]) /\ pc[t] = "release"
  BY DEF Callers, release_pins, Inv, Calls, Types
<1>2. Goto(t, "close", call[t]) /\ UNCHANGED <<requested, req, pipes>>
  BY DEF release_pins
<1>3. Doing(t, "close", call[t]) /\ Closes(t, call[t].request)
  BY <1>1 DEF Doing, Closes, Places
<1>4. \A l \in Lines : /\ [pin[l] EXCEPT !.function = None]
                             \in [function : {"input", "output", None}, level : {0, 1}]
                       /\ pin[l] \in [function : {"input", "output", None}, level : {0, 1}]
  BY DEF Inv, Types
<1>5. pin' \in [Lines -> [function : {"input", "output", None}, level : {0, 1}]]
  BY <1>4 DEF release_pins
<1>6. QED
  BY <1>1, <1>2, <1>3, <1>5, KeepsRequests, MovesOn DEF Places

LEMMA CloseInv ==
    ASSUME Sensible, Inv, NEW t \in Owners, close(t)
    PROVE  Inv'
<1>0. Types /\ HeldByTheLive /\ Calls /\ Closers /\ PipesApart /\ NoMissedWakeup
  BY DEF Inv
<1>1. t \in Callers /\ pc[t] = "close" /\ Doing(t, "close", call[t])
  BY <1>0 DEF Callers, close, Calls
<1>2. PICK r \in Requests : r = call[t].request /\ req[r].released /\ Closes(t, r)
  BY <1>1 DEF Doing, Closes, Places
<1>3. ~Live(r) /\ Open(r) /\ req[r].pipe \in Pipes
  BY <1>0, <1>1, <1>2 DEF Live, Open, PipesApart
<1>4. /\ pipes' = [pipes EXCEPT ![req[r].pipe] = None] /\ Goto(t, "idle", NoCall)
      /\ UNCHANGED <<requested, pin, req>>
  BY <1>2 DEF close, Return
<1>5. Kept /\ \A q \in Requests : Live(q)' <=> Live(q)
  BY <1>4 DEF Kept, Live, Made
<1>6. Doing(t, "idle", NoCall)
  BY DEF Doing, Places
<1>7. Calls'
  BY <1>0, <1>1, <1>4, <1>5, <1>6, GotoCalls
<1>8. /\ Closers'
      /\ \A u \in Callers, q \in Requests : Closes(u, q)' => Closes(u, q)
  BY <1>0, <1>1, <1>4, <1>5, GotoClosers
<1>9. \A u \in Callers : ~Closes(u, r)'
  <2>1. ~Closes(t, r)'
    BY <1>0, <1>1, <1>4 DEF Closes, Goto, Types
  <2>2. QED
    BY <1>0, <1>1, <1>2, <1>8, <2>1 DEF Closers
<1>10. \A q \in Requests : Open(q)' => Open(q) /\ q # r
  BY <1>3, <1>5, <1>8, <1>9 DEF Open
<1>11. \A q \in Requests : Open(q)' => /\ req[q].pipe \in Pipes /\ req[q].pipe # req[r].pipe
                                      /\ pipes'[req[q].pipe] = pipes[req[q].pipe]
  BY <1>0, <1>2, <1>3, <1>4, <1>10 DEF PipesApart, Types
<1>12. Types'
  <2>1. pc' \in [Callers -> Places] /\ call' \in [Callers -> Call]
    BY <1>0, <1>4, NoCallType DEF Goto, Types, Places
  <2>2. pipes' \in [Pipes -> Nat \cup {None}]
    BY <1>0, <1>4 DEF Types
  <2>3. QED
    BY <1>0, <1>4, <2>1, <2>2 DEF Types, Made
<1>13. HeldByTheLive'
  BY <1>0, <1>4, <1>5 DEF HeldByTheLive
<1>14. PipesApart'
  BY <1>0, <1>4, <1>10, <1>11 DEF PipesApart
<1>15. NoMissedWakeup'
  BY <1>0, <1>4, <1>5, <1>11 DEF NoMissedWakeup, Open
<1>16. QED
  BY <1>7, <1>8, <1>12, <1>13, <1>14, <1>15 DEF Inv

-----------------------------------------------------------------------------
(* The drivers and the readers.                                            *)

LEMMA DriverMovesInv ==
    ASSUME Sensible, Inv, NEW t \in Drivers,
           (\E l \in Lines : change(t, l)) \/ on_change(t) \/ edge(t)
    PROVE  Inv'
<1>1. t \in Callers /\ call[t] \in Call /\ Doing(t, pc[t], call[t])
  BY DEF Callers, Inv, Types, Calls
<1>2. Doing(t, "idle", NoCall) /\ NoCall \in Call
  BY NoCallType DEF Doing, Places
<1>3. CASE on_change(t) \/ edge(t)
  <2>1. /\ UNCHANGED <<requested, pin, req, pipes>>
        /\ pin' \in [Lines -> [function : {"input", "output", None}, level : {0, 1}]]
    BY <1>3 DEF on_change, edge, Inv, Types
  <2>2. CASE Goto(t, "idle", NoCall)
    BY <1>1, <1>2, <2>1, <2>2, KeepsRequests, MovesOn DEF Places
  <2>3. CASE edge(t) /\ Goto(t, "queue", call[t])
    <3>1. Doing(t, "queue", call[t])
      BY <1>1, <2>3 DEF edge, Doing, Places
    <3>2. QED
      BY <1>1, <2>1, <2>3, <3>1, KeepsRequests, MovesOn DEF Places
  <2>4. ASSUME NEW l \in call[t].todo, requested[l] # None,
               Goto(t, "edge", [call[t] EXCEPT !.request = requested[l]])
        PROVE  Inv'
    <3> DEFINE c == [call[t] EXCEPT !.request = requested[l]]
    <3>1. l \in Lines /\ requested[l] \in Requests
      BY <1>1, <2>4 DEF Inv, Types, Call
    <3>2. Made(requested[l])
      BY <3>1 DEF Inv, HeldByTheLive, Live
    <3>3. c \in Call /\ c.request = requested[l]
      BY <1>1, <3>1 DEF Call
    <3>4. Goto(t, "edge", c)
      BY <2>4
    <3> HIDE DEF c
    <3>5. Doing(t, "edge", c)
      BY <3>1, <3>2, <3>3 DEF Doing
    <3>6. QED
      BY <1>1, <2>1, <3>3, <3>4, <3>5, KeepsRequests, MovesOn DEF Places
  <2>5. QED
    BY <1>3, <2>2, <2>3, <2>4 DEF on_change, edge, Return
<1>4. ASSUME NEW l \in Lines, change(t, l) PROVE Inv'
  <2> DEFINE c == [NoCall EXCEPT !.todo = {l}, !.level = 1 - pin[l].level]
  <2>1. pin[l] \in [function : {"input", "output", None}, level : {0, 1}]
    BY DEF Inv, Types
  <2>2. c \in Call
    <3>1. 1 - pin[l].level \in {0, 1}
      BY <2>1
    <3>2. QED
      BY <3>1, NoCallType DEF NoCall, Call
  <2>3. pin' = [pin EXCEPT ![l] = [pin[l] EXCEPT !.level = 1 - @]]
    BY <1>4 DEF change
  <2>4. pin' \in [Lines -> [function : {"input", "output", None}, level : {0, 1}]]
    BY <2>1, <2>3 DEF Inv, Types
  <2>5. Goto(t, "changed", c) /\ UNCHANGED <<requested, req, pipes>>
    BY <1>4 DEF change
  <2> HIDE DEF c
  <2>6. Doing(t, "changed", c)
    BY DEF Doing, Places
  <2>7. QED
    BY <1>1, <2>2, <2>4, <2>5, <2>6, KeepsRequests, MovesOn DEF Places
<1>5. QED
  BY <1>3, <1>4

LEMMA ReaderMovesInv ==
    ASSUME Sensible, Inv, NEW t \in Readers, NEW place \in {"read", "select"}, NEW c \in Call,
           Goto(t, place, c), UNCHANGED <<requested, pin, req, pipes>>,
           c.request \in Requests, Live(c.request)
    PROVE  Inv'
<1>1. t \in Callers /\ pin' \in [Lines -> [function : {"input", "output", None}, level : {0, 1}]]
  BY DEF Callers, Inv, Types
<1>2. Doing(t, place, c)
  BY DEF Doing, Live
<1>3. QED
  BY <1>1, <1>2, KeepsRequests, MovesOn DEF Places

(* A buffer and its pipe change, together or the pipe not at all; nobody   *)
(* else's pipe loses a byte.                                               *)
LEMMA BufferInv ==
    ASSUME Sensible, Inv, NEW t \in Callers, NEW r \in Requests, Made(r), Return(t),
           UNCHANGED <<requested, pin>>,
           NEW new \in Request, req' = [req EXCEPT ![r] = new],
           new.lines = req[r].lines, new.pipe = req[r].pipe, new.released = req[r].released,
           Len(new.events) <= BufferSize,
           pipes' \in [Pipes -> Nat \cup {None}],
           \A p \in Pipes : pipes[p] # None => pipes'[p] # None,
           \A q \in Requests : Live(q) /\ q # r => pipes'[req[q].pipe] >= pipes[req[q].pipe],
           Live(r) => pipes'[req[r].pipe] >= Len(new.events)
    PROVE  Inv'
<1>0. Types /\ HeldByTheLive /\ Calls /\ Closers /\ PipesApart /\ NoMissedWakeup
  BY DEF Inv
<1>1. req' \in [Requests -> Request] /\ \A q \in Requests : req'[q] = IF q = r THEN new ELSE req[q]
  BY <1>0 DEF Types
<1>2. Kept
  BY <1>1 DEF Kept
<1>3. \A q \in Requests : (Live(q)' <=> Live(q)) /\ (Made(q)' <=> Made(q))
  BY <1>2 DEF Kept, Live, Made
<1>4. Doing(t, "idle", NoCall) /\ Goto(t, "idle", NoCall)
  BY DEF Doing, Places, Return
<1>5. Calls'
  BY <1>0, <1>2, <1>4, GotoCalls
<1>6. /\ Closers'
      /\ \A u \in Callers, q \in Requests : Closes(u, q)' => Closes(u, q)
  BY <1>0, <1>2, <1>4, GotoClosers
<1>7. HeldByTheLive' /\ PipesApart'
  BY <1>2, <1>6, KeptHolds
<1>8. Types'
  <2>1. pc' \in [Callers -> Places] /\ call' \in [Callers -> Call]
    BY <1>0, <1>4, NoCallType DEF Goto, Types, Places
  <2>2. \A q \in Requests : /\ ~Made(q)' => req'[q] = Unmade
                            /\ Len(req'[q].events) <= BufferSize
    BY <1>0, <1>1, <1>3 DEF Types
  <2>3. QED
    BY <1>0, <1>1, <2>1, <2>2 DEF Types
<1>9. NoMissedWakeup'
  <2> SUFFICES ASSUME NEW q \in Requests, Live(q) PROVE pipes'[req'[q].pipe] >= Len(req'[q].events)
    BY <1>3 DEF NoMissedWakeup
  <2>1. CASE q = r
    BY <1>1, <2>1
  <2>2. CASE q # r
    <3>1. /\ pipes'[req[q].pipe] >= pipes[req[q].pipe] /\ pipes[req[q].pipe] >= Len(req[q].events)
          /\ req'[q] = req[q]
      BY <1>0, <1>1, <2>2 DEF NoMissedWakeup
    <3>2. /\ pipes'[req[q].pipe] \in Nat /\ pipes[req[q].pipe] \in Nat
          /\ Len(req[q].events) \in Nat
      BY <1>0 DEF PipesApart, Open, Types, Request
    <3>3. QED
      BY <3>1, <3>2
  <2>3. QED
    BY <2>1, <2>2
<1>10. QED
  BY <1>5, <1>6, <1>7, <1>8, <1>9 DEF Inv

LEMMA SubSeqType ==
    ASSUME NEW S, NEW q \in Seq(S), NEW n \in 1..Len(q)
    PROVE  SubSeq(q, n + 1, Len(q)) \in Seq(S) /\ Len(SubSeq(q, n + 1, Len(q))) = Len(q) - n
OBVIOUS

(* What enqueue does: it queues an event, with a byte, or loses it.        *)
LEMMA EnqueueStep ==
    ASSUME Sensible, Inv, NEW t \in Drivers, enqueue(t)
    PROVE  \/ UNCHANGED <<req, pipes>>
           \/ \E r \in Requests, l \in Lines :
                 LET new == [req[r] EXCEPT !.seqno[l] = @ + 1,
                                           !.events = Append(@, <<l, req[r].seqno[l] + 1>>)]
                 IN  /\ Made(r) /\ Len(req[r].events) < BufferSize
                     /\ req' = [req EXCEPT ![r] = new]
                     /\ pipes' = IF pipes[req[r].pipe] = None THEN pipes
                                 ELSE [pipes EXCEPT ![req[r].pipe] = @ + 1]
<1>1. t \in Callers /\ call[t] \in Call /\ Doing(t, "queue", call[t])
  BY DEF Callers, enqueue, Inv, Calls, Types
<1>2. PICK l \in call[t].todo : Queue(t, l)
  BY DEF enqueue
<1>3. PICK r \in Requests : r = call[t].request /\ Made(r)
  BY <1>1 DEF Doing, Places
<1>4. l \in Lines /\ req[r] \in Request /\ Len(req[r].events) \in Nat
  BY <1>1 DEF Call, Inv, Types, Request
<1>5. CASE Len(req[r].events) >= BufferSize
  BY <1>2, <1>3, <1>5 DEF Queue
<1>6. CASE ~(Len(req[r].events) >= BufferSize)
  <2>1. /\ req' = [req EXCEPT ![r].seqno[l] = @ + 1,
                              ![r].events = Append(@, <<l, req[r].seqno[l] + 1>>)]
        /\ pipes' = IF pipes[req[r].pipe] = None THEN pipes
                    ELSE [pipes EXCEPT ![req[r].pipe] = @ + 1]
    BY <1>2, <1>3, <1>6 DEF Queue, Queued
  <2>2. Len(req[r].events) < BufferSize
    BY <1>4, <1>6 DEF Sensible
  <2>3. req \in [Requests -> Request]
    BY DEF Inv, Types
  <2>4. req' = [req EXCEPT ![r] = [req[r] EXCEPT !.seqno[l] = @ + 1,
                                  !.events = Append(@, <<l, req[r].seqno[l] + 1>>)]]
    BY <2>1, <2>3 DEF Request
  <2>5. QED
    BY <1>3, <1>4, <2>1, <2>2, <2>4
<1>7. QED
  BY <1>5, <1>6

LEMMA EnqueueInv ==
    ASSUME Sensible, Inv, NEW t \in Drivers, enqueue(t)
    PROVE  Inv'
<1>0. t \in Callers /\ Return(t) /\ UNCHANGED <<requested, pin>>
  BY DEF Callers, enqueue
<1>1. CASE UNCHANGED <<req, pipes>>
  <2>1. Doing(t, "idle", NoCall) /\ Goto(t, "idle", NoCall)
    BY <1>0 DEF Doing, Places, Return
  <2>2. pin' \in [Lines -> [function : {"input", "output", None}, level : {0, 1}]]
    BY <1>0 DEF Inv, Types
  <2>3. QED
    BY <1>0, <1>1, <2>1, <2>2, NoCallType, KeepsRequests, MovesOn DEF Places
<1>2. ASSUME NEW r \in Requests, NEW l \in Lines, Made(r), Len(req[r].events) < BufferSize,
             req' = [req EXCEPT ![r] = [req[r] EXCEPT !.seqno[l] = @ + 1,
                                         !.events = Append(@, <<l, req[r].seqno[l] + 1>>)]],
             pipes' = IF pipes[req[r].pipe] = None THEN pipes
                      ELSE [pipes EXCEPT ![req[r].pipe] = @ + 1]
      PROVE  Inv'
  <2> DEFINE seqno == [req[r].seqno EXCEPT ![l] = @ + 1]
             events == Append(req[r].events, <<l, req[r].seqno[l] + 1>>)
             new == [req[r] EXCEPT !.seqno[l] = @ + 1, !.events = Append(@, <<l, req[r].seqno[l] + 1>>)]
  <2>1. req[r] \in Request /\ req[r].seqno \in [Lines -> Nat] /\ req[r].events \in Seq(Lines \X Nat)
    BY DEF Inv, Types, Request
  <2>2. seqno \in [Lines -> Nat] /\ <<l, req[r].seqno[l] + 1>> \in Lines \X Nat
    BY <2>1
  <2>3. /\ events \in Seq(Lines \X Nat) /\ Len(events) = Len(req[r].events) + 1
        /\ Len(req[r].events) \in Nat
    BY <2>1, <2>2
  <2>4. req' = [req EXCEPT ![r] = new]
    BY <1>2
  <2>5a. new = [req[r] EXCEPT !.seqno = seqno, !.events = events]
    BY <2>1 DEF Request
  <2> HIDE DEF seqno, events, new
  <2>5. /\ new \in Request /\ new.lines = req[r].lines /\ new.pipe = req[r].pipe
        /\ new.released = req[r].released /\ new.events = events
    BY <2>1, <2>2, <2>3, <2>5a DEF Request
  <2>6. Len(new.events) <= BufferSize
    BY <1>2, <2>3, <2>5 DEF Sensible
  <2>7. pipes \in [Pipes -> Nat \cup {None}]
    BY DEF Inv, Types
  <2>8. /\ pipes' \in [Pipes -> Nat \cup {None}]
        /\ \A p \in Pipes : pipes[p] # None => pipes'[p] # None /\ pipes'[p] >= pipes[p]
    <3>1. PICK fd : fd = req[r].pipe
      OBVIOUS
    <3>2. pipes' = IF pipes[fd] = None THEN pipes ELSE [pipes EXCEPT ![fd] = pipes[fd] + 1]
      BY <1>2, <3>1
    <3>3. CASE fd \in Pipes
      BY <2>7, <3>2, <3>3 DEF Sensible
    <3>4. CASE fd \notin Pipes
      <4>1. pipes' \in [Pipes -> Nat \cup {None}] /\ \A p \in Pipes : pipes'[p] = pipes[p]
        BY <2>7, <3>2, <3>4
      <4>2. \A p \in Pipes : pipes[p] # None => pipes[p] \in Nat
        BY <2>7
      <4>3. QED
        BY <4>1, <4>2
    <3>5. QED
      BY <3>3, <3>4
  <2>9. ASSUME NEW q \in Requests, Live(q) PROVE pipes'[req[q].pipe] >= pipes[req[q].pipe]
    BY <2>8, <2>9 DEF Inv, PipesApart, Open
  <2>10. ASSUME Live(r) PROVE pipes'[req[r].pipe] >= Len(new.events)
    <3>1. /\ req[r].pipe \in Pipes /\ pipes[req[r].pipe] # None
          /\ pipes[req[r].pipe] >= Len(req[r].events)
      BY <2>10 DEF Inv, PipesApart, Open, NoMissedWakeup
    <3>2. pipes'[req[r].pipe] = pipes[req[r].pipe] + 1 /\ pipes[req[r].pipe] \in Nat
      BY <1>2, <2>7, <3>1
    <3>3. Len(new.events) = Len(req[r].events) + 1 /\ Len(req[r].events) \in Nat
      BY <2>3, <2>5
    <3>4. \A m, k \in Nat : m >= k => m + 1 >= k + 1
      OBVIOUS
    <3>5. QED
      BY <3>1, <3>2, <3>3, <3>4
  <2>11. QED
    BY <1>0, <1>2, <2>4, <2>5, <2>6, <2>8, <2>9, <2>10, BufferInv, ZenonT(60)
<1>3. QED
  BY <1>1, <1>2, EnqueueStep

(* What a read that finds events does: it takes some, and their bytes.     *)
LEMMA ReadTakesInv ==
    ASSUME Sensible, Inv, NEW t \in Readers, NEW r \in Requests, Live(r), Return(t),
           NEW n \in 1..Len(req[r].events), UNCHANGED <<requested, pin>>,
           req' = [req EXCEPT ![r] = [req[r] EXCEPT !.events = SubSeq(@, n + 1, Len(@))]],
           pipes' = [pipes EXCEPT ![req[r].pipe] = IF @ > n THEN @ - n ELSE 0]
    PROVE  Inv'
<1> DEFINE events == SubSeq(req[r].events, n + 1, Len(req[r].events))
           new == [req[r] EXCEPT !.events = events]
<1>1. /\ req[r] \in Request /\ req[r].events \in Seq(Lines \X Nat)
      /\ Len(req[r].events) \in Nat /\ Len(req[r].events) <= BufferSize
  BY DEF Inv, Types, Request
<1>2. events \in Seq(Lines \X Nat) /\ Len(events) = Len(req[r].events) - n
  BY <1>1, SubSeqType
<1>3. req' = [req EXCEPT ![r] = new]
  OBVIOUS
<1> HIDE DEF events
<1>4. /\ new \in Request /\ new.lines = req[r].lines /\ new.pipe = req[r].pipe
      /\ new.released = req[r].released /\ new.events = events
  BY <1>1, <1>2 DEF Request
<1> HIDE DEF new
<1>5. Len(new.events) <= BufferSize
  BY <1>1, <1>2, <1>4 DEF Sensible
<1>6. pipes \in [Pipes -> Nat \cup {None}] /\ req[r].pipe \in Pipes /\ pipes[req[r].pipe] # None
  BY DEF Inv, Types, PipesApart, Open
<1>7. pipes[req[r].pipe] \in Nat /\ pipes[req[r].pipe] >= Len(req[r].events)
  BY <1>6 DEF Inv, NoMissedWakeup
<1>8. /\ pipes' \in [Pipes -> Nat \cup {None}] /\ pipes'[req[r].pipe] \in Nat
      /\ \A p \in Pipes \ {req[r].pipe} : pipes'[p] = pipes[p]
      /\ pipes'[req[r].pipe] >= Len(req[r].events) - n
  BY <1>1, <1>6, <1>7, SMTT(30)
<1>9. \A p \in Pipes : pipes[p] # None => pipes'[p] # None
  BY <1>8 DEF Sensible
<1>10. ASSUME NEW q \in Requests, Live(q), q # r PROVE pipes'[req[q].pipe] >= pipes[req[q].pipe]
  <2>1. /\ req[q].pipe \in Pipes \ {req[r].pipe} /\ pipes[req[q].pipe] # None
    BY <1>10 DEF Inv, PipesApart, Open
  <2>2. pipes'[req[q].pipe] = pipes[req[q].pipe] /\ pipes[req[q].pipe] \in Nat
    BY <1>6, <1>8, <2>1
  <2>3. QED
    BY <2>2
<1>11. t \in Callers /\ Made(r) /\ pipes'[req[r].pipe] >= Len(new.events)
  BY <1>2, <1>4, <1>8 DEF Callers, Live
<1>12. QED
  BY <1>3, <1>4, <1>5, <1>8, <1>9, <1>10, <1>11, BufferInv, ZenonT(60)

LEMMA ReaderInv ==
    ASSUME Sensible, Inv, NEW t \in Readers, Reader(t)
    PROVE  Inv'
<1>1. t \in Callers /\ call[t] \in Call /\ Doing(t, pc[t], call[t])
  BY DEF Callers, Inv, Types, Calls
<1>2. ASSUME NEW r \in Requests, read_edge_events(t, r) PROVE Inv'
  <2> DEFINE c == [NoCall EXCEPT !.request = r]
  <2>1. c \in Call /\ c.request = r
    BY NoCallType DEF NoCall, Call
  <2>2. Goto(t, "read", c) /\ UNCHANGED <<requested, pin, req, pipes>> /\ Live(r)
    BY <1>2 DEF read_edge_events
  <2> HIDE DEF c
  <2>3. QED
    BY <2>1, <2>2, ReaderMovesInv
<1>3. CASE read(t)
  <2>1. PICK r \in Requests : r = call[t].request /\ Live(r)
    BY <1>1, <1>3 DEF read, Doing, Places
  <2>2. ASSUME NEW n \in 1..Len(req[r].events),
               req' = [req EXCEPT ![r].events = SubSeq(@, n + 1, Len(@))],
               pipes' = [pipes EXCEPT ![req[r].pipe] = IF @ > n THEN @ - n ELSE 0],
               Return(t)
        PROVE  Inv'
    BY <1>3, <2>1, <2>2, ReadTakesInv DEF read
  <2>3. ASSUME Goto(t, "select", call[t]), UNCHANGED <<req, pipes>> PROVE Inv'
    BY <1>1, <1>3, <2>1, <2>3, ReaderMovesInv DEF read
  <2>4. QED
    BY <1>3, <2>1, <2>2, <2>3 DEF read
<1>4. CASE wakes(t)
  <2>1. call[t].request \in Requests /\ Live(call[t].request)
    BY <1>1, <1>4 DEF wakes, Doing, Places
  <2>2. QED
    BY <1>1, <1>4, <2>1, ReaderMovesInv DEF wakes
<1>5. QED
  BY <1>2, <1>3, <1>4 DEF Reader

LEMMA NextInv == ASSUME Sensible, Inv, [Next]_vars PROVE Inv'
<1>1. ASSUME NEW t \in Owners, Owner(t) PROVE Inv'
  BY <1>1, RequestLinesInv, ReconfigureInv, ApplyInv, AppliedInv, SetValuesInv, ReleaseInv,
     ReleasePinsInv, CloseInv DEF Owner
<1>2. ASSUME NEW t \in Readers, Reader(t) PROVE Inv'
  BY <1>2, ReaderInv
<1>3. ASSUME NEW t \in Drivers, Driver(t) PROVE Inv'
  BY <1>3, DriverMovesInv, EnqueueInv DEF Driver
<1>4. CASE UNCHANGED vars
  BY <1>4, PinsOnly DEF vars, Inv, Types
<1>5. QED
  BY <1>1, <1>2, <1>3, <1>4 DEF Next

-----------------------------------------------------------------------------
(* Only a request that was made ever holds events. *)
THEOREM RequestsTypeCorrect == ASSUME Sensible PROVE Spec => []TypeOK
<1>1. Init => Inv
  BY InitInv
<1>2. Inv /\ [Next]_vars => Inv'
  BY NextInv
<1>3. Inv => TypeOK
  BY DEF Inv, Types, TypeOK, Unmade
<1>4. QED
  BY <1>1, <1>2, <1>3, PTL DEF Spec

(* gpiod_stub: a line is held by the one live request that was made with   *)
(* it, for any number of owners, lines and requests, in whatever order     *)
(* they are made and released: the v2 conjunct of the run's OneHolder.     *)
THEOREM LinesHeldByTheLive == ASSUME Sensible PROVE Spec => []HeldByTheLive
<1>1. Init => Inv
  BY InitInv
<1>2. Inv /\ [Next]_vars => Inv'
  BY NextInv
<1>3. Inv => HeldByTheLive
  BY DEF Inv
<1>4. QED
  BY <1>1, <1>2, <1>3, PTL DEF Spec

(* gpiod_stub: an event that is queued can be waited for, whoever reads,   *)
(* however late the edges of a released request write to a pipe that is    *)
(* another one's by then: the v2 conjunct of the run's EventsWakeReaders.  *)
THEOREM EventsAreSignalled == ASSUME Sensible PROVE Spec => []NoMissedWakeup
<1>1. Init => Inv
  BY InitInv
<1>2. Inv /\ [Next]_vars => Inv'
  BY NextInv
<1>3. Inv => NoMissedWakeup
  BY DEF Inv
<1>4. QED
  BY <1>1, <1>2, <1>3, PTL DEF Spec

-----------------------------------------------------------------------------
(* Each request's buffer is an EventQueue.                                 *)

LEMMA EnqueuePuts ==
    ASSUME Sensible, Inv, NEW t \in Drivers, enqueue(t)
    PROVE  [Buffer!Next]_Buffer!vars
<1> DEFINE queue == [r \in Requests |-> req[r].events]
           given == [r \in Requests |-> req[r].seqno]
<1>1. CASE UNCHANGED <<req, pipes>>
  BY <1>1 DEF Buffer!vars
<1>2. ASSUME NEW r \in Requests, NEW l \in Lines, Len(req[r].events) < BufferSize,
             req' = [req EXCEPT ![r] = [req[r] EXCEPT !.seqno[l] = @ + 1,
                                         !.events = Append(@, <<l, req[r].seqno[l] + 1>>)]]
      PROVE  Buffer!Next
  <2> DEFINE new == [req[r] EXCEPT !.seqno[l] = @ + 1, !.events = Append(@, <<l, req[r].seqno[l] + 1>>)]
  <2>1. req \in [Requests -> Request] /\ req[r] \in Request
    BY DEF Inv, Types
  <2>2. /\ new.seqno = [req[r].seqno EXCEPT ![l] = @ + 1]
        /\ new.events = Append(req[r].events, <<l, req[r].seqno[l] + 1>>)
    BY <2>1 DEF Request
  <2> HIDE DEF new
  <2>3. \A q \in Requests : req'[q] = IF q = r THEN new ELSE req[q]
    BY <1>2, <2>1 DEF new
  <2>4. queue' = [queue EXCEPT ![r] = Append(@, <<l, given[r][l] + 1>>)]
    BY <2>2, <2>3
  <2>5. given' = [given EXCEPT ![r][l] = @ + 1]
    BY <2>2, <2>3
  <2>6. Buffer!Put(r, l)
    BY <1>2, <2>4, <2>5 DEF Buffer!Put
  <2>7. QED
    BY <2>6 DEF Buffer!Next
<1>3. QED
  BY <1>1, <1>2, EnqueueStep

LEMMA ReadTakes ==
    ASSUME Sensible, Inv, NEW t \in Readers, read(t)
    PROVE  [Buffer!Next]_Buffer!vars
<1> DEFINE queue == [r \in Requests |-> req[r].events]
           given == [r \in Requests |-> req[r].seqno]
<1>1. Doing(t, "read", call[t])
  BY DEF Callers, read, Inv, Calls
<1>2. PICK r \in Requests : r = call[t].request
  BY <1>1 DEF Doing, Places
<1>3. req \in [Requests -> Request] /\ req[r] \in Request /\ Len(req[r].events) <= BufferSize
  BY DEF Inv, Types
<1>4. CASE UNCHANGED req
  BY <1>4 DEF Buffer!vars
<1>5. ASSUME NEW n \in 1..Len(req[r].events),
             req' = [req EXCEPT ![r].events = SubSeq(@, n + 1, Len(@))]
      PROVE  Buffer!Next
  <2>1. \A q \in Requests :
          /\ req'[q].events = IF q = r THEN SubSeq(req[r].events, n + 1, Len(req[r].events))
                              ELSE req[q].events
          /\ req'[q].seqno = req[q].seqno
    BY <1>3, <1>5 DEF Request
  <2>2. queue' = [queue EXCEPT ![r] = SubSeq(@, n + 1, Len(@))] /\ given' = given
    BY <2>1
  <2>3. n <= Len(queue[r]) /\ n \in 1..BufferSize
    BY <1>3 DEF Sensible, Request
  <2>4. Buffer!Take(r, n)
    BY <2>2, <2>3 DEF Buffer!Take
  <2>5. QED
    BY <2>3, <2>4 DEF Buffer!Next
<1>6. QED
  BY <1>2, <1>4, <1>5 DEF read

(* Every other step leaves the buffers and the numbers of events alone.    *)
LEMMA OthersStutter ==
    ASSUME Inv, NEW t \in Owners, Owner(t)
    PROVE  UNCHANGED Buffer!vars
<1>1. req \in [Requests -> Request]
  BY DEF Inv, Types
<1>2. SUFFICES \A r \in Requests : req'[r].events = req[r].events /\ req'[r].seqno = req[r].seqno
  BY DEF Buffer!vars
<1>3. ASSUME NEW lines \in Bundles, NEW output \in BOOLEAN, NEW given \in [lines -> Settings],
             request_lines(t, lines, given, output)
      PROVE  \A r \in Requests : req'[r].events = req[r].events /\ req'[r].seqno = req[r].seqno
  <2>1. PICK r \in Requests, fd \in Pipes :
          /\ ~Made(r)
          /\ req' = [req EXCEPT ![r] = [Unmade EXCEPT !.lines = lines, !.pipe = fd,
                         !.settings = [l \in Lines |-> IF l \in lines THEN given[l] ELSE @[l]]]]
    BY <1>3 DEF request_lines
  <2>2. req[r] = Unmade
    BY <2>1 DEF Inv, Types
  <2>3. QED
    BY <1>1, <2>1, <2>2 DEF Unmade
<1>4. CASE apply(t)
  BY <1>1, <1>4 DEF apply, Request
<1>5. CASE applied(t)
  BY <1>1, <1>5 DEF applied, Request
<1>6. ASSUME NEW r \in Requests, release(t, r)
      PROVE  \A q \in Requests : req'[q].events = req[q].events /\ req'[q].seqno = req[q].seqno
  BY <1>1, <1>6 DEF release, Request
<1>7. ASSUME \/ \E r \in Requests, output \in BOOLEAN :
                  \E given \in [req[r].lines -> Settings] : reconfigure_lines(t, r, given, output)
             \/ \E r \in Requests : \E l \in Lines : set_values(t, r, l)
             \/ release_pins(t) \/ close(t)
      PROVE  UNCHANGED req
  BY <1>7 DEF reconfigure_lines, set_values, release_pins, close
<1>8. QED
  BY <1>3, <1>4, <1>5, <1>6, <1>7 DEF Owner

(* gpiod_stub: the events of each request are numbered, handed over once   *)
(* and in order, and lost only by a full buffer: the v2 conjunct of the    *)
(* run's BuffersEvents.                                                    *)
THEOREM RequestsBufferEvents == ASSUME Sensible PROVE Spec => BuffersEvents
<1>1. Init => Inv
  BY InitInv
<1>2. Inv /\ [Next]_vars => Inv'
  BY NextInv
<1>3. Init => Buffer!Init
  BY DEF Init, Buffer!Init, Unmade
<1>4. Inv /\ [Next]_vars => [Buffer!Next]_Buffer!vars
  <2> SUFFICES ASSUME Inv, [Next]_vars PROVE [Buffer!Next]_Buffer!vars
    OBVIOUS
  <2>1. ASSUME UNCHANGED req PROVE UNCHANGED Buffer!vars
    BY <2>1 DEF Buffer!vars
  <2>2. ASSUME NEW t \in Owners, Owner(t) PROVE UNCHANGED Buffer!vars
    BY <2>2, OthersStutter
  <2>3. ASSUME NEW t \in Readers, Reader(t) PROVE [Buffer!Next]_Buffer!vars
    BY <2>1, <2>3, ReadTakes DEF Reader, read_edge_events, wakes
  <2>4. ASSUME NEW t \in Drivers, Driver(t) PROVE [Buffer!Next]_Buffer!vars
    BY <2>1, <2>4, EnqueuePuts DEF Driver, change, on_change, edge
  <2>5. QED
    BY <2>1, <2>2, <2>3, <2>4 DEF Next, vars
<1>5. QED
  BY <1>1, <1>2, <1>3, <1>4, PTL DEF Spec, BuffersEvents, Buffer!Spec
-----------------------------------------------------------------------------
(* gpiod v1, over the same pins and descriptors, and with the same threads. *)
CONSTANTS Bulks, Kinds, EventBuffer
VARIABLES held, state, given, stranded

V1 == INSTANCE Gpiod1

SensibleV1 ==
    /\ Bulks \subseteq SUBSET Lines /\ Kinds \subseteq V1!AllKinds /\ EventBuffer \in Nat
    /\ None \notin Owners /\ None \notin Pipes /\ None \notin Nat

LineState == [type : V1!AllKinds \cup {"none"}, events : Seq(Lines \X Nat), pipe : Pipes \cup {None}]

(* The pipes that a release has still to close are descriptors; between    *)
(* the two steps of a configuration they name its line.                    *)
LineCall == [owner : Owners \cup {None}, todo : SUBSET Lines, kind : V1!AllKinds,
             pipes : SUBSET (Pipes \cup Lines)]

TypesV1 ==
    /\ held \in [Lines -> Owners \cup {None}]
    /\ pin \in [Lines -> [function : {"input", "output", None}, level : {0, 1}]]
    /\ state \in [Owners -> [Lines -> LineState]]
    /\ pipes \in [Pipes -> Nat \cup {None}]
    /\ given \in [Owners -> [Lines -> Nat]]
    /\ pc \in [Callers -> V1!Places]
    /\ call \in [Callers -> LineCall]

(* What the state of a line says, whoever is at it. *)
LinesInOrder == \A o \in Owners, l \in Lines :
    /\ state[o][l].type # "none" => held[l] = o
    /\ state[o][l].type = "none" => state[o][l].events = <<>>
    /\ state[o][l].type \in V1!EventKinds => state[o][l].pipe # None
    /\ Len(state[o][l].events) <= EventBuffer

(* A line that a request has still to configure is the request's. *)
Configuring == \A o \in Owners :
    /\ pc[o] \in {"configure", "typed"} => \A l \in call[o].todo :
        /\ held[l] = o /\ state[o][l].type \notin V1!EventKinds
        /\ call[o].kind \in V1!EventKinds => state[o][l].pipe # None
    /\ pc[o] = "typed" => \E l \in call[o].todo : call[o].pipes = {l}

(* A line that is read from keeps its events until the reader is done. *)
Reading == \A t \in Readers :
    pc[t] \in {"read", "select"} => \E o \in Owners, l \in Lines :
        call[t].owner = o /\ call[t].todo = {l} /\ state[o][l].type \in V1!EventKinds

(* A line's pipe is open and its own, and so are those to be closed. *)
Closing(o) == pc[o] \in {"release", "close"}

OwnPipes ==
    /\ \A o, p \in Owners, l, m \in Lines :
        state[o][l].pipe # None /\ state[p][m].pipe = state[o][l].pipe => o = p /\ l = m
    /\ \A o, c \in Owners, l \in Lines :
        Closing(c) /\ state[o][l].pipe # None => state[o][l].pipe \notin call[c].pipes
    /\ \A c \in Owners : Closing(c) => \A fd \in call[c].pipes : fd \in Pipes /\ pipes[fd] # None
    /\ \A c, d \in Owners : Closing(c) /\ Closing(d) /\ c # d => call[c].pipes \cap call[d].pipes = {}

InvV1 == TypesV1 /\ LinesInOrder /\ Configuring /\ Reading /\ OwnPipes /\ V1!FdSignalsEvents

LEMMA PlacesV1 == Owners \subseteq Callers /\ Readers \subseteq Callers /\ Drivers \subseteq Callers
BY DEF Callers

LEMMA NoCallV1 == V1!NoCall \in LineCall
BY DEF V1!NoCall, LineCall, V1!AllKinds

LEMMA InitV1 == ASSUME SensibleV1, V1!Init PROVE InvV1
<1>1. V1!Unrequested \in LineState
  BY DEF V1!Unrequested, LineState
<1>2. TypesV1
  BY <1>1, NoCallV1 DEF V1!Init, TypesV1, V1!Places, V1!Callers, Callers
<1>3. \A o \in Owners, l \in Lines : state[o][l] = V1!Unrequested
  BY DEF V1!Init
<1>4. \A t \in Callers : pc[t] = "idle"
  BY DEF V1!Init, V1!Callers, Callers
<1>5. LinesInOrder /\ V1!FdSignalsEvents /\ Configuring /\ Reading /\ OwnPipes
  BY <1>3, <1>4, PlacesV1 DEF V1!Unrequested, V1!EventKinds, LinesInOrder, V1!FdSignalsEvents,
     Configuring, Reading, OwnPipes, Closing, SensibleV1
<1>6. QED
  BY <1>2, <1>5 DEF InvV1

-----------------------------------------------------------------------------
(* A thread goes on; the others stay where they are. *)
LEMMA GotoV1 ==
    ASSUME TypesV1, NEW t \in Callers, NEW place \in V1!Places, NEW c \in LineCall, V1!Goto(t, place, c)
    PROVE  /\ pc' \in [Callers -> V1!Places] /\ call' \in [Callers -> LineCall]
           /\ pc'[t] = place /\ call'[t] = c
           /\ \A u \in Callers : u # t => pc'[u] = pc[u] /\ call'[u] = call[u]
BY DEF TypesV1, V1!Goto

Working == {"configure", "typed", "release", "close"}

(* A step of a thread that holds no lines and closes no pipes, with the    *)
(* lines' states and pipes left alone.                                     *)
LEMMA ElsewhereV1 ==
    ASSUME InvV1, UNCHANGED <<held, state, pipes, given>>,
           pin' \in [Lines -> [function : {"input", "output", None}, level : {0, 1}]],
           NEW t \in Callers, NEW place \in V1!Places, NEW c \in LineCall, V1!Goto(t, place, c),
           pc[t] \notin Working, place \notin Working,
           t \in Readers /\ place \in {"read", "select"} => \E o \in Owners, l \in Lines :
               c.owner = o /\ c.todo = {l} /\ state[o][l].type \in V1!EventKinds
    PROVE  InvV1'
<1>1. TypesV1'
  BY GotoV1 DEF InvV1, TypesV1
<1>2. LinesInOrder' /\ V1!FdSignalsEvents'
  BY DEF InvV1, LinesInOrder, V1!FdSignalsEvents
<1>3. \A o \in Owners : \/ pc'[o] = pc[o] /\ call'[o] = call[o]
                        \/ pc[o] \notin Working /\ pc'[o] \notin Working
  BY GotoV1, PlacesV1 DEF InvV1
<1>4. Configuring'
  BY <1>3 DEF InvV1, Configuring, Working
<1>5. OwnPipes'
  BY <1>3 DEF InvV1, OwnPipes, Closing, Working
<1>6. Reading'
  BY GotoV1, PlacesV1 DEF InvV1, Reading
<1>7. QED
  BY <1>1, <1>2, <1>4, <1>5, <1>6 DEF InvV1

(* No pipe opens or closes, and no line gets one. *)
LEMMA KeptPipesV1 ==
    ASSUME OwnPipes,
           \A p \in Owners, m \in Lines : state'[p][m].pipe = state[p][m].pipe,
           \A c \in Owners : Closing(c)' => Closing(c) /\ call'[c] = call[c],
           \A p \in Pipes : pipes[p] # None => pipes'[p] # None
    PROVE  OwnPipes'
<1>1. ASSUME NEW a \in Owners, NEW p \in Owners, NEW l \in Lines, NEW m \in Lines,
             state'[a][l].pipe # None, state'[p][m].pipe = state'[a][l].pipe
      PROVE  a = p /\ l = m
  <2>1. state[a][l].pipe # None /\ state[p][m].pipe = state[a][l].pipe
    BY <1>1
  <2>2. QED
    BY <2>1 DEF OwnPipes
<1>2. ASSUME NEW a \in Owners, NEW c \in Owners, NEW l \in Lines, Closing(c)', state'[a][l].pipe # None
      PROVE  state'[a][l].pipe \notin call'[c].pipes
  <2>1. Closing(c) /\ call'[c] = call[c] /\ state'[a][l].pipe = state[a][l].pipe
    BY <1>2
  <2>2. QED
    BY <1>2, <2>1 DEF OwnPipes
<1>3. ASSUME NEW c \in Owners, Closing(c)', NEW fd \in call'[c].pipes
      PROVE  fd \in Pipes /\ pipes'[fd] # None
  <2>1. Closing(c) /\ call'[c] = call[c]
    BY <1>3
  <2>2. QED
    BY <1>3, <2>1 DEF OwnPipes
<1>4. ASSUME NEW c \in Owners, NEW d \in Owners, Closing(c)', Closing(d)', c # d
      PROVE  call'[c].pipes \cap call'[d].pipes = {}
  <2>1. Closing(c) /\ Closing(d) /\ call'[c] = call[c] /\ call'[d] = call[d]
    BY <1>4
  <2>2. QED
    BY <1>4, <2>1 DEF OwnPipes
<1>5. QED
  BY <1>1, <1>2, <1>3, <1>4 DEF OwnPipes

(* The state of one line becomes another. *)
LEMMA LineBecomes ==
    ASSUME TypesV1, NEW o \in Owners, NEW l \in Lines, NEW new \in LineState,
           state' = [state EXCEPT ![o] = [state[o] EXCEPT ![l] = new]]
    PROVE  /\ state' \in [Owners -> [Lines -> LineState]] /\ state'[o][l] = new
           /\ \A p \in Owners, m \in Lines : p # o \/ m # l => state'[p][m] = state[p][m]
BY DEF TypesV1

LEMMA TypeBecomes ==
    ASSUME TypesV1, NEW o \in Owners, NEW l \in Lines, NEW kind \in V1!AllKinds,
           state' = [state EXCEPT ![o][l].type = kind]
    PROVE  /\ state' \in [Owners -> [Lines -> LineState]] /\ state'[o][l].type = kind
           /\ \A p \in Owners, m \in Lines :
                /\ state'[p][m].pipe = state[p][m].pipe /\ state'[p][m].events = state[p][m].events
                /\ p # o \/ m # l => state'[p][m] = state[p][m]
<1> DEFINE new == [state[o][l] EXCEPT !.type = kind]
<1>1. state[o][l] \in LineState
  BY DEF TypesV1
<1>2. /\ new \in LineState /\ new.type = kind /\ new.pipe = state[o][l].pipe
      /\ new.events = state[o][l].events
  BY <1>1 DEF LineState
<1>3. state' = [state EXCEPT ![o] = [state[o] EXCEPT ![l] = new]]
  OBVIOUS
<1> HIDE DEF new
<1>4. /\ state' \in [Owners -> [Lines -> LineState]] /\ state'[o][l] = new
      /\ \A p \in Owners, m \in Lines : p # o \/ m # l => state'[p][m] = state[p][m]
  <2>1. new \in LineState /\ TypesV1
    BY <1>2
  <2>2. state' \in [Owners -> [Lines -> LineState]]
    BY <1>3, <2>1, LineBecomes
  <2>3. state'[o][l] = new
    BY <1>3, <2>1 DEF TypesV1
  <2>4. \A p \in Owners, m \in Lines : p # o \/ m # l => state'[p][m] = state[p][m]
    BY <1>3, <2>1, LineBecomes
  <2>5. QED
    BY <2>2, <2>3, <2>4
<1>5. QED
  BY <1>2, <1>4

(* A line gets another type, in a request or on its own. *)
LEMMA KindV1 ==
    ASSUME SensibleV1, InvV1, NEW o \in Owners, NEW l \in Lines, NEW kind \in V1!AllKinds,
           state' = [state EXCEPT ![o][l].type = kind],
           held[l] = o, state[o][l].type \notin V1!EventKinds,
           kind \in V1!EventKinds => state[o][l].pipe # None,
           UNCHANGED <<held, pipes, given>>,
           pin' \in [Lines -> [function : {"input", "output", None}, level : {0, 1}]],
           pc' \in [Callers -> V1!Places], call' \in [Callers -> LineCall],
           \A u \in Callers : u # o => pc'[u] = pc[u] /\ call'[u] = call[u],
           pc'[o] \in {"idle", "configure", "typed"},
           pc'[o] \in {"configure", "typed"} => \A m \in call'[o].todo :
              /\ held[m] = o
              /\ m # l => state[o][m].type \notin V1!EventKinds
              /\ m = l => kind \notin V1!EventKinds
              /\ call'[o].kind \in V1!EventKinds => state[o][m].pipe # None,
           pc'[o] = "typed" => \E m \in call'[o].todo : call'[o].pipes = {m}
    PROVE  InvV1'
<1>1. TypesV1 /\ call' \in [Callers -> LineCall] /\ kind # "none"
  BY DEF InvV1, V1!AllKinds, V1!EventKinds
<1>2. state' \in [Owners -> [Lines -> LineState]] /\ state'[o][l].type = kind
  <2>1. state' \in [Owners -> [Lines -> LineState]]
    BY <1>1, TypeBecomes
  <2>2. state'[o][l].type = kind
    BY <1>1, TypeBecomes DEF TypesV1
  <2>3. QED
    BY <2>1, <2>2
<1>4. \A p \in Owners, m \in Lines : p # o \/ m # l => state'[p][m] = state[p][m]
  BY <1>1, TypeBecomes
<1>5. \A p \in Owners, m \in Lines : /\ state'[p][m].pipe = state[p][m].pipe
                                    /\ state'[p][m].events = state[p][m].events
  BY <1>1, TypeBecomes
<1>6. TypesV1'
  BY <1>2 DEF InvV1, TypesV1
<1>7. LinesInOrder'
  BY <1>1, <1>2, <1>4, <1>5 DEF InvV1, LinesInOrder
<1>8. V1!FdSignalsEvents'
  BY <1>5 DEF InvV1, V1!FdSignalsEvents
<1>9. Configuring'
  <2>1. ASSUME NEW p \in Owners, p # o, pc'[p] \in {"configure", "typed"}
        PROVE  /\ \A m \in call'[p].todo :
                    /\ held'[m] = p /\ state'[p][m].type \notin V1!EventKinds
                    /\ call'[p].kind \in V1!EventKinds => state'[p][m].pipe # None
               /\ pc'[p] = "typed" => \E m \in call'[p].todo : call'[p].pipes = {m}
    <3>1. pc'[p] = pc[p] /\ call'[p] = call[p] /\ call[p].todo \subseteq Lines
      BY <2>1, PlacesV1 DEF InvV1, TypesV1, LineCall
    <3>2. /\ \A m \in call[p].todo :
               /\ held[m] = p /\ state[p][m].type \notin V1!EventKinds
               /\ call[p].kind \in V1!EventKinds => state[p][m].pipe # None
          /\ pc[p] = "typed" => \E m \in call[p].todo : call[p].pipes = {m}
      BY <2>1, <3>1 DEF InvV1, Configuring
    <3>3. \A m \in call[p].todo : state'[p][m] = state[p][m]
      BY <1>4, <2>1, <3>1
    <3>4. QED
      BY <3>1, <3>2, <3>3
  <2>2. call'[o].todo \subseteq Lines
    BY <1>1, PlacesV1 DEF LineCall
  <2>3. pc'[o] \in {"configure", "typed"} => \A m \in call'[o].todo :
          /\ held'[m] = o /\ state'[o][m].type \notin V1!EventKinds
          /\ call'[o].kind \in V1!EventKinds => state'[o][m].pipe # None
    BY <1>2, <1>4, <1>5, <2>2
  <2>4. QED
    BY <2>1, <2>3 DEF Configuring
<1>10. Reading'
  <2>1. ASSUME NEW t \in Readers, pc'[t] \in {"read", "select"}
        PROVE  \E p \in Owners, m \in Lines :
                  call'[t].owner = p /\ call'[t].todo = {m} /\ state'[p][m].type \in V1!EventKinds
    <3>1. pc[t] \in {"read", "select"} /\ call'[t] = call[t]
      BY <2>1, PlacesV1
    <3>2. PICK p \in Owners, m \in Lines :
             call[t].owner = p /\ call[t].todo = {m} /\ state[p][m].type \in V1!EventKinds
      BY <3>1 DEF InvV1, Reading
    <3>3. state'[p][m] = state[p][m]
      BY <1>4, <3>2
    <3>4. QED
      BY <3>1, <3>2, <3>3
  <2>2. QED
    BY <2>1 DEF Reading
<1>11. OwnPipes'
  <2>1. \A c \in Owners : Closing(c)' => Closing(c) /\ call'[c] = call[c]
    BY PlacesV1 DEF Closing
  <2>2. OwnPipes /\ UNCHANGED pipes
    BY DEF InvV1
  <2>3. QED
    BY <1>5, <2>1, <2>2, KeptPipesV1
<1>12. QED
  BY <1>6, <1>7, <1>8, <1>9, <1>10, <1>11 DEF InvV1

LEMMA ConfiguredType ==
    ASSUME TypesV1, NEW l \in Lines, NEW kind
    PROVE  /\ V1!Configured(l, kind) \in [function : {"input", "output", None}, level : {0, 1}]
           /\ [pin EXCEPT ![l] = V1!Configured(l, kind)]
                 \in [Lines -> [function : {"input", "output", None}, level : {0, 1}]]
<1>1. pin[l] \in [function : {"input", "output", None}, level : {0, 1}]
  BY DEF TypesV1
<1>2. V1!Configured(l, kind) \in [function : {"input", "output", None}, level : {0, 1}]
  BY <1>1 DEF V1!Configured
<1>3. QED
  BY <1>2 DEF TypesV1

LEMMA ConfigureV1 ==
    ASSUME SensibleV1, InvV1, NEW o \in Owners, V1!configure(o)
    PROVE  InvV1'
<1>1. pc[o] = "configure" /\ call[o] \in LineCall /\ UNCHANGED <<held, pipes, given>>
  BY PlacesV1 DEF V1!configure, InvV1, TypesV1
<1>2. PICK l \in call[o].todo :
        LET kind == IF call[o].kind \in V1!EventKinds THEN "in" ELSE call[o].kind
        IN  /\ state' = [state EXCEPT ![o][l].type = kind]
            /\ pin' = [pin EXCEPT ![l] = V1!Configured(l, kind)]
            /\ V1!Goto(o, "typed", [call[o] EXCEPT !.pipes = {l}])
  BY DEF V1!configure
<1>3. PICK kind \in V1!AllKinds : /\ kind \notin V1!EventKinds
                                  /\ state' = [state EXCEPT ![o][l].type = kind]
                                  /\ pin' = [pin EXCEPT ![l] = V1!Configured(l, kind)]
  <2>1. (IF call[o].kind \in V1!EventKinds THEN "in" ELSE call[o].kind) \in V1!AllKinds \ V1!EventKinds
    BY <1>1 DEF LineCall, V1!AllKinds, V1!EventKinds
  <2>2. QED
    BY <1>2, <2>1
<1>4. l \in Lines /\ call[o].todo \subseteq Lines
  BY <1>1 DEF LineCall
<1> DEFINE c == [call[o] EXCEPT !.pipes = {l}]
<1>5. /\ c \in LineCall /\ c.todo = call[o].todo /\ c.kind = call[o].kind /\ c.pipes = {l}
      /\ V1!Goto(o, "typed", c)
  BY <1>1, <1>2, <1>4 DEF LineCall
<1> HIDE DEF c
<1>6. /\ pc' \in [Callers -> V1!Places] /\ call' \in [Callers -> LineCall]
      /\ pc'[o] = "typed" /\ call'[o] = c
      /\ \A u \in Callers : u # o => pc'[u] = pc[u] /\ call'[u] = call[u]
  BY <1>5, GotoV1, PlacesV1 DEF InvV1, V1!Places
<1>7. \A m \in call[o].todo : /\ held[m] = o /\ state[o][m].type \notin V1!EventKinds
                              /\ call[o].kind \in V1!EventKinds => state[o][m].pipe # None
  BY <1>1 DEF InvV1, Configuring
<1>8. pin' \in [Lines -> [function : {"input", "output", None}, level : {0, 1}]]
  BY <1>3, <1>4, ConfiguredType DEF InvV1
<1>9. /\ held[l] = o /\ state[o][l].type \notin V1!EventKinds
      /\ kind \in V1!EventKinds => state[o][l].pipe # None
      /\ pc'[o] \in {"idle", "configure", "typed"}
  BY <1>3, <1>6, <1>7
<1>10. pc'[o] \in {"configure", "typed"} => \A m \in call'[o].todo :
              /\ held[m] = o
              /\ m # l => state[o][m].type \notin V1!EventKinds
              /\ m = l => kind \notin V1!EventKinds
              /\ call'[o].kind \in V1!EventKinds => state[o][m].pipe # None
  BY <1>3, <1>5, <1>6, <1>7
<1>11. pc'[o] = "typed" => \E m \in call'[o].todo : call'[o].pipes = {m}
  BY <1>5, <1>6
<1>12. QED
  BY <1>1, <1>3, <1>4, <1>6, <1>8, <1>9, <1>10, <1>11, KindV1, ZenonT(60)

LEMMA TypedV1 ==
    ASSUME SensibleV1, InvV1, NEW o \in Owners, V1!typed(o)
    PROVE  InvV1'
<1>1. /\ pc[o] = "typed" /\ call[o] \in LineCall /\ UNCHANGED <<held, pin, pipes, given>>
      /\ pin \in [Lines -> [function : {"input", "output", None}, level : {0, 1}]]
  BY PlacesV1 DEF V1!typed, InvV1, TypesV1
<1>2. PICK l \in call[o].todo : call[o].pipes = {l}
  BY <1>1 DEF InvV1, Configuring
<1>3. /\ state' = [state EXCEPT ![o][l].type = call[o].kind]
      /\ IF call[o].todo = {l} THEN V1!Return(o)
         ELSE V1!Goto(o, "configure", [call[o] EXCEPT !.todo = @ \ {l}, !.pipes = {}])
  BY <1>2 DEF V1!typed
<1>4. l \in Lines /\ call[o].todo \subseteq Lines /\ call[o].kind \in V1!AllKinds
  BY <1>1 DEF LineCall
<1>5. PICK place \in {"idle", "configure"}, c \in LineCall :
        /\ V1!Goto(o, place, c)
        /\ place = "configure" => c.todo = call[o].todo \ {l} /\ c.kind = call[o].kind
  <2>1. CASE call[o].todo = {l}
    BY <1>3, <2>1, NoCallV1 DEF V1!Return
  <2>2. CASE call[o].todo # {l}
    <3> DEFINE c == [call[o] EXCEPT !.todo = @ \ {l}, !.pipes = {}]
    <3>1. c \in LineCall /\ c.todo = call[o].todo \ {l} /\ c.kind = call[o].kind
      BY <1>1 DEF LineCall
    <3>2. V1!Goto(o, "configure", c)
      BY <1>3, <2>2
    <3> HIDE DEF c
    <3>3. QED
      BY <3>1, <3>2
  <2>3. QED
    BY <2>1, <2>2
<1>6. /\ pc' \in [Callers -> V1!Places] /\ call' \in [Callers -> LineCall]
      /\ pc'[o] = place /\ call'[o] = c
      /\ \A u \in Callers : u # o => pc'[u] = pc[u] /\ call'[u] = call[u]
  BY <1>5, GotoV1, PlacesV1 DEF InvV1, V1!Places
<1>7. \A m \in call[o].todo : /\ held[m] = o /\ state[o][m].type \notin V1!EventKinds
                              /\ call[o].kind \in V1!EventKinds => state[o][m].pipe # None
  BY <1>1 DEF InvV1, Configuring
<1>8. pc'[o] \in {"configure", "typed"} => \A m \in call'[o].todo :
              /\ held[m] = o /\ state[o][m].type \notin V1!EventKinds /\ m # l
              /\ call'[o].kind \in V1!EventKinds => state[o][m].pipe # None
  BY <1>5, <1>6, <1>7
<1>9. /\ held[l] = o /\ state[o][l].type \notin V1!EventKinds
      /\ call[o].kind \in V1!EventKinds => state[o][l].pipe # None
      /\ pc'[o] \in {"idle", "configure", "typed"}
  BY <1>6, <1>7
<1>10. pc'[o] \in {"configure", "typed"} => \A m \in call'[o].todo :
              /\ held[m] = o
              /\ m # l => state[o][m].type \notin V1!EventKinds
              /\ m = l => call[o].kind \notin V1!EventKinds
              /\ call'[o].kind \in V1!EventKinds => state[o][m].pipe # None
  BY <1>8
<1>11. pc'[o] = "typed" => \E m \in call'[o].todo : call'[o].pipes = {m}
  BY <1>6
<1>12. QED
  BY <1>1, <1>3, <1>4, <1>6, <1>9, <1>10, <1>11, KindV1, ZenonT(60)

LEMMA SetConfigV1 ==
    ASSUME SensibleV1, InvV1, NEW o \in Owners, NEW l \in Lines, NEW kind \in Kinds,
           V1!set_config(o, l, kind)
    PROVE  InvV1'
<1>1. /\ UNCHANGED <<held, pipes, given, pc, call>> /\ pc[o] = "idle"
      /\ state[o][l].type # "none" /\ state[o][l].type \notin V1!EventKinds
      /\ kind \notin V1!EventKinds
  BY DEF V1!set_config, V1!Requested
<1>2. PICK to \in V1!AllKinds : /\ to \notin V1!EventKinds
                                /\ state' = [state EXCEPT ![o][l].type = to]
                                /\ pin' \in {pin, [pin EXCEPT ![l] = V1!Configured(l, to)]}
  <2> DEFINE to == CASE kind # "as_is" -> kind
                     [] pin[l].function = "output" -> "out"
                     [] OTHER -> "in"
  <2>1. to \in V1!AllKinds \ V1!EventKinds
    BY <1>1 DEF SensibleV1, V1!AllKinds, V1!EventKinds
  <2>2. /\ state' = [state EXCEPT ![o][l].type = to]
        /\ pin' \in {pin, [pin EXCEPT ![l] = V1!Configured(l, to)]}
    BY DEF V1!set_config
  <2> HIDE DEF to
  <2>3. QED
    BY <2>1, <2>2
<1>3. held[l] = o
  BY <1>1 DEF InvV1, LinesInOrder
<1>4. pin' \in [Lines -> [function : {"input", "output", None}, level : {0, 1}]]
  BY <1>2, ConfiguredType DEF InvV1, TypesV1
<1>5. pc' \in [Callers -> V1!Places] /\ call' \in [Callers -> LineCall] /\ pc'[o] = "idle"
  BY <1>1 DEF InvV1, TypesV1
<1>6. QED
  BY <1>1, <1>2, <1>3, <1>4, <1>5, KindV1


LEMMA PinOnlyV1 ==
    ASSUME InvV1, UNCHANGED <<held, state, pipes, given, pc, call>>,
           pin' \in [Lines -> [function : {"input", "output", None}, level : {0, 1}]]
    PROVE  InvV1'
<1>1. TypesV1' /\ LinesInOrder' /\ V1!FdSignalsEvents'
  BY DEF InvV1, TypesV1, LinesInOrder, V1!FdSignalsEvents
<1>2. Configuring' /\ Reading' /\ OwnPipes'
  BY DEF InvV1, Configuring, Reading, OwnPipes, Closing
<1>3. QED
  BY <1>1, <1>2 DEF InvV1

LEMMA LevelType ==
    ASSUME TypesV1, NEW l \in Lines, pin' = [pin EXCEPT ![l].level = 1 - @]
    PROVE  pin' \in [Lines -> [function : {"input", "output", None}, level : {0, 1}]]
<1>1. pin[l] \in [function : {"input", "output", None}, level : {0, 1}]
  BY DEF TypesV1
<1>2. [pin[l] EXCEPT !.level = 1 - @] \in [function : {"input", "output", None}, level : {0, 1}]
  BY <1>1
<1>3. QED
  BY <1>2 DEF TypesV1

LEMMA LevelsV1 ==
    ASSUME InvV1, NEW l \in Lines,
           (\E o \in Owners : V1!set_values(o, l)) \/ (\E t \in Drivers : V1!change(t, l))
    PROVE  InvV1'
<1>1. pin' \in [Lines -> [function : {"input", "output", None}, level : {0, 1}]]
  BY LevelType DEF V1!set_values, V1!change, InvV1
<1>2. ASSUME NEW o \in Owners, V1!set_values(o, l) PROVE InvV1'
  BY <1>1, <1>2, PinOnlyV1 DEF V1!set_values
<1>3. ASSUME NEW t \in Drivers, V1!change(t, l) PROVE InvV1'
  <2> DEFINE c == [V1!NoCall EXCEPT !.todo = {l}]
  <2>1. c \in LineCall
    BY NoCallV1 DEF LineCall
  <2>2. PICK place \in {"rose", "fell"} : V1!Goto(t, place, c)
    BY <1>3 DEF V1!change
  <2>3. pc[t] = "idle" /\ UNCHANGED <<held, state, pipes, given>>
    BY <1>3 DEF V1!change
  <2> HIDE DEF c
  <2>4. t \in Callers /\ place \in V1!Places /\ pc[t] \notin Working /\ place \notin Working
        /\ place \notin {"read", "select"}
    BY <2>2, <2>3, PlacesV1 DEF V1!Places, Working
  <2>5. QED
    BY <1>1, <2>1, <2>2, <2>3, <2>4, ElsewhereV1
<1>4. QED
  BY <1>2, <1>3

(* A reader's steps that take nothing from the buffer. *)
LEMMA ReaderMovesV1 ==
    ASSUME InvV1, NEW t \in Readers, NEW place \in {"read", "select"}, NEW c \in LineCall,
           pc[t] \notin Working, V1!Goto(t, place, c), UNCHANGED <<held, pin, state, pipes, given>>,
           \E o \in Owners, l \in Lines :
               c.owner = o /\ c.todo = {l} /\ state[o][l].type \in V1!EventKinds
    PROVE  InvV1'
<1>1. t \in Callers /\ place \in V1!Places /\ place \notin Working
  BY PlacesV1 DEF V1!Places, Working
<1>2. pin' \in [Lines -> [function : {"input", "output", None}, level : {0, 1}]]
  BY DEF InvV1, TypesV1
<1>3. QED
  BY <1>1, <1>2, ElsewhereV1

LEMMA EventReadV1 ==
    ASSUME InvV1, NEW t \in Readers, NEW o \in Owners, NEW l \in Lines, V1!event_read(t, o, l)
    PROVE  InvV1'
<1> DEFINE c == [V1!NoCall EXCEPT !.owner = o, !.todo = {l}]
<1>1. c \in LineCall /\ c.owner = o /\ c.todo = {l}
  BY NoCallV1 DEF LineCall, V1!NoCall
<1>2. /\ V1!Goto(t, "read", c) /\ UNCHANGED <<held, pin, state, pipes, given>>
      /\ pc[t] \notin Working /\ state[o][l].type \in V1!EventKinds
  BY DEF V1!event_read, Working
<1> HIDE DEF c
<1>3. QED
  BY <1>1, <1>2, ReaderMovesV1

LEMMA WakesV1 ==
    ASSUME InvV1, NEW t \in Readers, V1!wakes(t)
    PROVE  InvV1'
<1>1. /\ pc[t] = "select" /\ V1!Goto(t, "read", call[t]) /\ call[t] \in LineCall
      /\ UNCHANGED <<held, pin, state, pipes, given>>
  BY PlacesV1 DEF V1!wakes, InvV1, TypesV1
<1>2. \E o \in Owners, l \in Lines :
        call[t].owner = o /\ call[t].todo = {l} /\ state[o][l].type \in V1!EventKinds
  BY <1>1 DEF InvV1, Reading
<1>3. pc[t] \notin Working
  BY <1>1 DEF Working
<1>4. QED
  BY <1>1, <1>2, <1>3, ReaderMovesV1

-----------------------------------------------------------------------------
(* Callers return, and lines keep their types and pipes. *)
LEMMA ReturnsV1 ==
    ASSUME InvV1, UNCHANGED held,
           \A p \in Owners, m \in Lines : /\ state'[p][m].type = state[p][m].type
                                         /\ state'[p][m].pipe = state[p][m].pipe,
           \A u \in Callers : pc'[u] # "idle" => pc'[u] = pc[u] /\ call'[u] = call[u]
    PROVE  Configuring' /\ Reading'
<1>1. ASSUME NEW p \in Owners, pc'[p] \in {"configure", "typed"}
      PROVE  /\ \A m \in call'[p].todo :
                    /\ held'[m] = p /\ state'[p][m].type \notin V1!EventKinds
                    /\ call'[p].kind \in V1!EventKinds => state'[p][m].pipe # None
             /\ pc'[p] = "typed" => \E m \in call'[p].todo : call'[p].pipes = {m}
  <2>1. pc'[p] = pc[p] /\ call'[p] = call[p] /\ call[p].todo \subseteq Lines
    BY <1>1, PlacesV1 DEF InvV1, TypesV1, LineCall
  <2>2. /\ \A m \in call[p].todo :
             /\ held[m] = p /\ state[p][m].type \notin V1!EventKinds
             /\ call[p].kind \in V1!EventKinds => state[p][m].pipe # None
        /\ pc[p] = "typed" => \E m \in call[p].todo : call[p].pipes = {m}
    BY <1>1, <2>1 DEF InvV1, Configuring
  <2>3. QED
    BY <2>1, <2>2
<1>2. ASSUME NEW t \in Readers, pc'[t] \in {"read", "select"}
      PROVE  \E p \in Owners, m \in Lines :
                call'[t].owner = p /\ call'[t].todo = {m} /\ state'[p][m].type \in V1!EventKinds
  <2>1. pc[t] \in {"read", "select"} /\ call'[t] = call[t]
    BY <1>2, PlacesV1
  <2>2. PICK p \in Owners, m \in Lines :
           call[t].owner = p /\ call[t].todo = {m} /\ state[p][m].type \in V1!EventKinds
    BY <2>1 DEF InvV1, Reading
  <2>3. state'[p][m].type = state[p][m].type
    OBVIOUS
  <2>4. QED
    BY <2>1, <2>2, <2>3
<1>3. QED
  BY <1>1, <1>2 DEF Configuring, Reading

(* A buffer of events, and the bytes of its pipe with it. *)
LEMMA BufferV1 ==
    ASSUME SensibleV1, InvV1, NEW o \in Owners, NEW l \in Lines, NEW new \in LineState,
           state[o][l].type \in V1!EventKinds,
           new.type = state[o][l].type, new.pipe = state[o][l].pipe, Len(new.events) <= EventBuffer,
           state' = [state EXCEPT ![o] = [state[o] EXCEPT ![l] = new]],
           pipes' = [pipes EXCEPT ![state[o][l].pipe] = Len(new.events)],
           given' \in [Owners -> [Lines -> Nat]], UNCHANGED <<held, pin>>,
           NEW t \in Callers, pc[t] \notin Working, V1!Return(t)
    PROVE  InvV1'
<1> DEFINE fd == state[o][l].pipe
<1>1. TypesV1 /\ LinesInOrder /\ Configuring /\ Reading /\ OwnPipes /\ V1!FdSignalsEvents
  BY DEF InvV1
<1>2. /\ \A p \in Owners, m \in Lines : p # o \/ m # l => state'[p][m] = state[p][m]
      /\ state' \in [Owners -> [Lines -> LineState]]
  <2>1. \A p \in Owners, m \in Lines : p # o \/ m # l => state'[p][m] = state[p][m]
    BY <1>1, LineBecomes
  <2>2. state' \in [Owners -> [Lines -> LineState]]
    BY <1>1, LineBecomes
  <2>3. QED
    BY <2>1, <2>2
<1>3. state'[o][l] = new
  BY DEF InvV1, TypesV1
<1>4. \A p \in Owners, m \in Lines : /\ state'[p][m].pipe = state[p][m].pipe
                                    /\ state'[p][m].type = state[p][m].type
  BY <1>2, <1>3
<1>5. fd \in Pipes /\ Len(new.events) \in Nat /\ new.events \in Seq(Lines \X Nat)
  BY <1>1 DEF TypesV1, LinesInOrder, LineState, V1!EventKinds
<1>6. /\ pipes' \in [Pipes -> Nat \cup {None}] /\ pipes'[fd] = Len(new.events)
      /\ \A p \in Pipes \ {fd} : pipes'[p] = pipes[p]
  <2>1. pipes \in [Pipes -> Nat \cup {None}]
    BY <1>1 DEF TypesV1
  <2>2. QED
    BY <1>5, <2>1
<1>7. /\ pc' \in [Callers -> V1!Places] /\ call' \in [Callers -> LineCall] /\ pc'[t] = "idle"
      /\ \A u \in Callers : u # t => pc'[u] = pc[u] /\ call'[u] = call[u]
  BY <1>1, GotoV1, NoCallV1 DEF V1!Return, V1!Places
<1>8. \A u \in Callers : pc'[u] # "idle" => pc'[u] = pc[u] /\ call'[u] = call[u]
  BY <1>7
<1>9. TypesV1'
  BY <1>1, <1>2, <1>6, <1>7 DEF TypesV1
<1>10. LinesInOrder'
  <2>1. state[o][l].type # "none"
    BY DEF V1!EventKinds
  <2>2. QED
    BY <1>1, <1>2, <1>3, <1>4, <2>1 DEF LinesInOrder
<1>11. Configuring' /\ Reading'
  BY <1>4, <1>8, ReturnsV1
<1>13. V1!FdSignalsEvents'
  <2>1. ASSUME NEW p \in Owners, NEW m \in Lines, state'[p][m].pipe # None, p # o \/ m # l
        PROVE  pipes'[state'[p][m].pipe] = Len(state'[p][m].events)
    <3>1. state[p][m].pipe # None /\ state'[p][m] = state[p][m] /\ state[p][m].pipe \in Pipes
      BY <1>1, <1>2, <2>1 DEF TypesV1, LineState
    <3>2. state[p][m].pipe # fd
      BY <1>1, <1>5, <2>1, <3>1 DEF OwnPipes
    <3>3. QED
      BY <1>1, <1>6, <3>1, <3>2 DEF V1!FdSignalsEvents
  <2>2. QED
    BY <1>3, <1>6, <2>1 DEF V1!FdSignalsEvents
<1>14. OwnPipes'
  <2>1. \A c \in Owners : Closing(c)' => Closing(c) /\ call'[c] = call[c]
    BY <1>8, PlacesV1 DEF Closing
  <2>2. \A p \in Pipes : pipes[p] # None => pipes'[p] # None
    BY <1>5, <1>6 DEF SensibleV1
  <2>3. QED
    BY <1>1, <1>4, <2>1, <2>2, KeptPipesV1
<1>15. QED
  BY <1>9, <1>10, <1>11, <1>13, <1>14 DEF InvV1

(* What _on_change() does: nothing to the line, or an event for its holder. *)
LEMMA OnChangeStep ==
    ASSUME SensibleV1, InvV1, NEW t \in Drivers, V1!on_change(t)
    PROVE  \/ UNCHANGED <<state, pipes, given>>
           \/ \E o \in Owners, l \in Lines :
                /\ state[o][l].type \in V1!EventKinds /\ Len(state[o][l].events) < EventBuffer
                /\ given' = [given EXCEPT ![o][l] = @ + 1]
                /\ state' = [state EXCEPT ![o][l].events = Append(@, <<l, given[o][l] + 1>>)]
                /\ pipes' = [pipes EXCEPT ![state[o][l].pipe] = @ + 1]
<1>1. PICK l \in call[t].todo, o \in Owners \cup {None} :
        /\ o = held[l]
        /\ IF o = None THEN UNCHANGED <<state, pipes, given>>
           ELSE IF state[o][l].type \notin V1!EventKinds \/ ~V1!Room(o, l)
                   \/ ~V1!Wanted(state[o][l].type, pc[t] = "rose")
           THEN UNCHANGED <<state, pipes, given>>
           ELSE /\ given[o][l] < MaxEvents
                /\ given' = [given EXCEPT ![o][l] = @ + 1]
                /\ state' = [state EXCEPT ![o][l].events = Append(@, <<l, given[o][l] + 1>>)]
                /\ pipes' = V1!Wake(o, l)
  BY DEF V1!on_change
<1>2. l \in Lines
  BY PlacesV1 DEF InvV1, TypesV1, LineCall
<1>3. CASE o = None \/ state[o][l].type \notin V1!EventKinds \/ ~V1!Room(o, l)
           \/ ~V1!Wanted(state[o][l].type, pc[t] = "rose")
  BY <1>1, <1>3
<1>4. CASE ~(o = None \/ state[o][l].type \notin V1!EventKinds \/ ~V1!Room(o, l)
             \/ ~V1!Wanted(state[o][l].type, pc[t] = "rose"))
  <2>1. /\ o \in Owners /\ state[o][l].type \in V1!EventKinds /\ Len(state[o][l].events) < EventBuffer
        /\ given' = [given EXCEPT ![o][l] = @ + 1]
        /\ state' = [state EXCEPT ![o][l].events = Append(@, <<l, given[o][l] + 1>>)]
        /\ pipes' = [pipes EXCEPT ![state[o][l].pipe] = @ + 1]
    BY <1>1, <1>4 DEF V1!Room, V1!Wake
  <2>2. QED
    BY <1>2, <2>1
<1>5. QED
  BY <1>3, <1>4

(* A line with events has a pipe with a byte for each. *)
LEMMA LineFacts ==
    ASSUME SensibleV1, InvV1, NEW o \in Owners, NEW l \in Lines, state[o][l].type \in V1!EventKinds
    PROVE  /\ state[o][l] \in LineState /\ state[o][l].pipe \in Pipes
           /\ state[o][l].events \in Seq(Lines \X Nat)
           /\ Len(state[o][l].events) \in Nat /\ Len(state[o][l].events) <= EventBuffer
           /\ pipes[state[o][l].pipe] = Len(state[o][l].events)
           /\ given[o][l] \in Nat
<1>1. state[o][l] \in LineState /\ given[o][l] \in Nat
  BY DEF InvV1, TypesV1
<1>2. state[o][l].pipe # None /\ Len(state[o][l].events) <= EventBuffer
  BY DEF InvV1, LinesInOrder
<1>3. QED
  BY <1>1, <1>2 DEF LineState, InvV1, V1!FdSignalsEvents

LEMMA OnChangeV1 ==
    ASSUME SensibleV1, InvV1, NEW t \in Drivers, V1!on_change(t)
    PROVE  InvV1'
<1>0. /\ t \in Callers /\ V1!Return(t) /\ UNCHANGED <<held, pin>> /\ pc[t] \notin Working
      /\ pin' \in [Lines -> [function : {"input", "output", None}, level : {0, 1}]]
  BY PlacesV1 DEF V1!on_change, Working, InvV1, TypesV1
<1>1. CASE UNCHANGED <<state, pipes, given>>
  <2>1. V1!Goto(t, "idle", V1!NoCall) /\ "idle" \in V1!Places /\ "idle" \notin Working
    BY <1>0 DEF V1!Return, V1!Places, Working
  <2>2. QED
    BY <1>0, <1>1, <2>1, NoCallV1, ElsewhereV1
<1>2. ASSUME NEW o \in Owners, NEW l \in Lines,
             state[o][l].type \in V1!EventKinds, Len(state[o][l].events) < EventBuffer,
             given' = [given EXCEPT ![o][l] = @ + 1],
             state' = [state EXCEPT ![o][l].events = Append(@, <<l, given[o][l] + 1>>)],
             pipes' = [pipes EXCEPT ![state[o][l].pipe] = @ + 1]
      PROVE  InvV1'
  <2> DEFINE events == Append(state[o][l].events, <<l, given[o][l] + 1>>)
             new == [state[o][l] EXCEPT !.events = events]
  <2>1. /\ state[o][l] \in LineState /\ state[o][l].pipe \in Pipes
        /\ state[o][l].events \in Seq(Lines \X Nat)
        /\ Len(state[o][l].events) \in Nat /\ Len(state[o][l].events) <= EventBuffer
        /\ pipes[state[o][l].pipe] = Len(state[o][l].events)
        /\ given[o][l] \in Nat
    BY <1>2, LineFacts
  <2>2. events \in Seq(Lines \X Nat) /\ Len(events) = Len(state[o][l].events) + 1
    BY <2>1
  <2>3. state' = [state EXCEPT ![o] = [state[o] EXCEPT ![l] = new]]
    BY <1>2
  <2>4. pipes' = [pipes EXCEPT ![state[o][l].pipe] = Len(events)]
    BY <1>2, <2>1, <2>2
  <2> HIDE DEF events
  <2>5. /\ new \in LineState /\ new.type = state[o][l].type /\ new.pipe = state[o][l].pipe
        /\ new.events = events
    BY <2>1, <2>2 DEF LineState
  <2> HIDE DEF new
  <2>6. Len(new.events) <= EventBuffer /\ pipes' = [pipes EXCEPT ![state[o][l].pipe] = Len(new.events)]
    <3>1. Len(events) <= EventBuffer
      BY <1>2, <2>1, <2>2 DEF SensibleV1
    <3>2. QED
      BY <2>4, <2>5, <3>1
  <2>7. given' \in [Owners -> [Lines -> Nat]]
    <3>1. given \in [Owners -> [Lines -> Nat]]
      BY DEF InvV1, TypesV1
    <3>2. QED
      BY <1>2, <3>1
  <2>8. QED
    BY <1>0, <1>2, <2>3, <2>5, <2>6, <2>7, BufferV1, ZenonT(60)
<1>3. QED
  BY <1>1, <1>2, OnChangeStep

LEMMA ReadStep ==
    ASSUME SensibleV1, InvV1, NEW t \in Readers, V1!read(t)
    PROVE  \/ UNCHANGED <<state, pipes, given>> /\ V1!Goto(t, "select", call[t])
           \/ \E o \in Owners, l \in Lines : \E n \in 1..Len(state[o][l].events) :
                /\ state[o][l].type \in V1!EventKinds
                /\ state' = [state EXCEPT ![o][l].events = SubSeq(@, n + 1, Len(@))]
                /\ pipes' = [pipes EXCEPT ![state[o][l].pipe] = @ - n]
                /\ given' = given /\ V1!Return(t)
<1>1. PICK o \in Owners, l \in Lines :
        call[t].owner = o /\ call[t].todo = {l} /\ state[o][l].type \in V1!EventKinds
  BY DEF V1!read, InvV1, Reading
<1>2. state[o][l].events \in Seq(Lines \X Nat)
  BY <1>1, LineFacts
<1>3. \/ \E n \in {1, Len(state[o][l].events)} :
            /\ state[o][l].events # <<>>
            /\ state' = [state EXCEPT ![o][l].events = SubSeq(@, n + 1, Len(@))]
            /\ pipes' = [pipes EXCEPT ![state[o][l].pipe] = @ - n]
            /\ V1!Return(t)
      \/ V1!Goto(t, "select", call[t]) /\ UNCHANGED <<state, pipes>>
  BY <1>1 DEF V1!read
<1>4. given' = given
  BY DEF V1!read
<1>5. state[o][l].events # <<>> => \A n \in {1, Len(state[o][l].events)} : n \in 1..Len(state[o][l].events)
  BY <1>2
<1>6. QED
  BY <1>1, <1>3, <1>4, <1>5

LEMMA ReadV1 ==
    ASSUME SensibleV1, InvV1, NEW t \in Readers, V1!read(t)
    PROVE  InvV1'
<1>0. t \in Callers /\ pc[t] = "read" /\ call[t] \in LineCall /\ UNCHANGED <<held, pin, given>>
  BY PlacesV1 DEF V1!read, InvV1, TypesV1
<1>1. CASE UNCHANGED <<state, pipes, given>> /\ V1!Goto(t, "select", call[t])
  <2>1. \E o \in Owners, l \in Lines :
          call[t].owner = o /\ call[t].todo = {l} /\ state[o][l].type \in V1!EventKinds
    BY <1>0 DEF InvV1, Reading
  <2>2. pc[t] \notin Working
    BY <1>0 DEF Working
  <2>3. QED
    BY <1>0, <1>1, <2>1, <2>2, ReaderMovesV1
<1>2. ASSUME NEW o \in Owners, NEW l \in Lines, NEW n \in 1..Len(state[o][l].events),
             state[o][l].type \in V1!EventKinds,
             state' = [state EXCEPT ![o][l].events = SubSeq(@, n + 1, Len(@))],
             pipes' = [pipes EXCEPT ![state[o][l].pipe] = @ - n], V1!Return(t)
      PROVE  InvV1'
  <2> DEFINE events == SubSeq(state[o][l].events, n + 1, Len(state[o][l].events))
             new == [state[o][l] EXCEPT !.events = events]
  <2>1. /\ state[o][l] \in LineState /\ state[o][l].pipe \in Pipes
        /\ state[o][l].events \in Seq(Lines \X Nat)
        /\ Len(state[o][l].events) \in Nat /\ Len(state[o][l].events) <= EventBuffer
        /\ pipes[state[o][l].pipe] = Len(state[o][l].events)
    BY <1>2, LineFacts
  <2>2. events \in Seq(Lines \X Nat) /\ Len(events) = Len(state[o][l].events) - n
    BY <2>1, SubSeqType
  <2>3. state' = [state EXCEPT ![o] = [state[o] EXCEPT ![l] = new]]
    BY <1>2
  <2> HIDE DEF events
  <2>4. pipes' = [pipes EXCEPT ![state[o][l].pipe] = Len(events)]
    BY <1>2, <2>1, <2>2
  <2>5. /\ new \in LineState /\ new.type = state[o][l].type /\ new.pipe = state[o][l].pipe
        /\ new.events = events
    BY <2>1, <2>2 DEF LineState
  <2> HIDE DEF new
  <2>6. Len(new.events) <= EventBuffer /\ pipes' = [pipes EXCEPT ![state[o][l].pipe] = Len(new.events)]
    <3>1. Len(events) <= EventBuffer
      BY <1>2, <2>1, <2>2 DEF SensibleV1
    <3>2. QED
      BY <2>4, <2>5, <3>1
  <2>7. given' \in [Owners -> [Lines -> Nat]] /\ pc[t] \notin Working
    BY <1>0 DEF InvV1, TypesV1, Working
  <2>8. QED
    BY <1>0, <1>2, <2>3, <2>5, <2>6, <2>7, BufferV1, ZenonT(60)
<1>3. QED
  BY <1>0, <1>1, <1>2, ReadStep

-----------------------------------------------------------------------------
(* What a release leaves. *)
LEMMA ReleaseV1 ==
    ASSUME SensibleV1, InvV1, NEW o \in Owners, NEW l \in Lines, V1!release(o, l)
    PROVE  InvV1'
<1> DEFINE closing == {state[o][l].pipe} \ {None}
           c == [V1!NoCall EXCEPT !.todo = {l}, !.pipes = closing]
<1>0. TypesV1 /\ LinesInOrder /\ Configuring /\ Reading /\ OwnPipes /\ V1!FdSignalsEvents
  BY DEF InvV1
<1>1. /\ pc[o] = "idle" /\ state[o][l].type # "none" /\ UNCHANGED <<pin, pipes, given>>
      /\ held' = [held EXCEPT ![l] = IF @ = o THEN None ELSE @]
      /\ state' = [state EXCEPT ![o] = [state[o] EXCEPT ![l] = V1!Unrequested]]
      /\ V1!Goto(o, "release", c)
  BY DEF V1!release, V1!Requested
<1>2. \A t \in Readers : pc[t] # "idle" => ~(call[t].owner = o /\ l \in call[t].todo)
  BY DEF V1!release, V1!BeingRead
<1>3. state[o][l] \in LineState /\ V1!Unrequested \in LineState
  BY <1>0 DEF TypesV1, V1!Unrequested, LineState
<1>4. closing \subseteq Pipes /\ c \in LineCall /\ c.pipes = closing
  BY <1>3, NoCallV1 DEF LineState, LineCall
<1>4a. \A fd \in closing : fd = state[o][l].pipe /\ fd # None
  OBVIOUS
<1> HIDE DEF closing, c
<1>5. /\ pc' \in [Callers -> V1!Places] /\ call' \in [Callers -> LineCall] /\ pc'[o] = "release" /\ call'[o] = c
      /\ \A u \in Callers : u # o => pc'[u] = pc[u] /\ call'[u] = call[u]
  BY <1>0, <1>1, <1>4, GotoV1, PlacesV1 DEF V1!Places
<1>6. \A p \in Owners, m \in Lines : p # o \/ m # l => state'[p][m] = state[p][m]
  BY <1>0, <1>1, <1>3, LineBecomes
<1>7. state' \in [Owners -> [Lines -> LineState]]
  BY <1>0, <1>1, <1>3, LineBecomes
<1>8. /\ state'[o][l].type = "none" /\ state'[o][l].events = <<>> /\ state'[o][l].pipe = None
  BY <1>0, <1>1 DEF TypesV1, V1!Unrequested
<1>9. held[l] = o
  BY <1>0, <1>1 DEF LinesInOrder
<1>10. held' \in [Lines -> Owners \cup {None}] /\ held'[l] = None /\ \A m \in Lines \ {l} : held'[m] = held[m]
  BY <1>0, <1>1, <1>9 DEF TypesV1
<1>11. TypesV1'
  BY <1>0, <1>1, <1>5, <1>7, <1>10 DEF TypesV1
<1>12. LinesInOrder'
  <2>1. ASSUME NEW p \in Owners, NEW m \in Lines
        PROVE  /\ state'[p][m].type # "none" => held'[m] = p
               /\ state'[p][m].type = "none" => state'[p][m].events = <<>>
               /\ state'[p][m].type \in V1!EventKinds => state'[p][m].pipe # None
               /\ Len(state'[p][m].events) <= EventBuffer
    <3>1. CASE p = o /\ m = l
      BY <1>8, <3>1 DEF SensibleV1, V1!EventKinds
    <3>2. CASE p # o \/ m # l
      <4>1. /\ state[p][m].type # "none" => held[m] = p
            /\ state[p][m].type = "none" => state[p][m].events = <<>>
            /\ state[p][m].type \in V1!EventKinds => state[p][m].pipe # None
            /\ Len(state[p][m].events) <= EventBuffer
        BY <1>0 DEF LinesInOrder
      <4>2. state[p][m].type # "none" => m # l
        BY <1>9, <3>2, <4>1
      <4>3. QED
        BY <1>6, <1>10, <3>2, <4>1, <4>2
    <3>3. QED
      BY <3>1, <3>2
  <2>2. QED
    BY <2>1 DEF LinesInOrder
<1>13. Configuring'
  <2>1. ASSUME NEW p \in Owners, pc'[p] \in {"configure", "typed"}
        PROVE  /\ \A m \in call'[p].todo :
                    /\ held'[m] = p /\ state'[p][m].type \notin V1!EventKinds
                    /\ call'[p].kind \in V1!EventKinds => state'[p][m].pipe # None
               /\ pc'[p] = "typed" => \E m \in call'[p].todo : call'[p].pipes = {m}
    <3>1. p # o /\ pc'[p] = pc[p] /\ call'[p] = call[p] /\ call[p].todo \subseteq Lines
      BY <1>0, <1>5, <2>1, PlacesV1 DEF TypesV1, LineCall
    <3>2. /\ \A m \in call[p].todo :
               /\ held[m] = p /\ state[p][m].type \notin V1!EventKinds
               /\ call[p].kind \in V1!EventKinds => state[p][m].pipe # None
          /\ pc[p] = "typed" => \E m \in call[p].todo : call[p].pipes = {m}
      BY <1>0, <2>1, <3>1 DEF Configuring
    <3>3. \A m \in call[p].todo : held'[m] = held[m] /\ state'[p][m] = state[p][m]
      BY <1>6, <1>9, <1>10, <3>1, <3>2
    <3>4. QED
      BY <3>1, <3>2, <3>3
  <2>2. QED
    BY <2>1 DEF Configuring
<1>14. Reading'
  <2>1. ASSUME NEW t \in Readers, pc'[t] \in {"read", "select"}
        PROVE  \E p \in Owners, m \in Lines :
                  call'[t].owner = p /\ call'[t].todo = {m} /\ state'[p][m].type \in V1!EventKinds
    <3>1. pc[t] \in {"read", "select"} /\ call'[t] = call[t]
      BY <1>5, <2>1, PlacesV1
    <3>2. PICK p \in Owners, m \in Lines :
             call[t].owner = p /\ call[t].todo = {m} /\ state[p][m].type \in V1!EventKinds
      BY <1>0, <3>1 DEF Reading
    <3>3. state'[p][m] = state[p][m]
      BY <1>2, <1>6, <3>1, <3>2
    <3>4. QED
      BY <3>1, <3>2, <3>3
  <2>2. QED
    BY <2>1 DEF Reading
<1>15. \A p \in Owners, m \in Lines : state'[p][m].pipe # None => (p # o \/ m # l) /\ state'[p][m] = state[p][m]
  BY <1>6, <1>8
<1>16. V1!FdSignalsEvents'
  BY <1>0, <1>1, <1>15 DEF V1!FdSignalsEvents
<1>17. OwnPipes'
  <2>1. \A d \in Owners : Closing(d)' /\ d # o => Closing(d) /\ call'[d] = call[d]
    BY <1>5, PlacesV1 DEF Closing
  <2>2. \A a, p \in Owners, l1, m \in Lines :
          state'[a][l1].pipe # None /\ state'[p][m].pipe = state'[a][l1].pipe => a = p /\ l1 = m
    BY <1>0, <1>15 DEF OwnPipes
  <2>3. ASSUME NEW a \in Owners, NEW d \in Owners, NEW m \in Lines, Closing(d)', state'[a][m].pipe # None
        PROVE  state'[a][m].pipe \notin call'[d].pipes
    <3>1. state'[a][m] = state[a][m] /\ (a # o \/ m # l)
      BY <1>15, <2>3
    <3>2. CASE d = o
      <4>1. state[a][m].pipe # state[o][l].pipe
        BY <1>0, <2>3, <3>1 DEF OwnPipes
      <4>2. QED
        BY <1>4, <1>4a, <1>5, <3>1, <3>2, <4>1
    <3>3. CASE d # o
      BY <1>0, <2>1, <2>3, <3>1, <3>3 DEF OwnPipes
    <3>4. QED
      BY <3>2, <3>3
  <2>4. \A fd \in closing : fd \in Pipes /\ pipes[fd] # None
    BY <1>0, <1>3, <1>4, <1>4a DEF V1!FdSignalsEvents, SensibleV1, LineState
  <2>5. \A d \in Owners : Closing(d)' => \A fd \in call'[d].pipes : fd \in Pipes /\ pipes'[fd] # None
    BY <1>0, <1>1, <1>4, <1>5, <2>1, <2>4 DEF OwnPipes
  <2>6. \A d \in Owners : Closing(d)' /\ d # o => call'[d].pipes \cap closing = {}
    BY <1>0, <1>4a, <2>1 DEF OwnPipes
  <2>7. \A a, d \in Owners :
          Closing(a)' /\ Closing(d)' /\ a # d => call'[a].pipes \cap call'[d].pipes = {}
    BY <1>0, <1>4, <1>5, <2>1, <2>6 DEF OwnPipes
  <2>8. QED
    BY <2>2, <2>3, <2>5, <2>7 DEF OwnPipes
<1>18. QED
  BY <1>11, <1>12, <1>13, <1>14, <1>16, <1>17 DEF InvV1

LEMMA ReleasePinV1 ==
    ASSUME InvV1, NEW o \in Owners, V1!release_pin(o)
    PROVE  InvV1'
<1>1. /\ pc[o] = "release" /\ UNCHANGED <<held, state, pipes, given>> /\ call[o] \in LineCall
      /\ V1!Goto(o, "close", call[o])
  BY PlacesV1 DEF V1!release_pin, InvV1, TypesV1
<1>2. /\ pc' \in [Callers -> V1!Places] /\ call' \in [Callers -> LineCall] /\ pc'[o] = "close"
      /\ \A u \in Callers : call'[u] = call[u] /\ (u # o => pc'[u] = pc[u])
  BY <1>1, GotoV1, PlacesV1 DEF InvV1, V1!Places
<1>3. pin' \in [Lines -> [function : {"input", "output", None}, level : {0, 1}]]
  <2>1. \A l \in Lines : /\ pin[l] \in [function : {"input", "output", None}, level : {0, 1}]
                         /\ [pin[l] EXCEPT !.function = None]
                                \in [function : {"input", "output", None}, level : {0, 1}]
    BY DEF InvV1, TypesV1
  <2>2. QED
    BY <2>1 DEF V1!release_pin
<1>4. TypesV1' /\ LinesInOrder' /\ V1!FdSignalsEvents'
  BY <1>1, <1>2, <1>3 DEF InvV1, TypesV1, LinesInOrder, V1!FdSignalsEvents
<1>5. Configuring' /\ Reading'
  BY <1>1, <1>2, PlacesV1 DEF InvV1, Configuring, Reading
<1>6. \A d \in Owners : Closing(d)' => Closing(d) /\ call'[d] = call[d]
  BY <1>1, <1>2, PlacesV1 DEF Closing
<1>7. OwnPipes'
  BY <1>1, <1>6, KeptPipesV1 DEF InvV1
<1>8. QED
  BY <1>4, <1>5, <1>7 DEF InvV1

LEMMA CloseV1 ==
    ASSUME SensibleV1, InvV1, NEW o \in Owners, V1!close(o)
    PROVE  InvV1'
<1>0. TypesV1 /\ LinesInOrder /\ Configuring /\ Reading /\ OwnPipes /\ V1!FdSignalsEvents
  BY DEF InvV1
<1>1. /\ pc[o] = "close" /\ V1!Return(o) /\ UNCHANGED <<held, pin, state, given>>
      /\ pipes' = [p \in Pipes |-> IF p \in call[o].pipes THEN None ELSE pipes[p]]
  BY DEF V1!close
<1>2. /\ pc' \in [Callers -> V1!Places] /\ call' \in [Callers -> LineCall] /\ pc'[o] = "idle"
      /\ \A u \in Callers : u # o => pc'[u] = pc[u] /\ call'[u] = call[u]
  BY <1>0, <1>1, GotoV1, NoCallV1, PlacesV1 DEF V1!Return, V1!Places
<1>3. TypesV1' /\ LinesInOrder'
  BY <1>0, <1>1, <1>2 DEF TypesV1, LinesInOrder
<1>4. Configuring' /\ Reading'
  BY <1>1, <1>2, ReturnsV1
<1>5. Closing(o)
  BY <1>1 DEF Closing
<1>6. V1!FdSignalsEvents'
  <2>1. ASSUME NEW p \in Owners, NEW m \in Lines, state[p][m].pipe # None
        PROVE  pipes'[state[p][m].pipe] = pipes[state[p][m].pipe]
    <3>1. state[p][m].pipe \in Pipes
      BY <1>0, <2>1 DEF TypesV1, LineState
    <3>2. state[p][m].pipe \notin call[o].pipes
      BY <1>0, <1>5, <2>1 DEF OwnPipes
    <3>3. QED
      BY <1>1, <3>1, <3>2
  <2>2. QED
    BY <1>0, <1>1, <2>1 DEF V1!FdSignalsEvents
<1>7. OwnPipes'
  <2>1. \A d \in Owners : Closing(d)' => Closing(d) /\ call'[d] = call[d] /\ d # o
    BY <1>2, PlacesV1 DEF Closing
  <2>2. ASSUME NEW d \in Owners, Closing(d)', NEW fd \in call'[d].pipes
        PROVE  fd \in Pipes /\ pipes'[fd] # None
    <3>1. fd \in Pipes /\ pipes[fd] # None /\ fd \notin call[o].pipes
      BY <1>0, <1>5, <2>1, <2>2 DEF OwnPipes
    <3>2. QED
      BY <1>1, <3>1
  <2>3. \A c, d \in Owners :
          Closing(c)' /\ Closing(d)' /\ c # d => call'[c].pipes \cap call'[d].pipes = {}
    BY <1>0, <2>1 DEF OwnPipes
  <2>4. \A a, c \in Owners, m \in Lines :
          Closing(c)' /\ state'[a][m].pipe # None => state'[a][m].pipe \notin call'[c].pipes
    BY <1>0, <1>1, <2>1 DEF OwnPipes
  <2>5. QED
    BY <1>0, <1>1, <2>2, <2>3, <2>4 DEF OwnPipes
<1>8. QED
  BY <1>3, <1>4, <1>6, <1>7 DEF InvV1

LEMMA OpenedV1 ==
    ASSUME TypesV1, NEW o \in Owners, NEW done \in SUBSET Lines, NEW fds \in [done -> Pipes], V1!Opened(o, fds)
    PROVE  \A p \in Owners, m \in Lines : /\ state'[p][m].type = state[p][m].type
                                         /\ state'[p][m].events = state[p][m].events
<1>1. state' = [state EXCEPT ![o] = [l \in Lines |->
          IF l \in done THEN [state[o][l] EXCEPT !.pipe = fds[l]] ELSE state[o][l]]]
  BY DEF V1!Opened
<1>2. \A m \in Lines : state[o][m] \in LineState
  BY DEF TypesV1
<1>3. \A m \in Lines, fd \in Pipes : /\ [state[o][m] EXCEPT !.pipe = fd].events = state[o][m].events
                                     /\ [state[o][m] EXCEPT !.pipe = fd].type = state[o][m].type
  BY <1>2 DEF LineState
<1>4. \A m \in Lines : state'[o][m] = IF m \in done THEN [state[o][m] EXCEPT !.pipe = fds[m]] ELSE state[o][m]
  BY <1>1 DEF TypesV1
<1>5. \A p \in Owners : p # o => state'[p] = state[p]
  BY <1>1 DEF TypesV1
<1>6. ASSUME NEW m \in Lines PROVE state'[o][m].type = state[o][m].type /\ state'[o][m].events = state[o][m].events
  <2>1. CASE m \in done
    <3>1. fds[m] \in Pipes /\ state'[o][m] = [state[o][m] EXCEPT !.pipe = fds[m]]
      BY <1>4, <2>1
    <3>2. QED
      BY <1>3, <3>1
  <2>2. CASE m \notin done
    BY <1>4, <2>2
  <2>3. QED
    BY <2>1, <2>2
<1>7. QED
  BY <1>5, <1>6

(* A chip takes lines that are free, with pipes for some of them, and goes *)
(* on to configure them all, or nothing.                                   *)
LEMMA TakesLinesV1 ==
    ASSUME SensibleV1, InvV1, NEW o \in Owners, NEW lines \in SUBSET Lines, NEW done \in SUBSET lines,
           pc[o] = "idle", V1!AllFree(o, lines), held' = V1!HeldFor(o, lines), UNCHANGED <<pin, given>>,
           (done = {} /\ UNCHANGED <<state, pipes>>) \/ \E fds \in [done -> Pipes] : V1!Opened(o, fds),
           pc' \in [Callers -> V1!Places], call' \in [Callers -> LineCall],
           \A u \in Callers : u # o => pc'[u] = pc[u] /\ call'[u] = call[u],
           pc'[o] \in {"idle", "configure"},
           pc'[o] = "configure" => /\ call'[o].todo = lines
                                   /\ call'[o].kind \in V1!EventKinds => done = lines
    PROVE  InvV1'
<1>0. TypesV1 /\ LinesInOrder /\ Configuring /\ Reading /\ OwnPipes /\ V1!FdSignalsEvents
  BY DEF InvV1
<1>1. /\ \A l \in lines : state[o][l].type = "none" /\ held[l] = None
      /\ held' = [l \in Lines |-> IF l \in lines THEN o ELSE held[l]]
  BY DEF V1!AllFree, V1!Requested, V1!HeldFor
<1>4. /\ pc' \in [Callers -> V1!Places] /\ call' \in [Callers -> LineCall] /\ pc'[o] \in {"idle", "configure"}
      /\ \A u \in Callers : u # o => pc'[u] = pc[u] /\ call'[u] = call[u]
  OBVIOUS
<1>5. /\ held' \in [Lines -> Owners \cup {None}]
      /\ \A l \in lines : held'[l] = o
      /\ \A l \in Lines : l \notin lines => held'[l] = held[l]
  BY <1>0, <1>1 DEF TypesV1
<1>6. \A d \in Owners : Closing(d)' => Closing(d) /\ call'[d] = call[d]
  BY <1>4, PlacesV1 DEF Closing
(* The lines' pipes: opened, or none. *)
<1>7. /\ state' \in [Owners -> [Lines -> LineState]] /\ pipes' \in [Pipes -> Nat \cup {None}]
      /\ \A p \in Owners, m \in Lines : /\ state'[p][m].type = state[p][m].type
                                        /\ state'[p][m].events = state[p][m].events
                                        /\ p # o \/ m \notin done => state'[p][m] = state[p][m]
      /\ \A p \in Pipes : pipes[p] # None => pipes'[p] = pipes[p]
      /\ \A l \in done :
            /\ state'[o][l].pipe \in Pipes /\ pipes[state'[o][l].pipe] = None
            /\ pipes'[state'[o][l].pipe] = 0
            /\ \A m \in done : m # l => state'[o][m].pipe # state'[o][l].pipe
  <2>1. CASE done = {} /\ UNCHANGED <<state, pipes>>
    BY <1>0, <2>1 DEF TypesV1
  <2>2. CASE \E fds \in [done -> Pipes] : V1!Opened(o, fds)
    <3>0. PICK fds \in [done -> Pipes] : V1!Opened(o, fds)
      BY <2>2
    <3>1. /\ V1!Opened(o, fds)
          /\ state' = [state EXCEPT ![o] = [l \in Lines |->
                IF l \in done THEN [state[o][l] EXCEPT !.pipe = fds[l]] ELSE state[o][l]]]
          /\ pipes' = [p \in Pipes |-> IF \E l \in done : fds[l] = p THEN 0 ELSE pipes[p]]
      BY <3>0 DEF V1!Opened
    <3>2. /\ \A l \in done : fds[l] \in Pipes /\ pipes[fds[l]] = None
          /\ \A l, m \in done : l # m => fds[l] # fds[m]
      BY <3>1 DEF V1!Opened
    <3>3. \A l \in Lines : state[o][l] \in LineState
      BY <1>0 DEF TypesV1
    <3> DEFINE row == [l \in Lines |-> IF l \in done THEN [state[o][l] EXCEPT !.pipe = fds[l]] ELSE state[o][l]]
    <3>4. /\ row \in [Lines -> LineState]
          /\ \A l \in Lines : /\ row[l].type = state[o][l].type /\ row[l].events = state[o][l].events
                              /\ l \in done => row[l].pipe = fds[l]
                              /\ l \notin done => row[l] = state[o][l]
      BY <3>2, <3>3 DEF LineState
    <3>5. state' = [state EXCEPT ![o] = row]
      BY <3>1
    <3> HIDE DEF row
    <3>6. state' \in [Owners -> [Lines -> LineState]]
      BY <1>0, <3>4, <3>5 DEF TypesV1
    <3>7. state'[o] = row /\ \A p \in Owners : p # o => state'[p] = state[p]
      BY <1>0, <3>5 DEF TypesV1
    <3>8. /\ pipes' \in [Pipes -> Nat \cup {None}]
          /\ \A p \in Pipes : pipes[p] # None => pipes'[p] = pipes[p]
          /\ \A l \in done : pipes'[fds[l]] = 0
      BY <1>0, <3>1, <3>2 DEF TypesV1
    <3>9. \A p \in Owners, m \in Lines : /\ state'[p][m].type = state[p][m].type
                                         /\ state'[p][m].events = state[p][m].events
                                         /\ p # o \/ m \notin done => state'[p][m] = state[p][m]
      BY <3>4, <3>7
    <3>10. \A l \in done : state'[o][l].pipe = fds[l]
      BY <3>4, <3>7
    <3>11. \A l \in done :
            /\ state'[o][l].pipe \in Pipes /\ pipes[state'[o][l].pipe] = None
            /\ pipes'[state'[o][l].pipe] = 0
            /\ \A m \in done : m # l => state'[o][m].pipe # state'[o][l].pipe
      BY <3>2, <3>8, <3>10
    <3>12. QED
      BY <3>6, <3>8, <3>9, <3>11
  <2>3. QED
    BY <2>1, <2>2
<1>8. \A p \in Owners, m \in Lines :
        state[p][m].pipe # None => state[p][m].pipe \in Pipes /\ pipes[state[p][m].pipe] # None
  BY <1>0 DEF TypesV1, LineState, V1!FdSignalsEvents, SensibleV1
(* A line has the pipe it had, or the one that was just opened for it. *)
<1>9. \A p \in Owners, m \in Lines :
        \/ state'[p][m] = state[p][m]
        \/ /\ p = o /\ m \in done /\ state'[p][m].pipe \in Pipes
           /\ pipes[state'[p][m].pipe] = None /\ pipes'[state'[p][m].pipe] = 0
  BY <1>7
<1>10. TypesV1'
  BY <1>0, <1>4, <1>5, <1>7 DEF TypesV1
<1>11. \A p \in Owners, m \in Lines : state[p][m].type # "none" => m \notin lines /\ held'[m] = p
  BY <1>0, <1>1, <1>5 DEF LinesInOrder, SensibleV1
<1>12. LinesInOrder'
  <2>1. ASSUME NEW p \in Owners, NEW m \in Lines
        PROVE  /\ state'[p][m].type # "none" => held'[m] = p
               /\ state'[p][m].type = "none" => state'[p][m].events = <<>>
               /\ state'[p][m].type \in V1!EventKinds => state'[p][m].pipe # None
               /\ Len(state'[p][m].events) <= EventBuffer
    <3>1. /\ state[p][m].type = "none" => state[p][m].events = <<>>
          /\ state[p][m].type \in V1!EventKinds => state[p][m].pipe # None
          /\ Len(state[p][m].events) <= EventBuffer
      BY <1>0 DEF LinesInOrder
    <3>2. state[p][m].type # "none" => m \notin lines /\ held'[m] = p
      BY <1>11
    <3>3. state'[p][m].type = state[p][m].type /\ state'[p][m].events = state[p][m].events
      BY <1>7
    <3>4. state'[p][m].type \in V1!EventKinds => state'[p][m].pipe # None
      <4>1. ASSUME state[p][m].type \in V1!EventKinds PROVE state'[p][m] = state[p][m]
        BY <1>7, <3>2, <4>1 DEF V1!EventKinds
      <4>2. QED
        BY <3>1, <3>3, <4>1
    <3>5. QED
      BY <3>1, <3>2, <3>3, <3>4
  <2>2. QED
    BY <2>1 DEF LinesInOrder
<1>13. Configuring'
  <2>1. ASSUME NEW p \in Owners, p # o, pc'[p] \in {"configure", "typed"}
        PROVE  /\ \A m \in call'[p].todo :
                    /\ held'[m] = p /\ state'[p][m].type \notin V1!EventKinds
                    /\ call'[p].kind \in V1!EventKinds => state'[p][m].pipe # None
               /\ pc'[p] = "typed" => \E m \in call'[p].todo : call'[p].pipes = {m}
    <3>1. pc'[p] = pc[p] /\ call'[p] = call[p] /\ call[p].todo \subseteq Lines
      BY <1>0, <1>4, <2>1, PlacesV1 DEF TypesV1, LineCall
    <3>2. /\ \A m \in call[p].todo :
               /\ held[m] = p /\ state[p][m].type \notin V1!EventKinds
               /\ call[p].kind \in V1!EventKinds => state[p][m].pipe # None
          /\ pc[p] = "typed" => \E m \in call[p].todo : call[p].pipes = {m}
      BY <1>0, <2>1, <3>1 DEF Configuring
    <3>3. \A m \in call[p].todo : m \notin lines
      BY <1>1, <3>2 DEF SensibleV1
    <3>4. \A m \in call[p].todo : held'[m] = held[m] /\ state'[p][m] = state[p][m]
      BY <1>5, <1>7, <3>1, <3>3
    <3>5. QED
      BY <3>1, <3>2, <3>4
  <2>2. pc'[o] = "configure" => \A m \in call'[o].todo :
            /\ held'[m] = o /\ state'[o][m].type \notin V1!EventKinds
            /\ call'[o].kind \in V1!EventKinds => state'[o][m].pipe # None
    BY <1>1, <1>5, <1>7 DEF SensibleV1, V1!EventKinds
  <2>3. QED
    BY <1>4, <2>1, <2>2 DEF Configuring
<1>14. Reading'
  <2>1. ASSUME NEW t \in Readers, pc'[t] \in {"read", "select"}
        PROVE  \E p \in Owners, m \in Lines :
                  call'[t].owner = p /\ call'[t].todo = {m} /\ state'[p][m].type \in V1!EventKinds
    <3>1. pc[t] \in {"read", "select"} /\ call'[t] = call[t]
      BY <1>4, <2>1, PlacesV1
    <3>2. PICK p \in Owners, m \in Lines :
             call[t].owner = p /\ call[t].todo = {m} /\ state[p][m].type \in V1!EventKinds
      BY <1>0, <3>1 DEF Reading
    <3>3. state'[p][m].type = state[p][m].type
      BY <1>7, <3>2
    <3>4. QED
      BY <3>1, <3>2, <3>3
  <2>2. QED
    BY <2>1 DEF Reading
<1>15. V1!FdSignalsEvents'
  <2>1. ASSUME NEW p \in Owners, NEW m \in Lines, state'[p][m].pipe # None
        PROVE  pipes'[state'[p][m].pipe] = Len(state'[p][m].events)
    <3>1. CASE state'[p][m] = state[p][m]
      BY <1>0, <1>7, <1>8, <2>1, <3>1 DEF V1!FdSignalsEvents
    <3>2. CASE p = o /\ m \in done /\ pipes'[state'[p][m].pipe] = 0
      <4>1. state'[p][m].events = <<>>
        BY <1>0, <1>1, <1>7, <3>2 DEF LinesInOrder
      <4>2. QED
        BY <3>2, <4>1
    <3>3. QED
      BY <1>9, <3>1, <3>2
  <2>2. QED
    BY <2>1 DEF V1!FdSignalsEvents
<1>16. OwnPipes'
  <2>1. ASSUME NEW a \in Owners, NEW l \in Lines, NEW p \in Owners, NEW m \in Lines,
               state'[a][l].pipe # None, state'[p][m].pipe = state'[a][l].pipe
        PROVE  a = p /\ l = m
    <3>1. CASE state'[a][l] = state[a][l] /\ state'[p][m] = state[p][m]
      BY <1>0, <2>1, <3>1 DEF OwnPipes
    <3>2. CASE state'[a][l] # state[a][l] /\ state'[p][m] # state[p][m]
      BY <1>7, <2>1, <3>2
    <3>3. CASE state'[a][l] = state[a][l] /\ state'[p][m] # state[p][m]
      BY <1>8, <1>9, <2>1, <3>3
    <3>4. CASE state'[a][l] # state[a][l] /\ state'[p][m] = state[p][m]
      BY <1>8, <1>9, <2>1, <3>4
    <3>5. QED
      BY <3>1, <3>2, <3>3, <3>4
  <2>2. ASSUME NEW a \in Owners, NEW d \in Owners, NEW m \in Lines, Closing(d)', state'[a][m].pipe # None
        PROVE  state'[a][m].pipe \notin call'[d].pipes
    <3>1. CASE state'[a][m] = state[a][m]
      BY <1>0, <1>6, <2>2, <3>1 DEF OwnPipes
    <3>2. CASE pipes[state'[a][m].pipe] = None
      BY <1>0, <1>6, <2>2, <3>2 DEF OwnPipes
    <3>3. QED
      BY <1>9, <3>1, <3>2
  <2>3. \A d \in Owners : Closing(d)' => \A fd \in call'[d].pipes : fd \in Pipes /\ pipes'[fd] # None
    BY <1>0, <1>6, <1>7 DEF OwnPipes
  <2>4. \A d, e \in Owners :
          Closing(d)' /\ Closing(e)' /\ d # e => call'[d].pipes \cap call'[e].pipes = {}
    BY <1>0, <1>6 DEF OwnPipes
  <2>5. QED
    BY <2>1, <2>2, <2>3, <2>4 DEF OwnPipes
<1>17. QED
  BY <1>10, <1>12, <1>13, <1>14, <1>15, <1>16 DEF InvV1

LEMMA RequestV1 ==
    ASSUME SensibleV1, InvV1, NEW o \in Owners, NEW lines \in Bulks, NEW kind \in Kinds,
           V1!request(o, lines, kind)
    PROVE  InvV1'
<1> DEFINE c == [V1!NoCall EXCEPT !.todo = lines, !.kind = kind]
<1>1. /\ pc[o] = "idle" /\ V1!AllFree(o, lines) /\ held' = V1!HeldFor(o, lines)
      /\ UNCHANGED <<pin, given>> /\ V1!Goto(o, "configure", c)
  BY DEF V1!request
<1>2. lines \in SUBSET Lines /\ kind \in V1!AllKinds
  BY DEF SensibleV1
<1>3. c \in LineCall /\ c.todo = lines /\ c.kind = kind
  BY <1>2, NoCallV1 DEF LineCall
<1> HIDE DEF c
<1>4. /\ pc' \in [Callers -> V1!Places] /\ call' \in [Callers -> LineCall] /\ pc'[o] = "configure" /\ call'[o] = c
      /\ \A u \in Callers : u # o => pc'[u] = pc[u] /\ call'[u] = call[u]
  BY <1>1, <1>3, GotoV1, PlacesV1 DEF V1!Places, InvV1
<1>5. CASE kind \in V1!EventKinds
  <2>1. \E fds \in [lines -> Pipes] : V1!Opened(o, fds)
    BY <1>5 DEF V1!request
  <2>2. QED
    BY <1>1, <1>2, <1>3, <1>4, <2>1, TakesLinesV1
<1>6. CASE kind \notin V1!EventKinds
  <2>1. UNCHANGED <<state, pipes>> /\ {} \in SUBSET lines
    BY <1>6 DEF V1!request
  <2>2. QED
    BY <1>1, <1>2, <1>3, <1>4, <1>6, <2>1, TakesLinesV1
<1>7. QED
  BY <1>5, <1>6

LEMMA RequestFailsV1 ==
    ASSUME SensibleV1, InvV1, NEW o \in Owners, NEW lines \in Bulks, V1!request_fails(o, lines)
    PROVE  InvV1'
<1>1. pc[o] = "idle" /\ V1!AllFree(o, lines) /\ UNCHANGED <<pin, given, pc, call>>
  BY DEF V1!request_fails
<1>2. PICK done \in SUBSET lines : /\ \E fds \in [done -> Pipes] : V1!Opened(o, fds)
                                    /\ \E l \in lines \ done : held' = V1!HeldFor(o, done \cup {l})
  BY DEF V1!request_fails
<1>2a. PICK l \in lines \ done : held' = V1!HeldFor(o, done \cup {l})
  BY <1>2
<1>3. PICK some \in SUBSET Lines : some = done \cup {l}
  BY DEF SensibleV1
<1>4. done \in SUBSET some /\ V1!AllFree(o, some) /\ held' = V1!HeldFor(o, some)
  BY <1>1, <1>2a, <1>3 DEF V1!AllFree
<1>5. pc' \in [Callers -> V1!Places] /\ call' \in [Callers -> LineCall]
  BY <1>1 DEF InvV1, TypesV1
<1>6. QED
  BY <1>1, <1>2, <1>4, <1>5, TakesLinesV1

LEMMA NextInvV1 == ASSUME SensibleV1, InvV1, [V1!Next]_V1!vars PROVE InvV1'
<1>1. ASSUME NEW o \in Owners, V1!Owner(o) PROVE InvV1'
  <2>1. ASSUME NEW kind \in Kinds, NEW lines \in Bulks, V1!request(o, lines, kind) PROVE InvV1'
    BY <2>1, RequestV1
  <2>1a. ASSUME NEW lines \in Bulks, V1!request_fails(o, lines) PROVE InvV1'
    BY <2>1a, RequestFailsV1
  <2>2. ASSUME NEW kind \in Kinds, NEW l \in Lines, V1!set_config(o, l, kind) PROVE InvV1'
    BY <2>2, SetConfigV1
  <2>3. ASSUME NEW l \in Lines, V1!release(o, l) \/ V1!set_values(o, l) PROVE InvV1'
    BY <2>3, ReleaseV1, LevelsV1
  <2>4. CASE V1!configure(o) \/ V1!typed(o) \/ V1!release_pin(o) \/ V1!close(o)
    BY <2>4, ConfigureV1, TypedV1, ReleasePinV1, CloseV1
  <2>5. QED
    BY <1>1, <2>1, <2>1a, <2>2, <2>3, <2>4 DEF V1!Owner
<1>2. ASSUME NEW t \in Readers, V1!Reader(t) PROVE InvV1'
  BY <1>2, EventReadV1, ReadV1, WakesV1 DEF V1!Reader
<1>3. ASSUME NEW t \in Drivers, V1!Driver(t) PROVE InvV1'
  BY <1>3, LevelsV1, OnChangeV1 DEF V1!Driver
<1>4. CASE UNCHANGED V1!vars
  BY <1>4, PinOnlyV1 DEF V1!vars, InvV1, TypesV1
<1>5. QED
  BY <1>1, <1>2, <1>3, <1>4 DEF V1!Next

-----------------------------------------------------------------------------
(* Why a line is held: it is requested, or about to be, or a request that  *)
(* ran out of descriptors has left it so.                                  *)
Reasons ==
    /\ stranded \subseteq Lines
    /\ \A l \in Lines : held[l] # None =>
          V1!Requested(held[l], l) \/ V1!BeingRequested(held[l], l) \/ l \in stranded

LEMMA ReasonsRemain ==
    ASSUME TypesV1, Reasons, stranded \subseteq stranded', stranded' \subseteq Lines,
           \A l \in Lines : \/ held'[l] = held[l] \/ held'[l] = None \/ l \in stranded'
                            \/ \E o \in Owners : held'[l] = o /\ V1!BeingRequested(o, l)',
           \A o \in Owners, l \in Lines : V1!Requested(o, l) \/ V1!BeingRequested(o, l) =>
                held'[l] # o \/ V1!Requested(o, l)' \/ V1!BeingRequested(o, l)'
    PROVE  Reasons'
<1>1. ASSUME NEW l \in Lines, held'[l] # None, l \notin stranded'
      PROVE  \E o \in Owners : held'[l] = o /\ (V1!Requested(o, l)' \/ V1!BeingRequested(o, l)')
  <2>1. CASE held'[l] = held[l]
    <3>1. PICK o \in Owners : o = held[l]
      BY <1>1, <2>1 DEF TypesV1
    <3>2. V1!Requested(o, l) \/ V1!BeingRequested(o, l)
      BY <1>1, <2>1, <3>1 DEF Reasons
    <3>3. QED
      BY <2>1, <3>1, <3>2
  <2>2. QED
    BY <1>1, <2>1
<1>2. ASSUME NEW l \in Lines, held'[l] # None
      PROVE  \/ l \in stranded' \/ state'[held'[l]][l].type # "none"
             \/ pc'[held'[l]] \in {"configure", "typed"} /\ l \in call'[held'[l]].todo
  <2>1. CASE l \notin stranded'
    <3>1. PICK o \in Owners : held'[l] = o /\ (V1!Requested(o, l)' \/ V1!BeingRequested(o, l)')
      BY <1>1, <1>2, <2>1
    <3>2. QED
      BY <3>1 DEF V1!Requested, V1!BeingRequested
  <2>2. QED
    BY <2>1
<1>3. QED
  BY <1>2 DEF Reasons, V1!Requested, V1!BeingRequested

(* Steps of threads that configure nothing, to lines that keep their type. *)
LEMMA ReasonsElsewhere ==
    ASSUME TypesV1, Reasons, UNCHANGED <<held, stranded>>, NEW t \in Callers, pc[t] \notin {"configure", "typed"},
           \A u \in Callers : u # t => pc'[u] = pc[u] /\ call'[u] = call[u],
           \A o \in Owners, l \in Lines : state'[o][l].type = state[o][l].type
    PROVE  Reasons'
<1>1. \A o \in Owners, l \in Lines : V1!Requested(o, l) => V1!Requested(o, l)'
  BY DEF V1!Requested
<1>2. \A o \in Owners, l \in Lines : V1!BeingRequested(o, l) => V1!BeingRequested(o, l)'
  BY PlacesV1 DEF V1!BeingRequested
<1>3. stranded \subseteq stranded' /\ stranded' \subseteq Lines
  BY DEF Reasons
<1>4. QED
  BY <1>1, <1>2, <1>3, ReasonsRemain

(* A line of a chip, or none, gets a type. *)
LEMMA ReasonsTyped ==
    ASSUME TypesV1, Reasons, UNCHANGED <<held, stranded>>, NEW o \in Owners, NEW l \in Lines,
           NEW kind \in V1!AllKinds, state' = [state EXCEPT ![o][l].type = kind],
           \A u \in Callers : u # o => pc'[u] = pc[u] /\ call'[u] = call[u],
           \A m \in Lines : V1!BeingRequested(o, m) => m = l \/ V1!BeingRequested(o, m)'
    PROVE  Reasons'
<1>1. kind # "none"
  BY DEF V1!AllKinds, V1!EventKinds
<1>2. state'[o][l].type = kind
  BY DEF TypesV1
<1>2a. \A p \in Owners, m \in Lines : p # o \/ m # l => state'[p][m] = state[p][m]
  BY TypeBecomes
<1>3. \A p \in Owners, m \in Lines : V1!Requested(p, m) => V1!Requested(p, m)'
  BY <1>1, <1>2, <1>2a DEF V1!Requested
<1>4. V1!Requested(o, l)'
  BY <1>1, <1>2 DEF V1!Requested
<1>5. \A p \in Owners, m \in Lines : V1!BeingRequested(p, m) =>
        V1!BeingRequested(p, m)' \/ V1!Requested(p, m)'
  <2>1. \A p \in Owners, m \in Lines : p # o /\ V1!BeingRequested(p, m) => V1!BeingRequested(p, m)'
    BY PlacesV1 DEF V1!BeingRequested
  <2>2. QED
    BY <1>4, <2>1
<1>6. stranded \subseteq stranded' /\ stranded' \subseteq Lines
  BY DEF Reasons
<1>7. QED
  BY <1>3, <1>5, <1>6, ReasonsRemain

LEMMA ReasonsRequested ==
    ASSUME SensibleV1, InvV1, Reasons, NEW o \in Owners,
           (\E lines \in Bulks, kind \in Kinds : V1!request(o, lines, kind))
           \/ \E lines \in Bulks : V1!request_fails(o, lines)
    PROVE  Reasons'
<1>0. TypesV1
  BY DEF InvV1
<1>1. ASSUME NEW lines \in Bulks, NEW kind \in Kinds, V1!request(o, lines, kind) PROVE Reasons'
  <2> DEFINE c == [V1!NoCall EXCEPT !.todo = lines, !.kind = kind]
  <2>1. /\ pc[o] = "idle" /\ V1!AllFree(o, lines) /\ held' = V1!HeldFor(o, lines)
        /\ V1!Goto(o, "configure", c) /\ UNCHANGED stranded
    BY <1>1 DEF V1!request
  <2>2. c \in LineCall /\ c.todo = lines
    BY NoCallV1 DEF LineCall, SensibleV1
  <2> HIDE DEF c
  <2>3. /\ pc'[o] = "configure" /\ call'[o].todo = lines
        /\ \A u \in Callers : u # o => pc'[u] = pc[u] /\ call'[u] = call[u]
    BY <1>0, <2>1, <2>2, GotoV1, PlacesV1 DEF V1!Places
  <2>4. \A p \in Owners, m \in Lines : state'[p][m].type = state[p][m].type
    BY <1>0, <1>1, OpenedV1 DEF V1!request, SensibleV1
  <2>5. \A l \in Lines : held'[l] = held[l] \/ (held'[l] = o /\ V1!BeingRequested(o, l)')
    BY <1>0, <2>1, <2>3 DEF V1!HeldFor, V1!BeingRequested
  <2>6. \A p \in Owners, m \in Lines : V1!Requested(p, m) => V1!Requested(p, m)'
    BY <2>4 DEF V1!Requested
  <2>7. \A p \in Owners, m \in Lines : V1!BeingRequested(p, m) => V1!BeingRequested(p, m)'
    BY <2>1, <2>3, PlacesV1 DEF V1!BeingRequested
  <2>8. stranded \subseteq stranded' /\ stranded' \subseteq Lines
    BY <2>1 DEF Reasons
  <2>9. QED
    BY <1>0, <2>5, <2>6, <2>7, <2>8, ReasonsRemain
<1>2. ASSUME NEW lines \in Bulks, V1!request_fails(o, lines) PROVE Reasons'
  <2>1. PICK done \in SUBSET lines :
          /\ \E fds \in [done -> Pipes] : V1!Opened(o, fds)
          /\ \E l \in lines \ done : /\ held' = V1!HeldFor(o, done \cup {l})
                                     /\ stranded' = stranded \cup done \cup {l}
    BY <1>2 DEF V1!request_fails
  <2>2. PICK l \in lines \ done : /\ held' = V1!HeldFor(o, done \cup {l})
                                  /\ stranded' = stranded \cup done \cup {l}
    BY <2>1
  <2>3. lines \subseteq Lines /\ UNCHANGED <<pc, call>>
    BY <1>2 DEF SensibleV1, V1!request_fails
  <2>4. \A p \in Owners, m \in Lines : state'[p][m].type = state[p][m].type
    BY <1>0, <2>1, <2>3, OpenedV1
  <2>5. \A m \in Lines : held'[m] = held[m] \/ m \in stranded'
    BY <1>0, <2>2 DEF V1!HeldFor
  <2>6. \A p \in Owners, m \in Lines : V1!Requested(p, m) => V1!Requested(p, m)'
    BY <2>4 DEF V1!Requested
  <2>7. \A p \in Owners, m \in Lines : V1!BeingRequested(p, m) => V1!BeingRequested(p, m)'
    BY <2>3 DEF V1!BeingRequested
  <2>8. stranded \subseteq stranded' /\ stranded' \subseteq Lines
    BY <2>2, <2>3 DEF Reasons
  <2>9. QED
    BY <1>0, <2>5, <2>6, <2>7, <2>8, ReasonsRemain
<1>3. QED
  BY <1>1, <1>2

LEMMA ReasonsConfigured ==
    ASSUME SensibleV1, InvV1, Reasons, NEW o \in Owners, V1!configure(o) \/ V1!typed(o)
    PROVE  Reasons'
<1>0. TypesV1 /\ call[o] \in LineCall /\ UNCHANGED <<held, stranded>>
  BY PlacesV1 DEF InvV1, TypesV1, V1!configure, V1!typed
<1>1. CASE V1!configure(o)
  <2>1. PICK l \in call[o].todo :
          LET kind == IF call[o].kind \in V1!EventKinds THEN "in" ELSE call[o].kind
          IN  /\ state' = [state EXCEPT ![o][l].type = kind]
              /\ V1!Goto(o, "typed", [call[o] EXCEPT !.pipes = {l}])
    BY <1>1 DEF V1!configure
  <2>2. PICK kind \in V1!AllKinds : state' = [state EXCEPT ![o][l].type = kind]
    BY <1>0, <2>1 DEF LineCall, V1!AllKinds
  <2> DEFINE c == [call[o] EXCEPT !.pipes = {l}]
  <2>3. c \in LineCall /\ c.todo = call[o].todo /\ V1!Goto(o, "typed", c) /\ l \in Lines
    BY <1>0, <2>1 DEF LineCall
  <2> HIDE DEF c
  <2>4. /\ pc'[o] = "typed" /\ call'[o].todo = call[o].todo
        /\ \A u \in Callers : u # o => pc'[u] = pc[u] /\ call'[u] = call[u]
    BY <1>0, <2>3, GotoV1, PlacesV1 DEF V1!Places
  <2>5. \A m \in Lines : V1!BeingRequested(o, m) => V1!BeingRequested(o, m)'
    BY <2>4 DEF V1!BeingRequested
  <2>6. QED
    BY <1>0, <2>2, <2>3, <2>4, <2>5, ReasonsTyped
<1>2. CASE V1!typed(o)
  <2>1. PICK l \in call[o].todo : call[o].pipes = {l}
    BY <1>2 DEF InvV1, Configuring, V1!typed
  <2>2. /\ state' = [state EXCEPT ![o][l].type = call[o].kind]
        /\ IF call[o].todo = {l} THEN V1!Return(o)
           ELSE V1!Goto(o, "configure", [call[o] EXCEPT !.todo = @ \ {l}, !.pipes = {}])
    BY <1>2, <2>1 DEF V1!typed
  <2>3. l \in Lines /\ call[o].kind \in V1!AllKinds
    BY <1>0 DEF LineCall
  <2>4. \A u \in Callers : u # o => pc'[u] = pc[u] /\ call'[u] = call[u]
    BY <1>0, <2>2 DEF V1!Return, V1!Goto, TypesV1
  <2>5. \A m \in Lines : V1!BeingRequested(o, m) => m = l \/ V1!BeingRequested(o, m)'
    <3>1. CASE call[o].todo = {l}
      BY <3>1 DEF V1!BeingRequested
    <3>2. CASE call[o].todo # {l}
      <4>1. pc'[o] = "configure" /\ call'[o] = [call[o] EXCEPT !.todo = @ \ {l}, !.pipes = {}]
        BY <1>0, <2>2, <3>2, PlacesV1 DEF V1!Goto, TypesV1
      <4>2. call'[o].todo = call[o].todo \ {l}
        BY <1>0, <4>1 DEF LineCall
      <4>3. QED
        BY <4>1, <4>2 DEF V1!BeingRequested
    <3>3. QED
      BY <3>1, <3>2
  <2>6. QED
    BY <1>0, <2>2, <2>3, <2>4, <2>5, ReasonsTyped
<1>3. QED
  BY <1>1, <1>2

LEMMA ReasonsReleased ==
    ASSUME SensibleV1, InvV1, Reasons, NEW o \in Owners, NEW l \in Lines, V1!release(o, l)
    PROVE  Reasons'
<1>0. TypesV1 /\ LinesInOrder
  BY DEF InvV1
<1>1. /\ pc[o] = "idle" /\ state[o][l].type # "none" /\ UNCHANGED stranded
      /\ held' = [held EXCEPT ![l] = IF @ = o THEN None ELSE @]
      /\ state' = [state EXCEPT ![o][l] = V1!Unrequested]
      /\ \A u \in Callers : u # o => pc'[u] = pc[u] /\ call'[u] = call[u]
  BY <1>0 DEF V1!release, V1!Requested, V1!Goto, TypesV1
<1>2. held[l] = o
  BY <1>0, <1>1 DEF LinesInOrder
<1>3. \A m \in Lines : held'[m] = IF m = l THEN None ELSE held[m]
  BY <1>0, <1>1, <1>2 DEF TypesV1
<1>4. \A p \in Owners, m \in Lines : p # o \/ m # l => state'[p][m] = state[p][m]
  BY <1>0, <1>1 DEF TypesV1
<1>5. \A p \in Owners, m \in Lines : V1!Requested(p, m) => held'[m] # p \/ V1!Requested(p, m)'
  BY <1>3, <1>4 DEF V1!Requested, SensibleV1
<1>6. \A p \in Owners, m \in Lines : V1!BeingRequested(p, m) => V1!BeingRequested(p, m)'
  BY <1>1, PlacesV1 DEF V1!BeingRequested
<1>7. stranded \subseteq stranded' /\ stranded' \subseteq Lines
  BY <1>1 DEF Reasons
<1>8. \A m \in Lines : held'[m] = held[m] \/ held'[m] = None
  BY <1>3
<1>9. QED
  BY <1>0, <1>5, <1>6, <1>7, <1>8, ReasonsRemain

LEMMA ReasonsNext ==
    ASSUME SensibleV1, InvV1, Reasons, [V1!Next]_V1!vars PROVE Reasons'
<1>0. TypesV1
  BY DEF InvV1
<1>1. ASSUME NEW o \in Owners, V1!Owner(o) PROVE Reasons'
  <2>1. CASE \/ \E lines \in Bulks, kind \in Kinds : V1!request(o, lines, kind)
             \/ \E lines \in Bulks : V1!request_fails(o, lines)
    BY <2>1, ReasonsRequested
  <2>2. ASSUME NEW kind \in Kinds, NEW l \in Lines, V1!set_config(o, l, kind) PROVE Reasons'
    <3>1. UNCHANGED <<held, stranded, pc, call>> /\ pc[o] = "idle"
      BY <2>2 DEF V1!set_config
    <3>2. PICK to \in V1!AllKinds : state' = [state EXCEPT ![o][l].type = to]
      BY <2>2 DEF V1!set_config, SensibleV1, V1!AllKinds
    <3>3. \A m \in Lines : ~V1!BeingRequested(o, m)
      BY <3>1 DEF V1!BeingRequested
    <3>4. QED
      BY <1>0, <3>1, <3>2, <3>3, ReasonsTyped
  <2>3. CASE V1!configure(o) \/ V1!typed(o)
    BY <2>3, ReasonsConfigured
  <2>4. ASSUME NEW l \in Lines, V1!release(o, l) PROVE Reasons'
    BY <2>4, ReasonsReleased
  <2>5. ASSUME V1!release_pin(o) \/ V1!close(o) \/ \E l \in Lines : V1!set_values(o, l) PROVE Reasons'
    <3>1. /\ UNCHANGED <<held, state, stranded>> /\ pc[o] \notin {"configure", "typed"}
          /\ \A u \in Callers : u # o => pc'[u] = pc[u] /\ call'[u] = call[u]
      BY <1>0, <2>5 DEF V1!release_pin, V1!close, V1!set_values, V1!Return, V1!Goto, TypesV1
    <3>2. QED
      BY <1>0, <3>1, PlacesV1, ReasonsElsewhere
  <2>6. QED
    BY <1>1, <2>1, <2>2, <2>3, <2>4, <2>5 DEF V1!Owner
<1>2. ASSUME NEW t \in Readers, V1!Reader(t) PROVE Reasons'
  <2>1. /\ UNCHANGED <<held, stranded>> /\ pc[t] \notin {"configure", "typed"}
        /\ \A u \in Callers : u # t => pc'[u] = pc[u] /\ call'[u] = call[u]
    BY <1>0, <1>2 DEF V1!Reader, V1!event_read, V1!read, V1!wakes, V1!Return, V1!Goto, TypesV1
  <2>2. \A o \in Owners, l \in Lines : state'[o][l].type = state[o][l].type
    <3>1. CASE UNCHANGED state
      BY <3>1
    <3>2. ASSUME NEW o \in Owners, NEW l \in Lines, NEW q, state' = [state EXCEPT ![o][l].events = q]
          PROVE  \A p \in Owners, m \in Lines : state'[p][m].type = state[p][m].type
      BY <1>0, <3>2 DEF TypesV1, LineState
    <3>3. CASE V1!read(t)
      <4>1. PICK l \in call[t].todo :
              \/ UNCHANGED state
              \/ \E n : state' = [state EXCEPT ![call[t].owner][l].events = SubSeq(@, n + 1, Len(@))]
        BY <3>3 DEF V1!read
      <4>2. PICK o \in Owners : call[t].owner = o /\ call[t].todo \subseteq Lines
        BY <3>3, PlacesV1, <1>0 DEF V1!read, InvV1, Reading, TypesV1, LineCall
      <4>3. QED
        BY <3>1, <3>2, <4>1, <4>2
    <3>4. QED
      BY <1>2, <3>1, <3>3 DEF V1!Reader, V1!event_read, V1!wakes
  <2>3. QED
    BY <1>0, <2>1, <2>2, PlacesV1, ReasonsElsewhere
<1>3. ASSUME NEW t \in Drivers, V1!Driver(t) PROVE Reasons'
  <2>1. /\ UNCHANGED <<held, stranded>> /\ pc[t] \notin {"configure", "typed"}
        /\ \A u \in Callers : u # t => pc'[u] = pc[u] /\ call'[u] = call[u]
    BY <1>0, <1>3 DEF V1!Driver, V1!change, V1!on_change, V1!Return, V1!Goto, TypesV1
  <2>2. \A o \in Owners, l \in Lines : state'[o][l].type = state[o][l].type
    <3>1. ASSUME NEW o \in Owners, NEW l \in Lines, NEW q, state' = [state EXCEPT ![o][l].events = q]
          PROVE  \A p \in Owners, m \in Lines : state'[p][m].type = state[p][m].type
      BY <1>0, <3>1 DEF TypesV1, LineState
    <3>2. CASE V1!on_change(t)
      <4>1. CASE UNCHANGED <<state, pipes, given>>
        BY <4>1
      <4>2. CASE ~UNCHANGED <<state, pipes, given>>
        <5>1. PICK o \in Owners, l \in Lines :
                state' = [state EXCEPT ![o][l].events = Append(@, <<l, given[o][l] + 1>>)]
          BY <3>2, <4>2, OnChangeStep
        <5>2. QED
          BY <3>1, <5>1
      <4>3. QED
        BY <4>1, <4>2
    <3>3. QED
      BY <1>3, <3>2 DEF V1!Driver, V1!change
  <2>3. QED
    BY <1>0, <2>1, <2>2, PlacesV1, ReasonsElsewhere
<1>4. CASE UNCHANGED V1!vars
  BY <1>4 DEF V1!vars, Reasons, V1!Requested, V1!BeingRequested
<1>5. QED
  BY <1>1, <1>2, <1>3, <1>4 DEF V1!Next

LEMMA ReasonsInit == ASSUME V1!Init PROVE Reasons
BY DEF V1!Init, Reasons

LEMMA ReasonsHold == ASSUME SensibleV1 PROVE V1!Spec => [](InvV1 /\ Reasons)
<1>1. V1!Init => InvV1 /\ Reasons
  BY InitV1, ReasonsInit
<1>2. InvV1 /\ Reasons /\ [V1!Next]_V1!vars => InvV1' /\ Reasons'
  BY NextInvV1, ReasonsNext
<1>3. QED
  BY <1>1, <1>2, PTL DEF V1!Spec

(* The types of gpiod v1's lines, chips and pipes. *)
THEOREM LinesTypeCorrect == ASSUME SensibleV1 PROVE V1!Spec => []V1!TypeOK
<1>1. V1!Spec => [](InvV1 /\ Reasons)
  BY ReasonsHold
<1>2. InvV1 /\ Reasons => V1!TypeOK
  <2> SUFFICES ASSUME InvV1, Reasons PROVE V1!TypeOK
    OBVIOUS
  <2>1. \A o \in Owners, l \in Lines : state[o][l].type \in V1!AllKinds \cup {"none"}
    BY DEF InvV1, TypesV1, LineState
  <2>2. pipes \in [Pipes -> Int \cup {None}]
    BY DEF InvV1, TypesV1
  <2>3. QED
    BY <2>1, <2>2 DEF InvV1, TypesV1, Reasons, V1!TypeOK, Callers, V1!Callers
<1>3. QED
  BY <1>1, <1>2, PTL

(* gpiod_v1_stub: a requested line is held by its chip alone, and a line   *)
(* is held only by a chip that has requested it, or whose request has still *)
(* to configure it, but for those that a request which ran out of          *)
(* descriptors left behind: the v1 conjunct of the run's OneHolder.        *)
THEOREM LinesHeldOnce == ASSUME SensibleV1 PROVE V1!Spec => []V1!OneHolder
<1>1. V1!Spec => [](InvV1 /\ Reasons)
  BY ReasonsHold
<1>2. InvV1 /\ Reasons => V1!OneHolder
  BY DEF InvV1, LinesInOrder, Reasons, V1!OneHolder, V1!Requested
<1>3. QED
  BY <1>1, <1>2, PTL

(* gpiod_v1_stub.py:7: a line's descriptor holds a byte for each event     *)
(* that waits, whoever else requests and releases lines, and however late  *)
(* an edge comes: the v1 conjunct of the run's EventsWakeReaders.          *)
THEOREM FdsSignalEvents == ASSUME SensibleV1 PROVE V1!Spec => []V1!FdSignalsEvents
<1>1. V1!Init => InvV1
  BY InitV1
<1>2. InvV1 /\ [V1!Next]_V1!vars => InvV1'
  BY NextInvV1
<1>3. InvV1 => V1!FdSignalsEvents
  BY DEF InvV1
<1>4. QED
  BY <1>1, <1>2, <1>3, PTL DEF V1!Spec

-----------------------------------------------------------------------------
(* Each line's buffer of each chip is an EventQueue. *)

LEMMA Pairs == \A q \in Owners \X Lines : q[1] \in Owners /\ q[2] \in Lines /\ q = <<q[1], q[2]>>
OBVIOUS

LEMMA OnChangePuts ==
    ASSUME SensibleV1, InvV1, NEW t \in Drivers, V1!on_change(t)
    PROVE  [V1!Buffer!Next]_V1!Buffer!vars
<1> DEFINE queue == [q \in Owners \X Lines |-> state[q[1]][q[2]].events]
           counts == [q \in Owners \X Lines |->
                        [l \in Lines |-> IF l = q[2] THEN given[q[1]][l] ELSE 0]]
<1>1. CASE UNCHANGED <<state, pipes, given>>
  BY <1>1 DEF V1!Buffer!vars
<1>2. ASSUME NEW o \in Owners, NEW l \in Lines,
             state[o][l].type \in V1!EventKinds, Len(state[o][l].events) < EventBuffer,
             given' = [given EXCEPT ![o][l] = @ + 1],
             state' = [state EXCEPT ![o][l].events = Append(@, <<l, given[o][l] + 1>>)]
      PROVE  V1!Buffer!Next
  <2>1. /\ state \in [Owners -> [Lines -> LineState]] /\ given \in [Owners -> [Lines -> Nat]]
        /\ state[o][l] \in LineState
    BY DEF InvV1, TypesV1
  <2>2. /\ state'[o][l].events = Append(state[o][l].events, <<l, given[o][l] + 1>>)
        /\ \A p \in Owners, m \in Lines : p # o \/ m # l => state'[p][m].events = state[p][m].events
    BY <1>2, <2>1 DEF LineState
  <2>3. /\ given'[o][l] = given[o][l] + 1
        /\ \A p \in Owners, m \in Lines : p # o \/ m # l => given'[p][m] = given[p][m]
    BY <1>2, <2>1
  <2>4. ASSUME NEW q \in Owners \X Lines, q # <<o, l>>
        PROVE  queue'[q] = queue[q] /\ counts'[q] = counts[q]
    <3>1. PICK p \in Owners, m \in Lines : q = <<p, m>> /\ q[1] = p /\ q[2] = m
      BY Pairs
    <3>2. p # o \/ m # l
      BY <2>4, <3>1
    <3>3. state'[p][m].events = state[p][m].events /\ given'[p][m] = given[p][m]
      BY <2>2, <2>3, <3>2
    <3>4. queue'[q] = queue[q]
      BY <3>1, <3>3
    <3>5. counts[q] = [k \in Lines |-> IF k = m THEN given[p][k] ELSE 0]
      BY <3>1
    <3>6. counts'[q] = [k \in Lines |-> IF k = m THEN given'[p][k] ELSE 0]
      BY <3>1
    <3>7. counts'[q] = counts[q]
      BY <3>3, <3>5, <3>6
    <3>8. QED
      BY <3>4, <3>7
  <2>5. /\ <<o, l>> \in Owners \X Lines
        /\ queue[<<o, l>>] = state[o][l].events /\ queue'[<<o, l>>] = state'[o][l].events
        /\ counts[<<o, l>>] = [m \in Lines |-> IF m = l THEN given[o][m] ELSE 0]
        /\ counts'[<<o, l>>] = [m \in Lines |-> IF m = l THEN given'[o][m] ELSE 0]
    OBVIOUS
  <2>6. /\ counts[<<o, l>>][l] = given[o][l]
        /\ counts'[<<o, l>>] = [counts[<<o, l>>] EXCEPT ![l] = @ + 1]
    <3> DEFINE old == [m \in Lines |-> IF m = l THEN given[o][m] ELSE 0]
               now == [m \in Lines |-> IF m = l THEN given'[o][m] ELSE 0]
    <3>1. old[l] = given[o][l] /\ now = [old EXCEPT ![l] = @ + 1]
      BY <2>3
    <3>2. counts[<<o, l>>] = old /\ counts'[<<o, l>>] = now
      BY <2>5
    <3> HIDE DEF old, now, counts
    <3>3. QED
      BY <3>1, <3>2
  <2>7. DOMAIN queue = Owners \X Lines /\ DOMAIN queue' = Owners \X Lines
        /\ DOMAIN counts = Owners \X Lines /\ DOMAIN counts' = Owners \X Lines
        /\ queue = [q \in Owners \X Lines |-> queue[q]] /\ queue' = [q \in Owners \X Lines |-> queue'[q]]
        /\ counts = [q \in Owners \X Lines |-> counts[q]]
        /\ counts' = [q \in Owners \X Lines |-> counts'[q]]
    OBVIOUS
  <2>8. Len(queue[<<o, l>>]) < EventBuffer
    BY <1>2, <2>5
  <2> HIDE DEF queue, counts
  <2>9. queue' = [queue EXCEPT ![<<o, l>>] = Append(@, <<l, counts[<<o, l>>][l] + 1>>)]
    <3>1. queue'[<<o, l>>] = Append(queue[<<o, l>>], <<l, counts[<<o, l>>][l] + 1>>)
      BY <2>2, <2>5, <2>6
    <3>2. \A q \in Owners \X Lines : q # <<o, l>> => queue'[q] = queue[q]
      BY <2>4
    <3> DEFINE longer == Append(queue[<<o, l>>], <<l, counts[<<o, l>>][l] + 1>>)
    <3> HIDE DEF longer
    <3>3. queue' = [queue EXCEPT ![<<o, l>>] = longer]
      BY <2>5, <2>7, <3>1, <3>2 DEF longer
    <3>4. QED
      BY <3>3 DEF longer
  <2>10. counts' = [counts EXCEPT ![<<o, l>>][l] = @ + 1]
    BY <2>4, <2>5, <2>6, <2>7
  <2>11. V1!Buffer!Put(<<o, l>>, l)
    BY <2>8, <2>9, <2>10 DEF V1!Buffer!Put, queue, counts
  <2>12. QED
    BY <2>5, <2>11 DEF V1!Buffer!Next
<1>3. QED
  BY <1>1, <1>2, OnChangeStep

LEMMA ReadTakesV1 ==
    ASSUME SensibleV1, InvV1, NEW t \in Readers, V1!read(t)
    PROVE  [V1!Buffer!Next]_V1!Buffer!vars
<1> DEFINE queue == [q \in Owners \X Lines |-> state[q[1]][q[2]].events]
<1>1. CASE UNCHANGED <<state, pipes, given>>
  BY <1>1 DEF V1!Buffer!vars
<1>2. ASSUME NEW o \in Owners, NEW l \in Lines, NEW n \in 1..Len(state[o][l].events),
             state[o][l].type \in V1!EventKinds, given' = given,
             state' = [state EXCEPT ![o][l].events = SubSeq(@, n + 1, Len(@))]
      PROVE  V1!Buffer!Next
  <2>1. state \in [Owners -> [Lines -> LineState]] /\ state[o][l] \in LineState
    BY DEF InvV1, TypesV1
  <2>2. /\ state'[o][l].events = SubSeq(state[o][l].events, n + 1, Len(state[o][l].events))
        /\ \A p \in Owners, m \in Lines : p # o \/ m # l => state'[p][m].events = state[p][m].events
    BY <1>2, <2>1 DEF LineState
  <2>3. \A q \in Owners \X Lines : q # <<o, l>> => queue'[q] = queue[q]
    BY <2>2, Pairs
  <2>4. /\ <<o, l>> \in Owners \X Lines
        /\ queue[<<o, l>>] = state[o][l].events /\ queue'[<<o, l>>] = state'[o][l].events
    OBVIOUS
  <2>5. queue = [q \in Owners \X Lines |-> queue[q]] /\ queue' = [q \in Owners \X Lines |-> queue'[q]]
    OBVIOUS
  <2>6. n <= Len(queue[<<o, l>>]) /\ n \in 1..EventBuffer
    <3>1. Len(state[o][l].events) \in Nat /\ Len(state[o][l].events) <= EventBuffer
      BY <1>2, LineFacts
    <3>2. QED
      BY <2>4, <3>1 DEF SensibleV1
  <2> HIDE DEF queue
  <2>7. queue' = [queue EXCEPT ![<<o, l>>] = SubSeq(@, n + 1, Len(@))]
    BY <2>2, <2>3, <2>4, <2>5
  <2>8. V1!Buffer!Take(<<o, l>>, n)
    BY <1>2, <2>6, <2>7 DEF V1!Buffer!Take, queue
  <2>9. QED
    BY <2>4, <2>6, <2>8 DEF V1!Buffer!Next
<1>3. QED
  BY <1>1, <1>2, ReadStep

LEMMA ReleaseDropsV1 ==
    ASSUME InvV1, NEW o \in Owners, NEW l \in Lines, V1!release(o, l)
    PROVE  V1!Buffer!Next
<1> DEFINE queue == [q \in Owners \X Lines |-> state[q[1]][q[2]].events]
<1>1. /\ state \in [Owners -> [Lines -> LineState]] /\ given' = given
      /\ state' = [state EXCEPT ![o][l] = V1!Unrequested]
  BY DEF InvV1, TypesV1, V1!release
<1>2. /\ state'[o][l].events = <<>>
      /\ \A p \in Owners, m \in Lines : p # o \/ m # l => state'[p][m].events = state[p][m].events
  BY <1>1 DEF V1!Unrequested
<1>3. \A q \in Owners \X Lines : q # <<o, l>> => queue'[q] = queue[q]
  BY <1>2, Pairs
<1>4. <<o, l>> \in Owners \X Lines /\ queue'[<<o, l>>] = state'[o][l].events
  OBVIOUS
<1>5. queue = [q \in Owners \X Lines |-> queue[q]] /\ queue' = [q \in Owners \X Lines |-> queue'[q]]
  OBVIOUS
<1> HIDE DEF queue
<1>6. queue' = [queue EXCEPT ![<<o, l>>] = <<>>]
  BY <1>2, <1>3, <1>4, <1>5
<1>7. V1!Buffer!Drop(<<o, l>>)
  BY <1>1, <1>6 DEF V1!Buffer!Drop, queue
<1>8. QED
  BY <1>4, <1>7 DEF V1!Buffer!Next

(* The owners' other steps leave the events alone. *)
LEMMA OwnersStutterV1 ==
    ASSUME SensibleV1, InvV1, NEW o \in Owners,
           \/ \E lines \in Bulks : V1!request_fails(o, lines)
           \/ \E kind \in Kinds :
                \/ \E lines \in Bulks : V1!request(o, lines, kind)
                \/ \E l \in Lines : V1!set_config(o, l, kind)
           \/ V1!configure(o) \/ V1!typed(o)
    PROVE  UNCHANGED V1!Buffer!vars
<1>0. TypesV1
  BY DEF InvV1
<1>1. state \in [Owners -> [Lines -> LineState]]
  BY DEF InvV1, TypesV1
<1>2. SUFFICES given' = given /\ \A p \in Owners, m \in Lines : state'[p][m].events = state[p][m].events
  BY Pairs DEF V1!Buffer!vars
<1>3. ASSUME NEW kind \in Kinds, NEW lines \in Bulks, V1!request(o, lines, kind)
      PROVE  given' = given /\ \A p \in Owners, m \in Lines : state'[p][m].events = state[p][m].events
  BY <1>0, <1>3, OpenedV1 DEF V1!request, SensibleV1
<1>3a. ASSUME NEW lines \in Bulks, V1!request_fails(o, lines)
       PROVE  given' = given /\ \A p \in Owners, m \in Lines : state'[p][m].events = state[p][m].events
  <2>1. PICK done \in SUBSET lines : \E fds \in [done -> Pipes] : V1!Opened(o, fds)
    BY <1>3a DEF V1!request_fails
  <2>2. QED
    BY <1>0, <1>3a, <2>1, OpenedV1 DEF V1!request_fails, SensibleV1
<1>4. ASSUME NEW kind, NEW l, state' = [state EXCEPT ![o][l].type = kind]
      PROVE  \A p \in Owners, m \in Lines : state'[p][m].events = state[p][m].events
  BY <1>1, <1>4 DEF LineState
<1>5. ASSUME NEW kind \in Kinds, NEW l \in Lines, V1!set_config(o, l, kind)
      PROVE  given' = given /\ \A p \in Owners, m \in Lines : state'[p][m].events = state[p][m].events
  BY <1>4, <1>5 DEF V1!set_config
<1>6. CASE V1!configure(o)
  BY <1>4, <1>6 DEF V1!configure
<1>7. CASE V1!typed(o)
  BY <1>4, <1>7 DEF V1!typed
<1>8. QED
  BY <1>3, <1>3a, <1>5, <1>6, <1>7

(* gpiod_v1_stub: the events of each line of each chip are numbered,       *)
(* handed over once and in order, and lost only by a full buffer or with   *)
(* the line's request: the v1 conjunct of the run's BuffersEvents.         *)
THEOREM LinesBufferEvents == ASSUME SensibleV1 PROVE V1!Spec => V1!BuffersEvents
<1>1. V1!Init => InvV1
  BY InitV1
<1>2. InvV1 /\ [V1!Next]_V1!vars => InvV1'
  BY NextInvV1
<1>3. V1!Init => V1!Buffer!Init
  BY DEF V1!Init, V1!Buffer!Init, V1!Unrequested
<1>4. InvV1 /\ [V1!Next]_V1!vars => [V1!Buffer!Next]_V1!Buffer!vars
  <2> SUFFICES ASSUME InvV1, [V1!Next]_V1!vars PROVE [V1!Buffer!Next]_V1!Buffer!vars
    OBVIOUS
  <2>1. ASSUME UNCHANGED <<state, given>> PROVE UNCHANGED V1!Buffer!vars
    BY <2>1 DEF V1!Buffer!vars
  <2>2. ASSUME NEW o \in Owners, V1!Owner(o) PROVE [V1!Buffer!Next]_V1!Buffer!vars
    <3>1. ASSUME NEW l \in Lines, V1!release(o, l) PROVE V1!Buffer!Next
      BY <3>1, ReleaseDropsV1
    <3>2. ASSUME \/ \E l \in Lines : V1!set_values(o, l)
                 \/ V1!release_pin(o) \/ V1!close(o)
          PROVE  UNCHANGED <<state, given>>
      BY <3>2 DEF V1!set_values, V1!release_pin, V1!close
    <3>3. QED
      BY <2>1, <2>2, <3>1, <3>2, OwnersStutterV1 DEF V1!Owner
  <2>3. ASSUME NEW t \in Readers, V1!Reader(t) PROVE [V1!Buffer!Next]_V1!Buffer!vars
    BY <2>1, <2>3, ReadTakesV1 DEF V1!Reader, V1!event_read, V1!wakes
  <2>4. ASSUME NEW t \in Drivers, V1!Driver(t) PROVE [V1!Buffer!Next]_V1!Buffer!vars
    BY <2>1, <2>4, OnChangePuts DEF V1!Driver, V1!change
  <2>5. QED
    BY <2>1, <2>2, <2>3, <2>4 DEF V1!Next, V1!vars
<1>5. QED
  BY <1>1, <1>2, <1>3, <1>4, PTL DEF V1!Spec, V1!BuffersEvents, V1!Buffer!Spec
=============================================================================
