--------------------------- MODULE GameWorldsProofs ---------------------------
(***************************************************************************)
(* Theorems about the multi-user game, for any number of tabs and of       *)
(* frames in flight: whose queue is whose, how far a tab may lag, that a   *)
(* tab that closes once its surface exists stops nobody, and that every    *)
(* world that is rendered shows the scene.                                 *)
(*                                                                         *)
(* The last one rests on what a world has been told: its map, and then the *)
(* records of its queue.  Reading a queue is a fold over a sequence; it    *)
(* comes to the last word about each entity (After), whatever the order of *)
(* the rest, and so does queueing more of it (Told).                       *)
(***************************************************************************)
EXTENDS GameWorlds, FoldLemmas

-----------------------------------------------------------------------------
(* The queues as a function: the library's sequences want a set of values, *)
(* and nothing here depends on what a record is.                           *)

Shape(q, n) ==
    /\ n \in Nat /\ Len(q) = n
    /\ q = [i \in 1 .. n |-> q[i]]
    /\ \A i \in 1 .. n : q[i].open \in BOOLEAN

LEMMA LengthOfFunction ==
    ASSUME NEW n \in Nat, NEW q, q = [i \in 1 .. n |-> q[i]]
    PROVE  Len(q) = n
<1> DEFINE S == {q[i] : i \in 1 .. n}
<1>1. q \in [1 .. n -> S]
  OBVIOUS
<1> HIDE DEF S
<1>2. q \in Seq(S)
  BY <1>1
<1> QED BY <1>1, <1>2

LEMMA AppendOfFunction ==
    ASSUME NEW n \in Nat, NEW q, q = [i \in 1 .. n |-> q[i]], NEW x
    PROVE  Append(q, x) = [i \in 1 .. n + 1 |-> IF i = n + 1 THEN x ELSE q[i]]
<1> DEFINE S == {q[i] : i \in 1 .. n} \cup {x}
<1>1. q \in [1 .. n -> S] /\ x \in S
  OBVIOUS
<1> HIDE DEF S
<1>2. q \in Seq(S)
  BY <1>1
<1>3. Len(q) = n
  BY LengthOfFunction
<1> QED BY <1>1, <1>2, <1>3

(* Filling the open queues opens and closes none. *)
LEMMA PushToOpens ==
    ASSUME NEW n \in Nat, NEW q, Shape(q, n), NEW r
    PROVE  /\ Shape(PushTo(q, r), n)
           /\ \A i \in 1 .. n : PushTo(q, r)[i].open = q[i].open
<1> DEFINE p == PushTo(q, r)
<1>1. DOMAIN q = 1 .. n
  BY DEF Shape
<1>2. p = [i \in 1 .. n |-> IF q[i].open THEN Queue(q[i].records \o r) ELSE q[i]]
  BY <1>1 DEF PushTo
<1>3. ASSUME NEW i \in 1 .. n
      PROVE  p[i].open = q[i].open
  <2>1. CASE q[i].open = TRUE
    <3>1. p[i] = Queue(q[i].records \o r)
      BY <1>2, <2>1
    <3> HIDE DEF p
    <3>2. p[i].open = TRUE
      BY <3>1 DEF Queue
    <3> QED BY <2>1, <3>2
  <2>2. CASE q[i].open = FALSE
    BY <1>2, <2>2
  <2> QED BY <2>1, <2>2 DEF Shape
<1>4. p = [i \in 1 .. n |-> p[i]]
  BY <1>2
<1> HIDE DEF p
<1>5. Len(p) = n
  BY <1>4, LengthOfFunction
<1>6. Shape(p, n)
  BY <1>3, <1>4, <1>5 DEF Shape
<1> QED BY <1>3, <1>6 DEF p

(* A new queue is open, and the others keep their place. *)
LEMMA AppendOpens ==
    ASSUME NEW n \in Nat, NEW q, Shape(q, n), NEW r
    PROVE  LET p == Append(q, Queue(r))
           IN /\ Shape(p, n + 1)
              /\ p[n + 1].open = TRUE
              /\ \A i \in 1 .. n : p[i].open = q[i].open
<1> DEFINE p == Append(q, Queue(r))
<1>1. p = [i \in 1 .. n + 1 |-> IF i = n + 1 THEN Queue(r) ELSE q[i]]
  BY AppendOfFunction DEF Shape
<1>2. p = [i \in 1 .. n + 1 |-> p[i]]
  BY <1>1
<1>3. p[n + 1].open = TRUE
  BY <1>1 DEF Queue
<1>4. ASSUME NEW i \in 1 .. n
      PROVE  p[i].open = q[i].open
  BY <1>1
<1> HIDE DEF p
<1>5. Len(p) = n + 1
  BY <1>2, LengthOfFunction
<1>6. \A i \in 1 .. n + 1 : p[i].open \in BOOLEAN
  <2> TAKE i \in 1 .. n + 1
  <2>1. CASE i = n + 1
    BY <1>3, <2>1
  <2>2. CASE i \in 1 .. n
    BY <1>4, <2>2 DEF Shape
  <2> QED BY <2>1, <2>2
<1>7. Shape(p, n + 1)
  BY <1>2, <1>5, <1>6 DEF Shape
<1> QED BY <1>3, <1>4, <1>7 DEF p

(* Unregistering closes the queues of those who go and no other. *)
LEMMA UnregisterCloses ==
    ASSUME NEW n \in Nat, NEW q, Shape(q, n), NEW gone
    PROVE  /\ Shape(Unregister(q, gone), n)
           /\ \A i \in 1 .. n : Unregister(q, gone)[i].open
                  <=> q[i].open /\ ~\E c \in gone : index[c] = i
<1> DEFINE p == Unregister(q, gone)
<1>1. DOMAIN q = 1 .. n
  BY DEF Shape
<1>2. p = [i \in 1 .. n |-> IF \E c \in gone : index[c] = i THEN NoQueue ELSE q[i]]
  BY <1>1 DEF Unregister
<1>3. ASSUME NEW i \in 1 .. n
      PROVE  /\ p[i].open \in BOOLEAN
             /\ p[i].open <=> q[i].open /\ ~\E c \in gone : index[c] = i
  <2>1. CASE \E c \in gone : index[c] = i
    <3>1. p[i] = NoQueue
      BY <1>2, <2>1
    <3>2. p[i].open = FALSE
      BY <3>1 DEF NoQueue
    <3> QED BY <2>1, <3>2
  <2>2. CASE ~\E c \in gone : index[c] = i
    <3>1. p[i] = q[i]
      BY <1>2, <2>2
    <3> QED BY <2>2, <3>1 DEF Shape
  <2> QED BY <2>1, <2>2
<1>4. p = [i \in 1 .. n |-> p[i]]
  BY <1>2
<1> HIDE DEF p
<1>5. Len(p) = n
  BY <1>4, LengthOfFunction
<1>6. Shape(p, n)
  BY <1>3, <1>4, <1>5 DEF Shape
<1> QED BY <1>3, <1>6 DEF p

-----------------------------------------------------------------------------
(* The inductive invariant of the queues: an index is never taken over, so *)
(* the worlds of the app have distinct ones, and a queue is open as long   *)
(* as one of them has it.                                                  *)

Roster ==
    /\ conn \in [Clients -> {"away", "unclaimed", "playing", "closed"}]
    /\ players \subseteq worlds /\ worlds \subseteq Clients /\ First \in worlds
    /\ \A c \in worlds : conn[c] \in {"playing", "closed"}

Indexed ==
    /\ Shape(queues, Len(queues))
    /\ index \in [Clients -> 1 .. Len(queues)]
    /\ \A v, w \in worlds : index[v] = index[w] => v = w
    /\ \A i \in 1 .. Len(queues) : queues[i].open <=> \E w \in worlds : index[w] = i

QInv == Roster /\ Indexed

LEMMA QueuesInit == Init => QInv
<1> SUFFICES ASSUME Init PROVE QInv
  OBVIOUS
<1> USE GameWorldsAssumption
<1>1. Roster
  BY DEF Init, Roster
<1> DEFINE q == <<Queue(<<Added(View(First))>>)>>
<1>2. queues = q /\ worlds = {First} /\ index = [c \in Clients |-> 1]
  BY DEF Init
<1>3. Len(q) = 1 /\ q[1].open = TRUE /\ q = [i \in 1 .. 1 |-> q[i]]
  BY DEF Queue
<1> HIDE DEF q
<1>4. Shape(q, 1)
  <2>1. \A i \in 1 .. 1 : i = 1
    OBVIOUS
  <2> QED BY <1>3, <2>1 DEF Shape
<1>5. Indexed
  BY <1>2, <1>3, <1>4 DEF Indexed
<1> QED BY <1>1, <1>5 DEF QInv

LEMMA JoinQueues ==
    ASSUME QInv, NEW c \in Clients, Join(c)
    PROVE  QInv'
<1> USE DEF QInv
<1>1. conn[c] = "unclaimed" /\ c \notin worlds
  BY DEF Roster, Join
<1>2. worlds' = worlds \cup {c} /\ players' = players \cup {c}
      /\ conn' = [conn EXCEPT ![c] = "playing"]
  BY DEF Join
<1>3. Roster'
  BY <1>1, <1>2 DEF Roster
<1> DEFINE n == Len(queues)
           p == Append(queues, Queue(Seed))
<1>4. queues' = PushTo(p, <<Added(View(c))>>) /\ index' = [index EXCEPT ![c] = n + 1]
  BY DEF Join
<1>5. n \in Nat /\ Shape(queues, n)
  BY DEF Indexed, Shape
<1>6. Shape(p, n + 1) /\ p[n + 1].open = TRUE /\ \A i \in 1 .. n : p[i].open = queues[i].open
  BY <1>5, AppendOpens
<1> HIDE DEF p
<1>7. /\ Shape(queues', n + 1)
      /\ \A i \in 1 .. n + 1 : queues'[i].open = p[i].open
  BY <1>4, <1>5, <1>6, PushToOpens
<1>8. Len(queues') = n + 1
  BY <1>7 DEF Shape
<1>9. index' \in [Clients -> 1 .. n + 1]
  BY <1>4, <1>5 DEF Indexed
<1>10. index'[c] = n + 1 /\ \A w \in worlds : index'[w] = index[w] /\ index[w] \in 1 .. n
  BY <1>1, <1>4, <1>5 DEF Indexed, Roster
<1>11. \A v, w \in worlds' : index'[v] = index'[w] => v = w
  <2> TAKE v, w \in worlds'
  <2>1. CASE v \in worlds /\ w \in worlds
    BY <1>10, <2>1 DEF Indexed
  <2>2. CASE v = c /\ w \in worlds
    BY <1>5, <1>10, <2>2
  <2>3. CASE v \in worlds /\ w = c
    BY <1>5, <1>10, <2>3
  <2> QED BY <1>2, <2>1, <2>2, <2>3
<1>12. \A i \in 1 .. n + 1 : queues'[i].open <=> \E w \in worlds' : index'[w] = i
  <2> TAKE i \in 1 .. n + 1
  <2>1. CASE i = n + 1
    BY <1>2, <1>6, <1>7, <1>10, <2>1
  <2>2. CASE i \in 1 .. n
    <3>1. queues'[i].open <=> \E w \in worlds : index[w] = i
      BY <1>6, <1>7, <2>2 DEF Indexed
    <3>2. index'[c] # i
      BY <1>5, <1>10, <2>2
    <3> QED BY <1>2, <1>10, <3>1, <3>2
  <2> QED BY <1>5, <2>1, <2>2
<1>13. Indexed'
  BY <1>7, <1>8, <1>9, <1>11, <1>12 DEF Indexed
<1> QED BY <1>3, <1>13

LEMMA DeparturesQueues ==
    ASSUME QInv, Departures
    PROVE  QInv'
<1> USE DEF QInv
<1> DEFINE gone == {c \in players : Closed(c)}
           unregistered == gone \ {First}
           p == PushTo(queues, SetToSeq({Removed(View(c)) : c \in gone}))
           n == Len(queues)
<1>1. /\ players' = players \ gone /\ worlds' = worlds \ unregistered
      /\ queues' = Unregister(p, unregistered)
      /\ conn' = conn /\ index' = index
  BY DEF Departures, tabs
<1>2. players \ gone \subseteq worlds \ unregistered /\ First \in worlds \ unregistered
  BY DEF Roster
<1>3. Roster'
  BY <1>1, <1>2 DEF Roster
<1>4. n \in Nat /\ Shape(queues, n)
  BY DEF Indexed, Shape
<1>5. unregistered \subseteq worlds
  BY DEF Roster
<1>6. Shape(p, n) /\ \A i \in 1 .. n : p[i].open = queues[i].open
  BY <1>4, PushToOpens
<1> HIDE DEF p, unregistered
<1>7. /\ Shape(queues', n)
      /\ \A i \in 1 .. n : queues'[i].open
             <=> p[i].open /\ ~\E c \in unregistered : index[c] = i
  BY <1>1, <1>4, <1>6, UnregisterCloses
<1>8. Len(queues') = n
  BY <1>7 DEF Shape
<1>9. \A i \in 1 .. n : queues'[i].open <=> \E w \in worlds' : index[w] = i
  <2> TAKE i \in 1 .. n
  <2>1. queues[i].open <=> \E w \in worlds : index[w] = i
    BY DEF Indexed
  <2>2. queues'[i].open <=> queues[i].open /\ ~\E c \in unregistered : index[c] = i
    BY <1>6, <1>7
  <2>3. \A v, w \in worlds : index[v] = index[w] => v = w
    BY DEF Indexed
  <2> QED BY <1>1, <1>5, <2>1, <2>2, <2>3
<1>10. Indexed'
  BY <1>1, <1>7, <1>8, <1>9 DEF Indexed
<1> QED BY <1>3, <1>10

(* Records in the queues leave them as they are. *)
LEMMA RecordsKeepQueues ==
    ASSUME QInv, UNCHANGED <<tabs, players, worlds, index>>, NEW r, queues' = PushTo(queues, r)
    PROVE  QInv'
<1> USE DEF QInv
<1> DEFINE n == Len(queues)
<1>1. n \in Nat /\ Shape(queues, n)
  BY DEF Indexed, Shape
<1>2. Shape(queues', n) /\ \A i \in 1 .. n : queues'[i].open = queues[i].open
  BY <1>1, PushToOpens
<1>3. Len(queues') = n
  BY <1>2 DEF Shape
<1>4. Indexed'
  BY <1>1, <1>2, <1>3 DEF Indexed
<1>5. Roster'
  BY DEF Roster, tabs
<1> QED BY <1>4, <1>5

LEMMA ExtractQueues ==
    ASSUME QInv, NEW w \in Clients, Extract(w)
    PROVE  QInv'
<1> USE DEF QInv
<1> DEFINE n == Len(queues)
           k == index[w]
<1>1. UNCHANGED <<tabs, players, worlds, index>>
  BY DEF Extract, roster
<1>2. queues' = IF queues[k].open THEN [queues EXCEPT ![k] = Queue(<<>>)] ELSE queues
  BY DEF Extract
<1>3. n \in Nat /\ Shape(queues, n)
  BY DEF Indexed, Shape
<1>4. Roster'
  BY <1>1 DEF Roster, tabs
<1>5. CASE ~queues[k].open
  BY <1>1, <1>2, <1>4, <1>5 DEF Indexed
<1>6. CASE queues[k].open
  <2>1. queues' = [i \in 1 .. n |-> IF i = k THEN Queue(<<>>) ELSE queues[i]]
    BY <1>2, <1>3, <1>6 DEF Shape
  <2>2. queues' = [i \in 1 .. n |-> queues'[i]]
    BY <2>1
  <2>3. ASSUME NEW i \in 1 .. n
        PROVE  queues'[i].open = queues[i].open
    <3>1. CASE i = k
      <4>1. queues'[i].open = TRUE
        BY <2>1, <3>1 DEF Queue
      <4>2. queues[i].open = TRUE
        BY <1>3, <1>6, <3>1 DEF Shape
      <4> QED BY <4>1, <4>2
    <3>2. CASE i # k
      BY <2>1, <3>2
    <3> QED BY <3>1, <3>2
  <2>4. Len(queues') = n
    BY <1>3, <2>2, LengthOfFunction
  <2>5. Shape(queues', n)
    BY <1>3, <2>2, <2>3, <2>4 DEF Shape
  <2>6. Indexed'
    BY <1>1, <2>3, <2>4, <2>5 DEF Indexed
  <2> QED BY <1>4, <2>6
<1> QED BY <1>5, <1>6

LEMMA QueuesNext == QInv /\ [Next]_vars => QInv'
<1> SUFFICES ASSUME QInv, [Next]_vars PROVE QInv'
  OBVIOUS
<1> USE DEF QInv, tabs, roster, syncState
(* What a tab does concerns neither the queues nor the worlds, except that *)
(* a connection that is claimed or closed stays so.                        *)
<1>1. ASSUME NEW c \in Clients, Tab(c)
      PROVE  QInv'
  <2>1. UNCHANGED <<players, worlds, queues, index>>
    BY <1>1 DEF Tab, Connect, Close, Acknowledge, DeviceError
  <2>2. /\ conn' \in [Clients -> {"away", "unclaimed", "playing", "closed"}]
        /\ \A w \in worlds : conn'[w] \in {"playing", "closed"}
    BY <1>1 DEF Tab, Connect, Close, Acknowledge, DeviceError, Roster
  <2> QED BY <2>1, <2>2 DEF Roster, Indexed
<1>2. ASSUME NEW c \in Clients, Join(c)
      PROVE  QInv'
  BY <1>2, JoinQueues
<1>3. CASE Departures
  BY <1>3, DeparturesQueues
<1>4. CASE RunSchedule
  BY <1>4, RecordsKeepQueues DEF RunSchedule, UpdateScorePips
<1>5. ASSUME NEW w \in Clients, Extract(w)
      PROVE  QInv'
  BY <1>5, ExtractQueues
<1>6. ASSUME NEW w \in Clients, Update(w)
      PROVE  QInv'
  BY <1>6 DEF Update, Roster, Indexed
<1>7. CASE EndFrame \/ TooEarly \/ UNCHANGED vars
  BY <1>7 DEF EndFrame, TooEarly, vars, Roster, Indexed
<1> QED BY <1>1, <1>2, <1>3, <1>4, <1>5, <1>6, <1>7 DEF Next, Runner

LEMMA QueuesInductive == Spec => []QInv
BY QueuesInit, QueuesNext, PTL DEF Spec

(* A queue is open when exactly one world of the app has its index. *)
LEMMA QueuesImply == QInv => QueuesBelongToWorlds
<1> SUFFICES ASSUME QInv, NEW i \in DOMAIN queues
             PROVE  queues[i].open = (Cardinality({w \in worlds : index[w] = i}) = 1)
  BY DEF QueuesBelongToWorlds
<1> USE DEF QInv
<1> DEFINE W == {w \in worlds : index[w] = i}
<1>1. i \in 1 .. Len(queues) /\ queues[i].open \in BOOLEAN
  BY DEF Indexed, Shape
<1>2. queues[i].open <=> \E w \in worlds : index[w] = i
  BY <1>1 DEF Indexed
<1>3. CASE queues[i].open
  <2>1. PICK w \in worlds : index[w] = i
    BY <1>2, <1>3
  <2>2. W = {w}
    BY <2>1 DEF Indexed
  <2>3. Cardinality(W) = 1
    BY <2>2, FS_Singleton
  <2> QED BY <1>1, <1>3, <2>3
<1>4. CASE ~queues[i].open
  <2>1. W = {}
    BY <1>2, <1>4
  <2>2. Cardinality(W) = 0
    BY <2>1, FS_EmptySet
  <2> QED BY <1>1, <1>4, <2>2
<1> QED BY <1>3, <1>4

(* Each world in the app has a record queue of its own that is still       *)
(* filled, and nothing is recorded for one that went, whoever joined and   *)
(* left in between (sync_world.rs: register_, unregister_render_world).    *)
THEOREM QueuesKeptApart == Spec => []QueuesBelongToWorlds
BY QueuesInductive, QueuesImply, PTL

-----------------------------------------------------------------------------
(* The frames.  What RunSchedule saw when it chose the worlds of a frame   *)
(* holds until each of them is updated: no acknowledgement adds a frame,   *)
(* and a world that is not closed then has its surface before it closes.   *)

Frames ==
    /\ conn \in [Clients -> {"away", "unclaimed", "playing", "closed"}]
    /\ pending \in [Clients -> 0 .. FramesInFlight]
    /\ todo \subseteq ready /\ players \subseteq Clients /\ ready \subseteq Clients
    /\ at \in {"top", "gate"} => todo = {}
    /\ at = "extract" => \A c \in ready : pending[c] < FramesInFlight
    /\ at = "update" => \A c \in todo : pending[c] < FramesInFlight

(* A tab in time: its surface exists before it can close. *)
InTime == \A c \in ready : c \in surfaces \/ ~Closed(c)

LEMMA FramesInit == Init => Frames
BY GameWorldsAssumption DEF Init, Frames

LEMMA FramesNext == Frames /\ [Next]_vars => Frames'
<1> SUFFICES ASSUME Frames, [Next]_vars PROVE Frames'
  OBVIOUS
<1> USE GameWorldsAssumption DEF Frames, tabs, roster, renderState, frame
<1>1. ASSUME NEW c \in Clients, Tab(c)
      PROVE  Frames'
  <2>1. CASE Connect(c) \/ DeviceError(c)
    BY <2>1 DEF Connect, DeviceError
  <2>2. CASE Close(c)
    BY <2>2 DEF Close
  <2>3. CASE Acknowledge(c)
    BY <2>3 DEF Acknowledge
  <2> QED BY <1>1, <2>1, <2>2, <2>3 DEF Tab
<1>2. ASSUME NEW c \in Clients, Join(c)
      PROVE  Frames'
  BY <1>2 DEF Join
<1>3. CASE Departures
  <2>1. players' \subseteq players
    BY <1>3 DEF Departures
  <2> QED BY <1>3, <2>1 DEF Departures
<1>4. CASE RunSchedule
  BY <1>4 DEF RunSchedule, Paced
<1>5. ASSUME NEW w \in Clients, Extract(w)
      PROVE  Frames'
  BY <1>5 DEF Extract
<1>6. ASSUME NEW w \in Clients, Update(w)
      PROVE  Frames'
  <2>1. pending' = pending \/ pending' = [pending EXCEPT ![w] = IF Closed(w) THEN @ ELSE @ + 1]
    BY <1>6 DEF Update, Render
  <2>2. /\ at = "update" /\ w \in todo /\ todo' = todo \ {w}
        /\ UNCHANGED <<conn, players, at, ready>>
    BY <1>6 DEF Update
  <2>3. pending[w] < FramesInFlight
    BY <2>2
  <2>4. pending' \in [Clients -> 0 .. FramesInFlight]
    BY <2>1, <2>3
  <2>5. \A c \in todo' : pending'[c] < FramesInFlight
    BY <2>1, <2>2
  <2> QED BY <2>2, <2>4, <2>5
<1>7. CASE EndFrame
  BY <1>7 DEF EndFrame
<1>8. CASE TooEarly \/ UNCHANGED vars
  BY <1>8 DEF TooEarly, vars
<1> QED BY <1>1, <1>2, <1>3, <1>4, <1>5, <1>6, <1>7, <1>8 DEF Next, Runner

(* No tab ever has more frames to acknowledge than may be in flight: the   *)
(* gate is read once for a frame, before the extraction of every world,    *)
(* and still holds when the world is rendered (main.rs).                   *)
NeverFarBehind == \A c \in Clients : pending[c] <= FramesInFlight

\* So it is for every number of tabs, of frames in flight, and every pace.
THEOREM FramesPaced == Spec => []NeverFarBehind
<1>1. Frames => NeverFarBehind
  BY GameWorldsAssumption DEF Frames, NeverFarBehind
<1> QED BY <1>1, FramesInit, FramesNext, PTL DEF Spec

LEMMA InTimeNext ==
    ASSUME ~TabsCloseEarly, Frames, InTime, ~panicked, [Next]_vars
    PROVE  InTime' /\ ~panicked'
<1> USE DEF Frames, InTime, Closed, tabs, roster, renderState, frame
<1>1. ASSUME NEW c \in Clients, Tab(c)
      PROVE  InTime' /\ ~panicked'
  BY <1>1 DEF Tab, Connect, Close, Acknowledge, DeviceError
<1>2. ASSUME NEW c \in Clients, Join(c)
      PROVE  InTime' /\ ~panicked'
  BY <1>2 DEF Join
<1>3. CASE RunSchedule
  BY <1>3 DEF RunSchedule, Paced
<1>4. ASSUME NEW w \in Clients, Extract(w)
      PROVE  InTime' /\ ~panicked'
  BY <1>4 DEF Extract
<1>5. ASSUME NEW w \in Clients, Update(w)
      PROVE  InTime' /\ ~panicked'
  BY <1>5 DEF Update, Render
<1>6. CASE Departures \/ EndFrame \/ TooEarly \/ UNCHANGED vars
  BY <1>6 DEF Departures, EndFrame, TooEarly, vars
<1> QED BY <1>1, <1>2, <1>3, <1>4, <1>5, <1>6 DEF Next, Runner

(* If no tab closes between the frame it is chosen for and the creation of *)
(* its surface, no tab ever stops the game: that window is the only way a  *)
(* tab can take the others down (window/mod.rs, create_surfaces).          *)
THEOREM OnlyEarlyCloseStops ==
    ASSUME ~TabsCloseEarly
    PROVE  Spec => []TabsDoNotStopTheGame
<1> DEFINE I == Frames /\ InTime /\ ~panicked
<1>1. Init => I
  BY FramesInit DEF Init, InTime
<1>2. I /\ [Next]_vars => I'
  BY FramesNext, InTimeNext
<1>3. I => TabsDoNotStopTheGame
  BY DEF TabsDoNotStopTheGame
<1> QED BY <1>1, <1>2, <1>3, PTL DEF Spec

-----------------------------------------------------------------------------
(* What records say.  Applying them one after the other comes to this: the *)
(* last word about an entity counts, and one that is not there any more is *)
(* not added.                                                              *)

\* m after the records of q at the places s, in the order of the places.
After(m, q, s) ==
    {e \in m : \A i \in s : q[i] # Removed(e)}
    \cup {e \in synced : \E i \in s : /\ q[i] = Added(e)
                                      /\ \A j \in s : j > i => q[j] # Removed(e)}

LEMMA RecordIs ==
    ASSUME NEW r \in Records
    PROVE  /\ r = Added(r.of) \/ r = Removed(r.of)
           /\ r.kind = "removed" <=> r = Removed(r.of)
           /\ \A e : Added(e) # Removed(r.of)
           /\ \A e : r = Added(e) \/ r = Removed(e) => e = r.of
BY DEF Records, Added, Removed

\* One more record, at the last place of s.
LEMMA AfterStep ==
    ASSUME NEW n \in Nat, NEW q \in [1 .. n -> Records], NEW m, NEW s \in SUBSET (1 .. n),
           NEW k \in s, \A i \in s : i <= k
    PROVE  After(m, q, s) = ApplyRecord(After(m, q, s \ {k}), q[k])
<1> DEFINE t == s \ {k}
           e == q[k].of
<1>1. q[k] \in Records /\ \A i \in t : i \in 1 .. n /\ i < k
  OBVIOUS
<1>2. s = t \cup {k} /\ k \notin t
  OBVIOUS
<1> HIDE DEF t
<1>3. CASE q[k] = Removed(e)
  <2>1. ApplyRecord(After(m, q, t), q[k]) = After(m, q, t) \ {e}
    BY <1>1, <1>3, RecordIs DEF ApplyRecord
  <2>2. \A x : q[k] # Added(x)
    BY <1>1, <1>3, RecordIs
  <2>3. \A x : q[k] = Removed(x) <=> x = e
    BY <1>1, <1>3, RecordIs
  <2>4. \A i \in t : k > i /\ ~(i > k)
    BY <1>1
  <2>5. \A x \in synced :
          (\E i \in s : q[i] = Added(x) /\ \A j \in s : j > i => q[j] # Removed(x))
          <=> x # e /\ \E i \in t : q[i] = Added(x) /\ \A j \in t : j > i => q[j] # Removed(x)
    BY <1>2, <2>2, <2>3, <2>4
  <2>6. \A x \in m : (\A i \in s : q[i] # Removed(x))
                     <=> x # e /\ \A i \in t : q[i] # Removed(x)
    BY <1>2, <2>3
  <2>7. After(m, q, s) = After(m, q, t) \ {e}
    BY <2>5, <2>6 DEF After
  <2> QED BY <2>1, <2>7 DEF t
<1>4. CASE q[k] = Added(e)
  <2>1. /\ \A x : q[k] # Removed(x)
        /\ \A x : q[k] = Added(x) <=> x = e
        /\ q[k].kind # "removed"
    BY <1>1, <1>4, RecordIs
  <2>2. ApplyRecord(After(m, q, t), q[k])
            = IF e \in synced THEN After(m, q, t) \cup {e} ELSE After(m, q, t)
    BY <2>1 DEF ApplyRecord
  <2>3. \A i \in t : k > i /\ ~(i > k)
    BY <1>1
  <2>4. ~(k > k)
    OBVIOUS
  <2>5. \A x \in synced :
          (\E i \in s : q[i] = Added(x) /\ \A j \in s : j > i => q[j] # Removed(x))
          <=> x = e \/ \E i \in t : q[i] = Added(x) /\ \A j \in t : j > i => q[j] # Removed(x)
    BY <1>2, <2>1, <2>3, <2>4
  <2>6. \A x \in m : (\A i \in s : q[i] # Removed(x)) <=> \A i \in t : q[i] # Removed(x)
    BY <1>2, <2>1
  <2>7. After(m, q, s) = IF e \in synced THEN After(m, q, t) \cup {e} ELSE After(m, q, t)
    BY <2>5, <2>6 DEF After
  <2> QED BY <2>2, <2>7 DEF t
<1> QED BY <1>1, <1>3, <1>4, RecordIs

LEMMA FoldIsAfter ==
    ASSUME NEW n \in Nat, NEW q \in [1 .. n -> Records], NEW m
    PROVE  FoldLeft(ApplyRecord, m, q) = After(m, q, 1 .. n)
<1> DEFINE Fold(g) == g = [s \in SUBSET DOMAIN q |->
                              IF s = {} THEN m
                              ELSE ApplyRecord(g[s \ {Max(s)}], q[Max(s)])]
           closed == [s \in SUBSET DOMAIN q |-> After(m, q, s)]
           fold == CHOOSE g : Fold(g)
<1>1. DOMAIN q = 1 .. n
  OBVIOUS
<1>2. After(m, q, {}) = m
  BY DEF After
<1>3. Fold(closed)
  <2>1. ASSUME NEW s \in SUBSET DOMAIN q, s # {}
        PROVE  closed[s] = ApplyRecord(closed[s \ {Max(s)}], q[Max(s)])
    <3> DEFINE k == Max(s)
    <3>0. s \in SUBSET (1 .. n)
      BY <1>1
    <3>1. k \in s /\ \A i \in s : i <= k
      BY <2>1, <3>0, MaxIs
    <3> HIDE DEF k
    <3>2. After(m, q, s) = ApplyRecord(After(m, q, s \ {k}), q[k])
      BY <3>0, <3>1, AfterStep
    <3>3. s \ {k} \in SUBSET DOMAIN q
      OBVIOUS
    <3> QED BY <3>2, <3>3 DEF k
  <2> QED BY <1>2, <2>1
<1>4. Fold(fold)
  BY <1>3
<1>5. FoldLeft(ApplyRecord, m, q) = fold[DOMAIN q]
  BY DEF FoldLeft, MapThenFoldSet
<1> HIDE DEF fold, closed
<1> DEFINE S == {k \in 0 .. n : fold[1 .. k] = closed[1 .. k]}
<1>6. 0 \in S
  <2>1. 1 .. 0 = {} /\ {} \in SUBSET DOMAIN q
    OBVIOUS
  <2>2. fold[{}] = m /\ closed[{}] = m
    BY <1>3, <1>4, <2>1
  <2> QED BY <2>1, <2>2
<1>7. ASSUME NEW k \in 1 .. n, k - 1 \in S PROVE k \in S
  <2>1. /\ 1 .. k \in SUBSET DOMAIN q /\ 1 .. k # {}
        /\ Max(1 .. k) = k /\ (1 .. k) \ {k} = 1 .. k - 1
    BY <1>1, Prefix
  <2>4. /\ fold[1 .. k] = ApplyRecord(fold[1 .. k - 1], q[k])
        /\ closed[1 .. k] = ApplyRecord(closed[1 .. k - 1], q[k])
    BY <1>3, <1>4, <2>1
  <2>5. fold[1 .. k - 1] = closed[1 .. k - 1]
    BY <1>7
  <2> QED BY <2>4, <2>5
<1>8. n \in S
  BY <1>6, <1>7, Reaches
<1>9. closed[1 .. n] = After(m, q, 1 .. n)
  BY <1>1 DEF closed
<1> QED BY <1>1, <1>5, <1>8, <1>9

-----------------------------------------------------------------------------
(* What a world is told: what is in its map once it has read a queue and   *)
(* nothing is despawned in the meantime.                                   *)

Queues == [open : BOOLEAN, records : Seq(Records)]
Kept(e, q) == \A i \in 1 .. Len(q) : q[i] # Removed(e)
Brought(e, q) == \E i \in 1 .. Len(q) : /\ q[i] = Added(e)
                                        /\ \A j \in 1 .. Len(q) : j > i => q[j] # Removed(e)
Told(m, q) == {e \in m : Kept(e, q)} \cup {e \in Entities : Brought(e, q)}

\* The records q are of the spawns of B and the despawns of G.
Mentions(q, G, B) ==
    /\ q \in Seq(Records) /\ G \cup B \subseteq Entities /\ G \cap B = {}
    /\ \A i \in 1 .. Len(q) : (\E e \in G : q[i] = Removed(e)) \/ \E e \in B : q[i] = Added(e)
    /\ \A e \in G : \E i \in 1 .. Len(q) : q[i] = Removed(e)
    /\ \A e \in B : \E i \in 1 .. Len(q) : q[i] = Added(e)

LEMMA ToldNothing == \A m : Told(m, <<>>) = m
BY DEF Told, Kept, Brought

LEMMA ToldLater ==
    ASSUME NEW m, NEW q \in Seq(Records), NEW r \in Seq(Records)
    PROVE  Told(m, q \o r) = Told(Told(m, q), r)
<1> DEFINE p == q \o r
<1>1. /\ Len(q) \in Nat /\ Len(r) \in Nat /\ Len(p) = Len(q) + Len(r)
      /\ \A i \in 1 .. Len(q) : p[i] = q[i]
      /\ \A i \in 1 .. Len(r) : p[Len(q) + i] = r[i]
  OBVIOUS
<1> HIDE DEF p
<1>2. \A i \in 1 .. Len(p) : i \in 1 .. Len(q) \/ \E j \in 1 .. Len(r) : i = Len(q) + j
  <2> TAKE i \in 1 .. Len(p)
  <2>1. i \in 1 .. Len(q) \/ (i - Len(q) \in 1 .. Len(r) /\ i = Len(q) + (i - Len(q)))
    BY <1>1
  <2> QED BY <2>1
<1>3. /\ \A i \in 1 .. Len(q) : i \in 1 .. Len(p)
      /\ \A i \in 1 .. Len(r) : Len(q) + i \in 1 .. Len(p)
      /\ \A i \in 1 .. Len(q), j \in 1 .. Len(r) : Len(q) + j > i /\ ~(i > Len(q) + j)
      /\ \A i, j \in 1 .. Len(r) : Len(q) + j > Len(q) + i <=> j > i
  BY <1>1
<1>4. ASSUME NEW e
      PROVE  Kept(e, p) <=> Kept(e, q) /\ Kept(e, r)
  <2>1. ASSUME Kept(e, p) PROVE Kept(e, q)
    BY <1>1, <1>3, <2>1 DEF Kept
  <2>2. ASSUME Kept(e, p) PROVE Kept(e, r)
    BY <1>1, <1>3, <2>2 DEF Kept
  <2>3. ASSUME Kept(e, q), Kept(e, r) PROVE Kept(e, p)
    <3> SUFFICES ASSUME NEW i \in 1 .. Len(p) PROVE p[i] # Removed(e)
      BY DEF Kept
    <3>1. CASE i \in 1 .. Len(q)
      BY <1>1, <2>3, <3>1 DEF Kept
    <3>2. CASE \E j \in 1 .. Len(r) : i = Len(q) + j
      BY <1>1, <2>3, <3>2 DEF Kept
    <3> QED BY <1>2, <3>1, <3>2
  <2> QED BY <2>1, <2>2, <2>3
<1>5. ASSUME NEW e
      PROVE  Brought(e, p) <=> Brought(e, r) \/ (Brought(e, q) /\ Kept(e, r))
  <2>1. ASSUME Brought(e, r) PROVE Brought(e, p)
    <3>1. PICK i \in 1 .. Len(r) :
              r[i] = Added(e) /\ \A j \in 1 .. Len(r) : j > i => r[j] # Removed(e)
      BY <2>1 DEF Brought
    <3>2. p[Len(q) + i] = Added(e) /\ Len(q) + i \in 1 .. Len(p)
      BY <1>1, <1>3, <3>1
    <3>3. ASSUME NEW j \in 1 .. Len(p), j > Len(q) + i PROVE p[j] # Removed(e)
      <4>1. j \notin 1 .. Len(q)
        BY <1>3, <3>3
      <4>2. PICK k \in 1 .. Len(r) : j = Len(q) + k
        BY <1>2, <4>1
      <4>3. k > i
        BY <1>3, <3>3, <4>2
      <4> QED BY <1>1, <3>1, <4>2, <4>3
    <3> QED BY <3>2, <3>3 DEF Brought
  <2>2. ASSUME Brought(e, q), Kept(e, r) PROVE Brought(e, p)
    <3>1. PICK i \in 1 .. Len(q) :
              q[i] = Added(e) /\ \A j \in 1 .. Len(q) : j > i => q[j] # Removed(e)
      BY <2>2 DEF Brought
    <3>2. p[i] = Added(e) /\ i \in 1 .. Len(p)
      BY <1>1, <1>3, <3>1
    <3>3. ASSUME NEW j \in 1 .. Len(p), j > i PROVE p[j] # Removed(e)
      BY <1>1, <1>2, <2>2, <3>1, <3>3 DEF Kept
    <3> QED BY <3>2, <3>3 DEF Brought
  <2>3. ASSUME Brought(e, p) PROVE Brought(e, r) \/ (Brought(e, q) /\ Kept(e, r))
    <3>1. PICK i \in 1 .. Len(p) :
              p[i] = Added(e) /\ \A j \in 1 .. Len(p) : j > i => p[j] # Removed(e)
      BY <2>3 DEF Brought
    <3>2. CASE i \in 1 .. Len(q)
      <4>1. q[i] = Added(e) /\ \A j \in 1 .. Len(q) : j > i => q[j] # Removed(e)
        BY <1>1, <1>3, <3>1, <3>2
      <4>2. \A j \in 1 .. Len(r) : r[j] # Removed(e)
        BY <1>1, <1>3, <3>1, <3>2
      <4> QED BY <3>2, <4>1, <4>2 DEF Brought, Kept
    <3>3. CASE \E j \in 1 .. Len(r) : i = Len(q) + j
      <4>1. PICK k \in 1 .. Len(r) : i = Len(q) + k
        BY <3>3
      <4>2. r[k] = Added(e) /\ \A j \in 1 .. Len(r) : j > k => r[j] # Removed(e)
        BY <1>1, <1>3, <3>1, <4>1
      <4> QED BY <4>2 DEF Brought
    <3> QED BY <1>2, <3>2, <3>3
  <2> QED BY <2>1, <2>2, <2>3
<1>6. Told(m, p) = Told(Told(m, q), r)
  BY <1>4, <1>5 DEF Told
<1> QED BY <1>6 DEF p

LEMMA ToldMentioned ==
    ASSUME NEW m, NEW q, NEW G, NEW B, Mentions(q, G, B)
    PROVE  Told(m, q) = (m \ G) \cup B
<1>1. \A e, f : Added(e) # Removed(f) /\ (Added(e) = Added(f) => e = f)
                /\ (Removed(e) = Removed(f) => e = f)
  BY DEF Added, Removed
<1>2. \A e : Kept(e, q) <=> e \notin G
  BY <1>1 DEF Mentions, Kept
<1>3. ASSUME NEW e PROVE Brought(e, q) <=> e \in B
  <2>1. ASSUME Brought(e, q) PROVE e \in B
    BY <1>1, <2>1 DEF Mentions, Brought
  <2>2. ASSUME e \in B PROVE Brought(e, q)
    <3>1. PICK i \in 1 .. Len(q) : q[i] = Added(e)
      BY <2>2 DEF Mentions
    <3>2. e \notin G
      BY <2>2 DEF Mentions
    <3> QED BY <1>2, <3>1, <3>2 DEF Brought, Kept
  <2> QED BY <2>1, <2>2
<1>4. B \subseteq Entities
  BY DEF Mentions
<1> QED BY <1>2, <1>3, <1>4 DEF Told

\* A world that has been told the scene has it in its map when it reads.
LEMMA ReadsScene ==
    ASSUME NEW q \in Seq(Records), NEW m, Told(m, q) = synced
    PROVE  FoldLeft(ApplyRecord, m, q) = synced
<1>1. Len(q) \in Nat /\ q \in [1 .. Len(q) -> Records]
  OBVIOUS
<1>2. FoldLeft(ApplyRecord, m, q) = After(m, q, 1 .. Len(q))
  BY <1>1, FoldIsAfter
<1>3. After(m, q, 1 .. Len(q)) = {e \in m : Kept(e, q)} \cup {e \in synced : Brought(e, q)}
  BY DEF After, Kept, Brought
<1>4. {e \in m : Kept(e, q)} \subseteq synced
  BY DEF Told
<1>5. \A e \in synced : (e \in m /\ Kept(e, q)) \/ Brought(e, q)
  BY DEF Told
<1> QED BY <1>2, <1>3, <1>4, <1>5

LEMMA ReadsEntities ==
    ASSUME NEW q \in Seq(Records), NEW m \in SUBSET Entities, synced \subseteq Entities
    PROVE  FoldLeft(ApplyRecord, m, q) \in SUBSET Entities
<1>1. Len(q) \in Nat /\ q \in [1 .. Len(q) -> Records]
  OBVIOUS
<1>2. FoldLeft(ApplyRecord, m, q) = After(m, q, 1 .. Len(q))
  BY <1>1, FoldIsAfter
<1> QED BY <1>2 DEF After

-----------------------------------------------------------------------------
(* The records the runner makes.                                           *)

LEMMA RemovedSeq ==
    ASSUME NEW G, IsFiniteSet(G), G \subseteq Entities
    PROVE  Mentions(SetToSeq({Removed(e) : e \in G}), G, {})
<1> DEFINE f == [e \in G |-> Removed(e)]
           S == {Removed(e) : e \in G}
           q == SetToSeq(S)
<1>1. IsFiniteSet({f[x] : x \in G})
  BY FiniteImage
<1>2. {f[x] : x \in G} = S
  OBVIOUS
<1>3. S \subseteq Records
  BY DEF Removed, Records
<1>4. \A e \in G : Removed(e) \in S
  OBVIOUS
<1>5. \A r \in S : \E e \in G : r = Removed(e)
  OBVIOUS
<1> HIDE DEF f, S
<1>6. q \in Seq(S) /\ \A x \in S : \E i \in 1 .. Len(q) : q[i] = x
  BY <1>1, <1>2, SetToSeqIs
<1> HIDE DEF q
<1>7. q \in Seq(Records) /\ \A i \in 1 .. Len(q) : q[i] \in S
  BY <1>3, <1>6
<1> QED BY <1>4, <1>5, <1>6, <1>7 DEF Mentions, q, S

LEMMA AddedSeq ==
    ASSUME NEW B, IsFiniteSet(B), B \subseteq Entities
    PROVE  Mentions(SetToSeq({Added(e) : e \in B}), {}, B)
<1> DEFINE f == [e \in B |-> Added(e)]
           S == {Added(e) : e \in B}
           q == SetToSeq(S)
<1>1. IsFiniteSet({f[x] : x \in B})
  BY FiniteImage
<1>2. {f[x] : x \in B} = S
  OBVIOUS
<1>3. S \subseteq Records
  BY DEF Added, Records
<1>4. \A e \in B : Added(e) \in S
  OBVIOUS
<1>5. \A r \in S : \E e \in B : r = Added(e)
  OBVIOUS
<1> HIDE DEF f, S
<1>6. q \in Seq(S) /\ \A x \in S : \E i \in 1 .. Len(q) : q[i] = x
  BY <1>1, <1>2, SetToSeqIs
<1> HIDE DEF q
<1>7. q \in Seq(Records) /\ \A i \in 1 .. Len(q) : q[i] \in S
  BY <1>3, <1>6
<1> QED BY <1>4, <1>5, <1>6, <1>7 DEF Mentions, q, S

LEMMA MentionsBoth ==
    ASSUME NEW G, NEW B, NEW q, NEW r, Mentions(q, G, {}), Mentions(r, {}, B), G \cap B = {}
    PROVE  Mentions(q \o r, G, B)
<1> DEFINE p == q \o r
<1>0. q \in Seq(Records) /\ r \in Seq(Records)
  BY DEF Mentions
<1>1. /\ Len(q) \in Nat /\ Len(r) \in Nat /\ Len(p) = Len(q) + Len(r) /\ p \in Seq(Records)
      /\ \A i \in 1 .. Len(q) : p[i] = q[i]
      /\ \A i \in 1 .. Len(r) : p[Len(q) + i] = r[i]
  BY <1>0
<1> HIDE DEF p
<1>2. \A i \in 1 .. Len(p) : i \in 1 .. Len(q) \/ \E j \in 1 .. Len(r) : i = Len(q) + j
  <2> TAKE i \in 1 .. Len(p)
  <2>1. i \in 1 .. Len(q) \/ (i - Len(q) \in 1 .. Len(r) /\ i = Len(q) + (i - Len(q)))
    BY <1>1
  <2> QED BY <2>1
<1>3. /\ \A i \in 1 .. Len(q) : i \in 1 .. Len(p)
      /\ \A i \in 1 .. Len(r) : Len(q) + i \in 1 .. Len(p)
  BY <1>1
<1>4. ASSUME NEW i \in 1 .. Len(p)
      PROVE  (\E e \in G : p[i] = Removed(e)) \/ \E e \in B : p[i] = Added(e)
  <2>1. CASE i \in 1 .. Len(q)
    BY <1>1, <2>1 DEF Mentions
  <2>2. CASE \E j \in 1 .. Len(r) : i = Len(q) + j
    <3>1. PICK j \in 1 .. Len(r) : i = Len(q) + j
      BY <2>2
    <3>2. p[i] = r[j]
      BY <1>1, <3>1
    <3> QED BY <3>2 DEF Mentions
  <2> QED BY <1>2, <2>1, <2>2
<1>5. \A e \in G : \E i \in 1 .. Len(p) : p[i] = Removed(e)
  BY <1>1, <1>3 DEF Mentions
<1>6. \A e \in B : \E i \in 1 .. Len(p) : p[i] = Added(e)
  BY <1>1, <1>3 DEF Mentions
<1> QED BY <1>1, <1>4, <1>5, <1>6 DEF Mentions, p

LEMMA OneAdded ==
    ASSUME NEW e \in Entities
    PROVE  Mentions(<<Added(e)>>, {}, {e})
BY DEF Mentions, Added, Records

-----------------------------------------------------------------------------
(* The queues after each of the runner's steps.                            *)

\* Every open queue of q has got the records r, and the closed ones nothing.
LEMMA PushToIs ==
    ASSUME NEW q \in Seq(Queues), NEW r \in Seq(Records)
    PROVE  LET p == PushTo(q, r)
           IN /\ p \in Seq(Queues) /\ Len(p) = Len(q)
              /\ \A i \in 1 .. Len(q) :
                    /\ p[i].open = q[i].open
                    /\ q[i].open => p[i].records = q[i].records \o r
<1> DEFINE n == Len(q)
           p == PushTo(q, r)
<1>1. n \in Nat /\ DOMAIN q = 1 .. n /\ \A i \in 1 .. n : q[i] \in Queues
  OBVIOUS
<1>2. p = [i \in 1 .. n |-> IF q[i].open THEN Queue(q[i].records \o r) ELSE q[i]]
  BY <1>1 DEF PushTo
<1>3. ASSUME NEW i \in 1 .. n
      PROVE  /\ p[i] \in Queues /\ p[i].open = q[i].open
             /\ q[i].open => p[i].records = q[i].records \o r
  <2>1. q[i].open \in BOOLEAN /\ q[i].records \in Seq(Records)
    BY <1>1 DEF Queues
  <2>2. q[i].records \o r \in Seq(Records)
    BY <2>1
  <2>3. CASE q[i].open
    <3>1. p[i] = Queue(q[i].records \o r)
      BY <1>2, <2>3
    <3> HIDE DEF p
    <3>2. p[i].open = TRUE /\ p[i].records = q[i].records \o r
      BY <3>1 DEF Queue
    <3>3. p[i] \in Queues
      BY <2>2, <3>1 DEF Queue, Queues
    <3>4. q[i].open = TRUE
      BY <2>1, <2>3
    <3> QED BY <3>2, <3>3, <3>4
  <2>4. CASE ~q[i].open
    BY <1>1, <1>2, <2>4
  <2> QED BY <2>3, <2>4
<1>4. DOMAIN p = 1 .. n
  BY <1>2
<1>5. p = [i \in 1 .. n |-> p[i]]
  BY <1>2
<1> HIDE DEF p
<1>6. p \in [1 .. n -> Queues]
  BY <1>3, <1>5
<1>7. p \in Seq(Queues) /\ Len(p) = n
  BY <1>1, <1>6
<1> QED BY <1>3, <1>7 DEF p

LEMMA AppendIs ==
    ASSUME NEW q \in Seq(Queues), NEW r \in Seq(Records)
    PROVE  LET p == Append(q, Queue(r))
           IN /\ p \in Seq(Queues) /\ Len(p) = Len(q) + 1
              /\ \A i \in 1 .. Len(q) : p[i] = q[i]
              /\ p[Len(q) + 1].open = TRUE /\ p[Len(q) + 1].records = r
<1>1. Queue(r) \in Queues /\ Queue(r).open = TRUE /\ Queue(r).records = r
  BY DEF Queue, Queues
<1>2. ASSUME NEW x \in Queues
      PROVE  /\ Append(q, x) \in Seq(Queues) /\ Len(Append(q, x)) = Len(q) + 1
             /\ \A i \in 1 .. Len(q) : Append(q, x)[i] = q[i]
             /\ Append(q, x)[Len(q) + 1] = x
  OBVIOUS
<1> QED BY <1>1, <1>2

LEMMA UnregisterIs ==
    ASSUME NEW q \in Seq(Queues), NEW gone
    PROVE  LET p == Unregister(q, gone)
           IN /\ p \in Seq(Queues) /\ Len(p) = Len(q)
              /\ \A i \in 1 .. Len(q) : (\A c \in gone : index[c] # i) => p[i] = q[i]
<1> DEFINE n == Len(q)
           p == Unregister(q, gone)
<1>1. n \in Nat /\ DOMAIN q = 1 .. n /\ \A i \in 1 .. n : q[i] \in Queues
  OBVIOUS
<1>2. p = [i \in 1 .. n |-> IF \E c \in gone : index[c] = i THEN NoQueue ELSE q[i]]
  BY <1>1 DEF Unregister
<1>3. <<>> \in Seq(Records)
  OBVIOUS
<1>4. NoQueue \in Queues
  BY <1>3 DEF NoQueue, Queues
<1>5. p \in [1 .. n -> Queues]
  BY <1>1, <1>2, <1>4
<1>6. \A i \in 1 .. n : (\A c \in gone : index[c] # i) => p[i] = q[i]
  BY <1>2
<1> HIDE DEF p
<1>7. p \in Seq(Queues) /\ Len(p) = n
  BY <1>1, <1>5
<1> QED BY <1>6, <1>7 DEF p

-----------------------------------------------------------------------------
(* The inductive invariant of the scene: what a world of the app has in    *)
(* its map and what its queue still tells it are the scene; what has been  *)
(* extracted for this frame stays so until the frame is over.              *)

SceneTyped ==
    /\ at \in {"top", "gate", "extract", "update"}
    /\ queues \in Seq(Queues)
    /\ synced \subseteq Entities /\ IsFiniteSet(synced) /\ IsFiniteSet(players)
    /\ rows \in [Entities -> Clients \cup {Nobody}]
    /\ map \in [Clients -> SUBSET Entities] /\ staged \in [Clients -> SUBSET Entities]
    /\ errors \in [Clients -> {"none", "caught", "stopped"}]
    /\ surfaces \subseteq Clients /\ ready \subseteq Clients /\ todo \subseteq Clients

ToldTheScene ==
    /\ \A c \in Clients : conn[c] \in {"away", "unclaimed"} => map[c] = {}
    /\ \A w \in worlds : Told(map[w], queues[index[w]].records) = synced

Extracted ==
    /\ at \in {"extract", "update"} => ready \subseteq worlds /\ todo \subseteq ready
    /\ at = "extract" => \A w \in ready \ todo : map[w] = synced /\ staged[w] = synced
    /\ at = "update" => \A w \in ready : map[w] = synced /\ staged[w] = synced

SInv == SceneTyped /\ ToldTheScene /\ Extracted

LEMMA SceneInit == Init => SInv
<1> SUFFICES ASSUME Init PROVE SInv
  OBVIOUS
<1> USE GameWorldsAssumption
<1>1. View(First) \in Entities
  BY DEF View, Entities
<1>2. Mentions(<<Added(View(First))>>, {}, {View(First)})
  BY <1>1, OneAdded
<1>3. <<Added(View(First))>> \in Seq(Records)
  BY <1>2 DEF Mentions
<1> DEFINE r == <<Added(View(First))>>
           q == Queue(r)
<1> HIDE DEF r
<1>4. q \in Queues /\ q.records = r
  BY <1>3 DEF Queue, Queues, r
<1> HIDE DEF q
<1>5. queues = <<q>> /\ index = [c \in Clients |-> 1] /\ worlds = {First}
      /\ map = [c \in Clients |-> {}] /\ synced = {View(First)}
  BY DEF Init, q, r
<1>6. queues \in Seq(Queues) /\ queues[1] = q
  BY <1>4, <1>5
<1>7. IsFiniteSet(players) /\ IsFiniteSet(synced)
  BY FS_Singleton DEF Init
<1>8. SceneTyped
  <2>1. /\ rows \in [Entities -> Clients \cup {Nobody}]
        /\ map \in [Clients -> SUBSET Entities] /\ staged \in [Clients -> SUBSET Entities]
        /\ errors \in [Clients -> {"none", "caught", "stopped"}]
    BY DEF Init
  <2>2. surfaces = {} /\ ready = {} /\ todo = {} /\ at = "top"
    BY DEF Init
  <2> QED BY <1>1, <1>5, <1>6, <1>7, <2>1, <2>2 DEF SceneTyped
<1>9. Told({}, r) = {View(First)}
  BY <1>2, ToldMentioned DEF r
<1>10. ToldTheScene
  BY <1>4, <1>5, <1>6, <1>9 DEF ToldTheScene
<1>11. Extracted
  BY DEF Init, Extracted
<1> QED BY <1>8, <1>10, <1>11 DEF SInv

\* A world whose queue has got records of G and B, and whose scene has
\* changed by them, has still been told the scene.
LEMMA StillTold ==
    ASSUME SceneTyped, ToldTheScene, NEW G, NEW B, NEW r, Mentions(r, G, B),
           synced' = (synced \ G) \cup B, NEW w \in worlds,
           queues[index[w]].records \in Seq(Records),
           queues'[index'[w]].records = queues[index[w]].records \o r,
           map'[w] = map[w]
    PROVE  Told(map'[w], queues'[index'[w]].records) = synced'
<1> DEFINE q == queues[index[w]].records
<1>1. q \in Seq(Records) /\ r \in Seq(Records)
  BY DEF Mentions
<1>2. Told(map[w], q) = synced
  BY DEF ToldTheScene
<1> HIDE DEF q
<1>3. Told(map[w], q \o r) = Told(synced, r)
  BY <1>1, <1>2, ToldLater
<1>4. Told(synced, r) = (synced \ G) \cup B
  BY ToldMentioned
<1>5. queues'[index'[w]].records = q \o r
  BY DEF q
<1> QED BY <1>3, <1>4, <1>5

\* The queue of a world of the app.
LEMMA OwnQueue ==
    ASSUME QInv, SceneTyped, NEW w \in worlds
    PROVE  /\ w \in Clients /\ index[w] \in 1 .. Len(queues) /\ queues[index[w]] \in Queues
           /\ queues[index[w]].open /\ queues[index[w]].records \in Seq(Records)
<1>1. w \in Clients /\ index[w] \in 1 .. Len(queues) /\ queues[index[w]].open
  BY DEF QInv, Roster, Indexed
<1>2. queues[index[w]] \in Queues
  BY <1>1 DEF SceneTyped
<1> QED BY <1>1, <1>2 DEF Queues

LEMMA FiniteViews ==
    ASSUME NEW S, IsFiniteSet(S), S \subseteq Clients
    PROVE  /\ IsFiniteSet({View(c) : c \in S}) /\ {View(c) : c \in S} \subseteq Entities
           /\ IsFiniteSet({Pip(c) : c \in S}) /\ {Pip(c) : c \in S} \subseteq Entities
<1> DEFINE v == [c \in S |-> View(c)]
           p == [c \in S |-> Pip(c)]
<1>1. IsFiniteSet({v[c] : c \in S}) /\ IsFiniteSet({p[c] : c \in S})
  BY FiniteImage
<1>2. {v[c] : c \in S} = {View(c) : c \in S} /\ {p[c] : c \in S} = {Pip(c) : c \in S}
  OBVIOUS
<1>3. {View(c) : c \in S} \subseteq Entities /\ {Pip(c) : c \in S} \subseteq Entities
  BY DEF View, Pip, Entities
<1> QED BY <1>1, <1>2, <1>3

LEMMA JoinScene ==
    ASSUME QInv, SInv, NEW c \in Clients, Join(c)
    PROVE  SInv'
<1> USE DEF SInv
<1> DEFINE v == View(c)
           one == <<Added(v)>>
           p == Append(queues, Queue(Seed))
           n == Len(queues)
<1>0. /\ at = "top" /\ conn[c] = "unclaimed" /\ conn' = [conn EXCEPT ![c] = "playing"]
      /\ players' = players \cup {c} /\ worlds' = worlds \cup {c}
      /\ queues' = PushTo(p, one) /\ index' = [index EXCEPT ![c] = n + 1]
      /\ synced' = synced \cup {v}
      /\ UNCHANGED <<at, map, rows, staged, errors, surfaces, ready, todo>>
  BY DEF Join
<1>1. v \in Entities /\ c \notin worlds /\ map[c] = {}
  BY <1>0 DEF View, Entities, QInv, Roster, ToldTheScene
<1> HIDE DEF v
<1>2. Mentions(one, {}, {v})
  BY <1>1, OneAdded
<1>3. Mentions(Seed, {}, synced)
  BY AddedSeq DEF Seed, SceneTyped
<1>4. one \in Seq(Records) /\ Seed \in Seq(Records)
  BY <1>2, <1>3 DEF Mentions
<1> HIDE DEF one
<1>5. queues \in Seq(Queues) /\ n \in Nat
  BY DEF SceneTyped
<1>6. /\ p \in Seq(Queues) /\ Len(p) = n + 1
      /\ \A i \in 1 .. n : p[i] = queues[i]
      /\ p[n + 1].open = TRUE /\ p[n + 1].records = Seed
  BY <1>4, <1>5, AppendIs
<1> HIDE DEF p
<1>7. /\ queues' \in Seq(Queues)
      /\ \A i \in 1 .. n + 1 : p[i].open => queues'[i].records = p[i].records \o one
  BY <1>0, <1>4, <1>6, PushToIs
<1>8. index'[c] = n + 1 /\ \A w \in worlds : index'[w] = index[w]
  BY <1>0, <1>1 DEF QInv, Roster, Indexed
<1>9. SceneTyped'
  <2>1. IsFiniteSet(synced') /\ IsFiniteSet(players')
    BY <1>0, FS_AddElement DEF SceneTyped
  <2> QED BY <1>0, <1>1, <1>7, <2>1 DEF SceneTyped
<1>10. synced' = (synced \ {}) \cup {v}
  BY <1>0
<1>11. ASSUME NEW w \in worlds
       PROVE  Told(map'[w], queues'[index'[w]].records) = synced'
  <2>1. index[w] \in 1 .. n /\ queues[index[w]].open /\ queues[index[w]].records \in Seq(Records)
    BY OwnQueue
  <2>a. index[w] \in 1 .. n + 1 /\ p[index[w]] = queues[index[w]]
    BY <1>5, <1>6, <2>1
  <2>b. index'[w] = index[w]
    BY <1>8
  <2>2. queues'[index'[w]].records = queues[index[w]].records \o one
    BY <1>7, <2>1, <2>a, <2>b, Zenon
  <2>3. map'[w] = map[w]
    BY <1>0
  <2> QED BY <1>2, <1>10, <2>1, <2>2, <2>3, StillTold
<1>12. Told(map'[c], queues'[index'[c]].records) = synced'
  <2>a. n + 1 \in 1 .. n + 1
    BY <1>5
  <2>1. queues'[index'[c]].records = Seed \o one
    BY <1>6, <1>7, <1>8, <2>a, Zenon
  <2>2. Told({}, Seed) = synced
    BY <1>3, ToldMentioned
  <2>3. Told({}, Seed \o one) = Told(synced, one)
    BY <1>4, <2>2, ToldLater
  <2>4. Told(synced, one) = synced'
    BY <1>2, <1>10, ToldMentioned
  <2> QED BY <1>0, <1>1, <2>1, <2>3, <2>4
<1>13. ToldTheScene'
  <2>1. \A d \in Clients : conn'[d] \in {"away", "unclaimed"} => map'[d] = {}
    BY <1>0 DEF ToldTheScene, QInv, Roster
  <2> QED BY <1>0, <1>11, <1>12, <2>1 DEF ToldTheScene
<1>14. Extracted'
  BY <1>0 DEF Extracted
<1> QED BY <1>9, <1>13, <1>14

LEMMA DeparturesScene ==
    ASSUME QInv, SInv, Departures
    PROVE  SInv'
<1> USE DEF SInv
<1> DEFINE gone == {c \in players : Closed(c)}
           unregistered == gone \ {First}
           G == {View(c) : c \in gone}
           r == SetToSeq({Removed(View(c)) : c \in gone})
           p == PushTo(queues, r)
           n == Len(queues)
<1>1. /\ players' = players \ gone /\ worlds' = worlds \ unregistered
      /\ synced' = synced \ G
      /\ queues' = Unregister(p, unregistered)
      /\ UNCHANGED <<conn, index, map, rows, staged, errors, surfaces, ready, todo>>
      /\ at' = "gate"
  BY DEF Departures, tabs, renderState
<1>2. players \subseteq Clients /\ IsFiniteSet(players)
  BY DEF QInv, Roster, SceneTyped
<1>3. IsFiniteSet(gone) /\ gone \subseteq Clients
  BY <1>2, FS_Subset
<1>4. IsFiniteSet(G) /\ G \subseteq Entities
  BY <1>3, FiniteViews
<1>5. {Removed(View(c)) : c \in gone} = {Removed(e) : e \in G}
  OBVIOUS
<1>6. unregistered \subseteq Clients
  BY <1>3
<1> HIDE DEF gone, unregistered, G
<1>7. Mentions(r, G, {})
  BY <1>4, <1>5, RemovedSeq
<1>8. r \in Seq(Records) /\ queues \in Seq(Queues) /\ n \in Nat
  BY <1>7 DEF Mentions, SceneTyped
<1> HIDE DEF r
<1>9. /\ p \in Seq(Queues) /\ Len(p) = n
      /\ \A i \in 1 .. n : queues[i].open => p[i].records = queues[i].records \o r
  BY <1>8, PushToIs
<1> HIDE DEF p
<1>10. /\ queues' \in Seq(Queues)
       /\ \A i \in 1 .. n : (\A c \in unregistered : index[c] # i) => queues'[i] = p[i]
  BY <1>1, <1>9, UnregisterIs
<1>11. SceneTyped'
  <2>1. IsFiniteSet(synced') /\ IsFiniteSet(players')
    BY <1>1, FS_Subset DEF SceneTyped
  <2> QED BY <1>1, <1>10, <2>1 DEF SceneTyped
<1>12. synced' = (synced \ G) \cup {}
  BY <1>1
<1>13. ASSUME NEW w \in worlds'
       PROVE  Told(map'[w], queues'[index'[w]].records) = synced'
  <2>0. w \in worlds /\ w \notin unregistered
    BY <1>1
  <2>1. index[w] \in 1 .. n /\ queues[index[w]].open /\ queues[index[w]].records \in Seq(Records)
    BY <2>0, OwnQueue
  <2>2. \A c \in unregistered : index[c] # index[w]
    <3>1. unregistered \subseteq worlds
      BY DEF unregistered, gone, QInv, Roster
    <3> QED BY <2>0, <3>1 DEF QInv, Indexed
  <2>3. queues'[index'[w]].records = queues[index[w]].records \o r
    BY <1>1, <1>9, <1>10, <2>1, <2>2
  <2>4. map'[w] = map[w]
    BY <1>1
  <2> QED BY <1>7, <1>12, <2>0, <2>1, <2>3, <2>4, StillTold
<1>14. ToldTheScene'
  BY <1>1, <1>13 DEF ToldTheScene
<1>15. Extracted'
  BY <1>1 DEF Extracted
<1> QED BY <1>11, <1>14, <1>15

LEMMA RunScheduleScene ==
    ASSUME QInv, SInv, RunSchedule
    PROVE  SInv'
<1> USE DEF SInv
<1>0. PICK scored \in SUBSET (players \cap Scorers) : UpdateScorePips(scored)
  BY DEF RunSchedule
<1> DEFINE born == {Pip(c) : c \in scored} \ synced
           gone == {e \in synced : e.kind = "pip" /\ View(e.of) \notin synced}
           rg == SetToSeq({Removed(e) : e \in gone})
           rb == SetToSeq({Added(e) : e \in born})
           r == rg \o rb
           n == Len(queues)
<1>1. synced' = (synced \cup born) \ gone /\ queues' = PushTo(queues, r)
  BY <1>0 DEF UpdateScorePips
<1>2. /\ ready' = Paced /\ todo' = ready'
      /\ at' = IF ready' = {} THEN "top" ELSE "extract"
      /\ UNCHANGED <<conn, players, worlds, index, map, rows, staged, errors, surfaces>>
  BY DEF RunSchedule, tabs, roster
<1>3. players \subseteq Clients /\ players \subseteq worlds
  BY DEF QInv, Roster
<1>4. IsFiniteSet(scored) /\ scored \subseteq Clients
  BY <1>3, FS_Subset DEF SceneTyped
<1>5. IsFiniteSet(born) /\ born \subseteq Entities
  <2>1. IsFiniteSet({Pip(c) : c \in scored}) /\ {Pip(c) : c \in scored} \subseteq Entities
    BY <1>4, FiniteViews
  <2> QED BY <2>1, FS_Subset
<1>6. IsFiniteSet(gone) /\ gone \subseteq Entities
  BY FS_Subset DEF SceneTyped
<1>7. gone \cap born = {} /\ (synced \cup born) \ gone = (synced \ gone) \cup born
  OBVIOUS
<1> HIDE DEF gone, born
<1>8. Mentions(rg, gone, {}) /\ Mentions(rb, {}, born)
  BY <1>5, <1>6, RemovedSeq, AddedSeq
<1> HIDE DEF rg, rb
<1>9. Mentions(r, gone, born)
  BY <1>7, <1>8, MentionsBoth
<1>10. r \in Seq(Records) /\ queues \in Seq(Queues) /\ n \in Nat
  BY <1>9 DEF Mentions, SceneTyped
<1> HIDE DEF r
<1>11. /\ queues' \in Seq(Queues)
       /\ \A i \in 1 .. n : queues[i].open => queues'[i].records = queues[i].records \o r
  BY <1>1, <1>10, PushToIs
<1>12. Paced \subseteq worlds /\ Paced \subseteq Clients
  BY <1>3 DEF Paced
<1>13. SceneTyped'
  <2>1. IsFiniteSet(synced \ gone)
    BY FS_Subset DEF SceneTyped
  <2>2. IsFiniteSet((synced \ gone) \cup born)
    BY <1>5, <2>1, FS_Union
  <2>3. synced' \subseteq Entities /\ IsFiniteSet(synced')
    BY <1>1, <1>5, <1>7, <2>2 DEF SceneTyped
  <2> QED BY <1>2, <1>11, <1>12, <2>3 DEF SceneTyped
<1>14. synced' = (synced \ gone) \cup born
  BY <1>1, <1>7
<1>15. ASSUME NEW w \in worlds
       PROVE  Told(map'[w], queues'[index'[w]].records) = synced'
  <2>1. index[w] \in 1 .. n /\ queues[index[w]].open /\ queues[index[w]].records \in Seq(Records)
    BY OwnQueue
  <2>2. queues'[index'[w]].records = queues[index[w]].records \o r
    BY <1>2, <1>11, <2>1
  <2>3. map'[w] = map[w]
    BY <1>2
  <2> QED BY <1>9, <1>14, <2>1, <2>2, <2>3, StillTold
<1>16. ToldTheScene'
  BY <1>2, <1>15 DEF ToldTheScene
<1>17. Extracted'
  BY <1>2, <1>12 DEF Extracted
<1> QED BY <1>13, <1>16, <1>17

LEMMA ExtractScene ==
    ASSUME QInv, SInv, NEW w \in Clients, Extract(w)
    PROVE  SInv'
<1> USE DEF SInv
<1> DEFINE k == index[w]
           q == queues[k].records
           mine == FoldLeft(ApplyRecord, map[w], q)
           n == Len(queues)
<1>1. at = "extract" /\ w \in todo /\ w \in worlds /\ w \in ready /\ ready \subseteq worlds
  BY DEF Extract, Extracted
<1>2. k \in 1 .. n /\ queues[k] \in Queues /\ queues[k].open /\ q \in Seq(Records)
  BY <1>1, OwnQueue
<1>3. /\ map' = [map EXCEPT ![w] = mine]
      /\ queues' = [queues EXCEPT ![k] = Queue(<<>>)]
      /\ rows' = [e \in Entities |-> IF e \in mine \cap synced THEN w
                                     ELSE IF e \in synced THEN rows[e] ELSE Nobody]
      /\ staged' = [staged EXCEPT ![w] = {e \in synced : rows'[e] = w}]
      /\ todo' = (IF todo = {w} THEN ready ELSE todo \ {w})
      /\ at' = (IF todo = {w} THEN "update" ELSE at)
      /\ errors' = [errors EXCEPT ![w] = IF @ = "caught" THEN "stopped" ELSE @]
      /\ UNCHANGED <<conn, players, worlds, index, synced, surfaces, ready>>
  BY <1>2 DEF Extract, tabs, roster
<1>4. mine = synced
  BY <1>1, <1>2, ReadsScene DEF ToldTheScene
<1> HIDE DEF mine
<1>5. synced \subseteq Entities /\ queues \in Seq(Queues) /\ n \in Nat
      /\ map \in [Clients -> SUBSET Entities] /\ staged \in [Clients -> SUBSET Entities]
  BY DEF SceneTyped
<1>6. \A e \in synced : rows'[e] = w
  BY <1>3, <1>4, <1>5
<1>7. staged'[w] = synced /\ map'[w] = synced
      /\ \A c \in Clients : c # w => staged'[c] = staged[c] /\ map'[c] = map[c]
  BY <1>3, <1>4, <1>5, <1>6
<1>8. Queue(<<>>) \in Queues /\ Queue(<<>>).records = <<>>
  <2>1. <<>> \in Seq(Records)
    OBVIOUS
  <2> QED BY <2>1 DEF Queue, Queues
<1>9. /\ queues' \in Seq(Queues) /\ queues'[k] = Queue(<<>>)
      /\ \A i \in 1 .. n : i # k => queues'[i] = queues[i]
  <2> DEFINE x == Queue(<<>>)
  <2> HIDE DEF x
  <2>1. x \in Queues /\ queues' = [queues EXCEPT ![k] = x]
    BY <1>3, <1>8 DEF x
  <2> QED BY <1>2, <1>5, <2>1 DEF x
<1>10. SceneTyped'
  <2>1. map' \in [Clients -> SUBSET Entities] /\ staged' \in [Clients -> SUBSET Entities]
    BY <1>3, <1>4, <1>5
  <2>2. rows' \in [Entities -> Clients \cup {Nobody}]
    BY <1>3 DEF SceneTyped
  <2>3. errors' \in [Clients -> {"none", "caught", "stopped"}]
    BY <1>3 DEF SceneTyped
  <2> QED BY <1>3, <1>9, <2>1, <2>2, <2>3 DEF SceneTyped
<1>11. ASSUME NEW v \in worlds
       PROVE  Told(map'[v], queues'[index'[v]].records) = synced'
  <2>1. CASE v = w
    BY <1>3, <1>7, <1>8, <1>9, <2>1, ToldNothing
  <2>2. CASE v # w
    <3>1. v \in Clients /\ index[v] \in 1 .. n /\ index[v] # k
      BY <1>1, <2>2, OwnQueue DEF QInv, Indexed
    <3> QED BY <1>3, <1>7, <1>9, <2>2, <3>1 DEF ToldTheScene
  <2> QED BY <2>1, <2>2
<1>12. conn[w] \notin {"away", "unclaimed"}
  BY <1>1 DEF QInv, Roster
<1>13. ToldTheScene'
  BY <1>3, <1>7, <1>11, <1>12 DEF ToldTheScene
<1>14. Extracted'
  <2>1. \A c \in ready : c = w \/ c \in todo \/ (map[c] = synced /\ staged[c] = synced)
    BY <1>1 DEF Extracted
  <2>2. ready \subseteq Clients /\ todo \subseteq ready
    BY <1>1 DEF Extracted, SceneTyped
  <2> QED BY <1>1, <1>3, <1>7, <2>1, <2>2 DEF Extracted
<1> QED BY <1>10, <1>13, <1>14

LEMMA SceneNext == QInv /\ SInv /\ [Next]_vars => SInv'
<1> SUFFICES ASSUME QInv, SInv, [Next]_vars PROVE SInv'
  OBVIOUS
<1> USE DEF SInv, tabs, roster, syncState, mainWorld, renderState, frame
<1>1. ASSUME NEW c \in Clients, Tab(c)
      PROVE  SInv'
  <2>1. UNCHANGED <<at, players, worlds, queues, index, map, synced, rows, staged, surfaces,
                    ready, todo>>
        /\ errors' \in [Clients -> {"none", "caught", "stopped"}]
    BY <1>1 DEF Tab, Connect, Close, Acknowledge, DeviceError, SceneTyped
  <2>2. \A d \in Clients : conn'[d] \in {"away", "unclaimed"} => conn[d] \in {"away", "unclaimed"}
    BY <1>1 DEF Tab, Connect, Close, Acknowledge, DeviceError, QInv, Roster
  <2>3. SceneTyped'
    BY <2>1 DEF SceneTyped
  <2>4. ToldTheScene'
    BY <2>1, <2>2 DEF ToldTheScene
  <2>5. Extracted'
    BY <2>1 DEF Extracted
  <2> QED BY <2>3, <2>4, <2>5
<1>2. ASSUME NEW w \in Clients, Update(w)
      PROVE  SInv'
  <2>1. UNCHANGED <<conn, at, players, worlds, queues, index, map, synced, rows, staged, errors,
                    ready>>
        /\ todo' = todo \ {w} /\ at = "update"
    BY <1>2 DEF Update
  <2>2. surfaces' \subseteq Clients
    BY <1>2 DEF Update, Render, SceneTyped
  <2>3. SceneTyped'
    BY <2>1, <2>2 DEF SceneTyped
  <2>4. ToldTheScene'
    BY <2>1 DEF ToldTheScene
  <2>5. Extracted'
    BY <2>1 DEF Extracted
  <2> QED BY <2>3, <2>4, <2>5
<1>3. CASE EndFrame
  <2>1. UNCHANGED <<conn, players, worlds, queues, index, map, synced, rows, errors, surfaces,
                    todo>>
        /\ at' = "top" /\ ready' = {} /\ staged' = [c \in Clients |-> {}]
    BY <1>3 DEF EndFrame
  <2>2. SceneTyped'
    BY <2>1 DEF SceneTyped
  <2>3. ToldTheScene'
    BY <2>1 DEF ToldTheScene
  <2>4. Extracted'
    BY <2>1 DEF Extracted
  <2> QED BY <2>2, <2>3, <2>4
<1>4. CASE TooEarly \/ UNCHANGED vars
  <2>1. UNCHANGED <<conn, players, worlds, queues, index, map, synced, rows, staged, errors,
                    surfaces, ready, todo>>
        /\ at' \in {at, "top"}
    BY <1>4 DEF TooEarly, vars
  <2>2. SceneTyped'
    BY <2>1 DEF SceneTyped
  <2>3. ToldTheScene'
    BY <2>1 DEF ToldTheScene
  <2>4. Extracted'
    BY <2>1 DEF Extracted
  <2> QED BY <2>2, <2>3, <2>4
<1>5. ASSUME NEW c \in Clients, Join(c) \/ Extract(c) PROVE SInv'
  BY <1>5, JoinScene, ExtractScene
<1>6. CASE Departures \/ RunSchedule
  BY <1>6, DeparturesScene, RunScheduleScene
<1> QED BY <1>1, <1>2, <1>3, <1>4, <1>5, <1>6 DEF Next, Runner

LEMMA SceneInductive == Spec => []SInv
<1>1. Init => QInv /\ SInv
  BY QueuesInit, SceneInit
<1>2. QInv /\ SInv /\ [Next]_vars => (QInv /\ SInv)'
  BY QueuesNext, SceneNext
<1> QED BY <1>1, <1>2, PTL DEF Spec

(* A world that was rendered shows every entity of the scene and no other, *)
(* however many frames it skipped, whoever joined or left meanwhile, and   *)
(* though the rows of the main world pointed into another world before     *)
(* (sync_world.rs, entity_sync_system).                                    *)
THEOREM WorldsShowTheScene == Spec => []WorldsMirrorScene
<1>1. SInv => WorldsMirrorScene
  BY DEF SInv, Extracted, WorldsMirrorScene
<1> QED BY <1>1, SceneInductive, PTL

(* Every variable keeps its type, for every number of tabs: no index is    *)
(* ever of a queue that does not exist, and no tab has more frames to      *)
(* acknowledge than may be in flight.                                      *)
THEOREM TypeCorrect == Spec => []TypeOK
<1>1. QInv /\ Frames /\ SInv => TypeOK
  <2> SUFFICES ASSUME QInv, Frames, SInv PROVE TypeOK
    OBVIOUS
  <2>1. /\ conn \in [Clients -> {"away", "unclaimed", "playing", "closed"}]
        /\ pending \in [Clients -> 0 .. FramesInFlight]
        /\ players \subseteq worlds /\ worlds \subseteq Clients
    BY DEF QInv, Roster, Frames
  <2>2. queues \in Seq([open : BOOLEAN, records : Seq(Records)])
    BY DEF SInv, SceneTyped, Queues
  <2>3. DOMAIN queues = 1 .. Len(queues)
    BY <2>2
  <2>4. index \in [Clients -> DOMAIN queues]
    BY <2>3 DEF QInv, Indexed
  <2> QED BY <2>1, <2>2, <2>4 DEF SInv, SceneTyped, TypeOK
<1>2. Spec => []Frames
  BY FramesInit, FramesNext, PTL DEF Spec
<1> QED BY <1>1, <1>2, QueuesInductive, SceneInductive, PTL
=============================================================================
