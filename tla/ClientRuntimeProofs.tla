-------------------------- MODULE ClientRuntimeProofs --------------------------
(***************************************************************************)
(* Invariants of ClientRuntime, for any number of connections, threads and *)
(* bounds.                                                                 *)
(***************************************************************************)
EXTENDS ClientRuntime, FiniteSetTheorems, SequenceTheorems, TLAPS

-----------------------------------------------------------------------------
(* The inductive invariant.                                                *)

Running == {id \in Ids : reader[id] \notin {"absent", "gone"}}

\* The accept thread has looked at the counter and nobody else counts up.
LimitKept == admitting => live < MAX_CONNECTIONS

Inside == {"presenting", "requested"}

\* An application thread has the C lock from the call of Present until its
\* wait is registered; a thread that is doing something does it to a client.
LockHeld ==
    /\ lock # NoOne => app[lock].pc \in Inside
    /\ \A a \in Apps : app[a].pc \in Inside => lock = a
    /\ \A a \in Apps : app[a] = Free \/ (app[a].pc # "free" /\ app[a].id \in Ids)

\* The frames counted and not registered.
Requested(id) == {a \in Apps : app[a] = Doing("requested", id)}

\* Who presents has a handle.
PresentersHold == \A a \in Apps : app[a].pc \in Inside => handles[app[a].id] > 0

\* The C library may call a client only while its reader has not severed it.
ConnectedOwned ==
    \A id \in Ids : connected[id] =>
        reader[id] \in {"greeting", "listing", "queueing", "pumping", "ended", "severing"}

Distinct(seq) == \A i, j \in DOMAIN seq : seq[i] = seq[j] => i = j

ListedPlaces == {"queueing", "pumping", "ended", "severing", "unlisting"}

\* A listed client is listed once, and its reader has not taken it off.
ListedOwned ==
    /\ Distinct(clients)
    /\ \A i \in DOMAIN clients :
          reader[clients[i]] \in ListedPlaces

IInv ==
    /\ TypeOK
    /\ LiveExact
    /\ LimitKept
    /\ LockHeld
    /\ VsyncExact
    /\ PresentersHold
    /\ ConnectedOwned
    /\ ListedOwned

-----------------------------------------------------------------------------
(* Lists, sets and counts.                                                 *)

LEMMA WithoutIs ==
    ASSUME NEW S, NEW s \in Seq(S), NEW x, Distinct(s)
    PROVE  /\ Without(s, x) \in Seq(S)
           /\ Distinct(Without(s, x))
           /\ \A j \in DOMAIN Without(s, x) :
                 /\ Without(s, x)[j] # x
                 /\ \E k \in DOMAIN s : Without(s, x)[j] = s[k]
<1>1. CASE ~ \E i \in DOMAIN s : s[i] = x
  BY <1>1 DEF Without
<1>2. CASE \E i \in DOMAIN s : s[i] = x
  <2> DEFINE at == CHOOSE i \in DOMAIN s : s[i] = x
             w == Without(s, x)
  <2>1. at \in 1 .. Len(s) /\ s[at] = x
    BY <1>2
  <2>2. w = SubSeq(s, 1, at - 1) \o SubSeq(s, at + 1, Len(s))
    BY <1>2 DEF Without
  <2> HIDE DEF at, w
  <2> DEFINE before == SubSeq(s, 1, at - 1)
             after == SubSeq(s, at + 1, Len(s))
  <2>3. /\ before \in Seq(S) /\ Len(before) = at - 1
        /\ \A j \in 1 .. at - 1 : before[j] = s[j]
    BY <2>1
  <2>4. /\ after \in Seq(S) /\ Len(after) = Len(s) - at
        /\ \A j \in 1 .. Len(s) - at : after[j] = s[at + j]
    BY <2>1
  <2>5. /\ w \in Seq(S) /\ Len(w) = Len(s) - 1
        /\ \A j \in 1 .. Len(w) :
              w[j] = IF j < at THEN before[j] ELSE after[j - (at - 1)]
    <3>1. w = before \o after
      BY <2>2
    <3> HIDE DEF before, after
    <3>2. w \in Seq(S) /\ Len(w) = Len(before) + Len(after)
      BY <2>3, <2>4, <3>1, ConcatProperties
    <3>3. \A j \in 1 .. Len(before) + Len(after) :
             w[j] = IF j <= Len(before) THEN before[j] ELSE after[j - Len(before)]
      BY <2>3, <2>4, <3>1, ConcatProperties
    <3> QED
      BY <2>1, <2>3, <2>4, <3>2, <3>3
  <2> HIDE DEF before, after
  <2>6. \A j \in 1 .. Len(w) :
           /\ (IF j < at THEN j ELSE j + 1) \in 1 .. Len(s)
           /\ w[j] = s[IF j < at THEN j ELSE j + 1]
    BY <2>1, <2>3, <2>4, <2>5
  <2>7. DOMAIN w = 1 .. Len(w) /\ DOMAIN s = 1 .. Len(s)
    BY <2>5
  <2>8. \A j \in DOMAIN w : w[j] # x
    <3> SUFFICES ASSUME NEW j \in 1 .. Len(w) PROVE w[j] # x
      BY <2>7
    <3> DEFINE k == IF j < at THEN j ELSE j + 1
    <3>1. k \in DOMAIN s /\ at \in DOMAIN s /\ k # at /\ w[j] = s[k]
      BY <2>1, <2>6, <2>7
    <3> QED
      BY <2>1, <3>1 DEF Distinct
  <2>9. Distinct(w)
    <3> SUFFICES ASSUME NEW i \in 1 .. Len(w), NEW j \in 1 .. Len(w), w[i] = w[j] PROVE i = j
      BY <2>7 DEF Distinct
    <3> DEFINE k(m) == IF m < at THEN m ELSE m + 1
    <3>1. k(i) \in DOMAIN s /\ k(j) \in DOMAIN s /\ s[k(i)] = s[k(j)]
      BY <2>6, <2>7
    <3>2. k(i) = k(j)
      BY <3>1 DEF Distinct
    <3> QED
      BY <2>1, <3>2
  <2> QED
    BY <2>5, <2>6, <2>7, <2>8, <2>9 DEF w
<1> QED
  BY <1>1, <1>2

LEMMA WithoutType ==
    ASSUME NEW S, NEW s \in Seq(S), NEW x
    PROVE  Without(s, x) \in Seq(S)
<1>1. CASE ~ \E i \in DOMAIN s : s[i] = x
  BY <1>1 DEF Without
<1>2. CASE \E i \in DOMAIN s : s[i] = x
  <2> DEFINE at == CHOOSE i \in DOMAIN s : s[i] = x
  <2>1. at \in 1 .. Len(s)
    BY <1>2
  <2> HIDE DEF at
  <2>2. SubSeq(s, 1, at - 1) \in Seq(S) /\ SubSeq(s, at + 1, Len(s)) \in Seq(S)
    BY <2>1
  <2>3. SubSeq(s, 1, at - 1) \o SubSeq(s, at + 1, Len(s)) \in Seq(S)
    BY <2>2, ConcatProperties
  <2> QED
    BY <1>2, <2>3 DEF Without, at
<1> QED
  BY <1>1, <1>2

LEMMA RunningFinite ==
    ASSUME TypeOK
    PROVE  /\ IsFiniteSet(Running)
           /\ Cardinality(Running) \in Nat
<1>1. IsFiniteSet(Running)
  BY ClientRuntimeAssumption, FS_Subset DEF Running
<1> QED
  BY <1>1, FS_CardinalityType

LEMMA RequestedFinite ==
    ASSUME NEW id
    PROVE  /\ IsFiniteSet(Requested(id))
           /\ Cardinality(Requested(id)) \in Nat
<1>1. IsFiniteSet(Requested(id))
  BY ClientRuntimeAssumption, FS_Subset DEF Requested
<1> QED
  BY <1>1, FS_CardinalityType

LEMMA PresentersFinite ==
    ASSUME NEW id
    PROVE  /\ Cardinality(Presenters(id)) \in Nat
           /\ \A a \in Apps : app[a].id = id => Cardinality(Presenters(id)) > 0
<1>1. IsFiniteSet(Presenters(id))
  BY ClientRuntimeAssumption, FS_Subset DEF Presenters
<1>2. Cardinality(Presenters(id)) \in Nat
  BY <1>1, FS_CardinalityType
<1>3. Cardinality(Presenters(id)) = 0 <=> Presenters(id) = {}
  BY <1>1, FS_EmptySet
<1>4. \A a \in Apps : app[a].id = id => Presenters(id) # {}
  BY DEF Presenters
<1> QED
  BY <1>2, <1>3, <1>4

LEMMA OccurrencesCount ==
    ASSUME NEW S, NEW seq \in Seq(S), NEW x
    PROVE  /\ Occurrences(seq, x) \in Nat
           /\ Occurrences(seq, x) = 0 <=> \A i \in DOMAIN seq : seq[i] # x
<1> DEFINE at == {i \in DOMAIN seq : seq[i] = x}
<1>1. IsFiniteSet(1 .. Len(seq))
  BY FS_Interval
<1>2. IsFiniteSet(at)
  BY <1>1, FS_Subset
<1>3. Cardinality(at) \in Nat /\ (Cardinality(at) = 0 <=> at = {})
  BY <1>2, FS_CardinalityType, FS_EmptySet
<1> QED
  BY <1>3 DEF Occurrences

\* A connection that starts or ends is the only one that changes the count.
LEMMA LiveMoves ==
    ASSUME TypeOK, LiveExact, NEW id \in Ids, NEW to,
           reader' = With(reader, id, to),
           live' = live + (IF to \in {"absent", "gone"} THEN 0 ELSE 1)
                        - (IF reader[id] \in {"absent", "gone"} THEN 0 ELSE 1)
    PROVE  LiveExact'
<1>1. Running' = (Running \ {id}) \cup (IF to \in {"absent", "gone"} THEN {} ELSE {id})
  BY DEF TypeOK, With, Running
<1>2. IsFiniteSet(Running) /\ Cardinality(Running) \in Nat /\ live = Cardinality(Running)
  BY RunningFinite DEF LiveExact, Running
<1> DEFINE others == Running \ {id}
<1>3. /\ IsFiniteSet(others) /\ Cardinality(others) \in Nat
      /\ Cardinality(others) = Cardinality(Running) - (IF id \in Running THEN 1 ELSE 0)
  BY <1>2, FS_RemoveElement, FS_CardinalityType
<1>4. Cardinality(others \cup {id}) = Cardinality(others) + 1
  BY <1>3, FS_AddElement
<1>5. id \in Running <=> reader[id] \notin {"absent", "gone"}
  BY DEF Running
<1>6. live' = Cardinality(Running')
  <2>1. CASE to \in {"absent", "gone"}
    <3>1. Running' = others
      BY <1>1, <2>1
    <3> HIDE DEF others
    <3> QED
      BY <1>2, <1>3, <1>5, <2>1, <3>1
  <2>2. CASE to \notin {"absent", "gone"}
    <3>1. Running' = others \cup {id}
      BY <1>1, <2>2
    <3> HIDE DEF others
    <3> QED
      BY <1>2, <1>3, <1>4, <1>5, <2>2, <3>1
  <2> QED
    BY <2>1, <2>2
<1> QED
  BY <1>6 DEF LiveExact, Running

LEMMA LiveStays ==
    ASSUME TypeOK, LiveExact, NEW id \in Ids, NEW to, reader' = With(reader, id, to),
           reader[id] \notin {"absent", "gone"}, to \notin {"absent", "gone"},
           UNCHANGED live
    PROVE  LiveExact'
<1>1. Running' = Running
  BY DEF TypeOK, With, Running
<1> QED
  BY <1>1 DEF LiveExact, Running

\* Calling n of the callbacks of a client counts n frames off.
LEMMA VsyncSettles ==
    ASSUME TypeOK, VsyncExact, NEW id \in Ids, NEW n \in 0 .. waits[id],
           waits' = With(waits, id, waits[id] - n),
           vsync_pending' = With(vsync_pending, id, vsync_pending[id] - n),
           \A other \in Ids : Requested(other)' = Requested(other)
    PROVE  /\ VsyncExact'
           /\ waits' \in [Ids -> Nat]
           /\ vsync_pending' \in [Ids -> Nat]
<1>1. \A other \in Ids : /\ Cardinality(Requested(other)) \in Nat
                         /\ vsync_pending[other] = waits[other] + Cardinality(Requested(other))
  BY RequestedFinite DEF VsyncExact, Requested
<1>2. ASSUME NEW other \in Ids
      PROVE  /\ waits'[other] \in Nat /\ vsync_pending'[other] \in Nat
             /\ vsync_pending'[other] = waits'[other] + Cardinality(Requested(other))
  <2>1. /\ waits[other] \in Nat /\ vsync_pending[other] \in Nat
        /\ waits[id] \in Nat /\ vsync_pending[id] \in Nat
    BY DEF TypeOK
  <2>2. CASE other # id
    <3>1. waits'[other] = waits[other] /\ vsync_pending'[other] = vsync_pending[other]
      BY <2>2 DEF TypeOK, With
    <3> QED
      BY <1>1, <2>1, <3>1
  <2>3. CASE other = id
    <3>1. waits'[id] = waits[id] - n /\ vsync_pending'[id] = vsync_pending[id] - n
      BY DEF TypeOK, With
    <3> QED
      BY <1>1, <2>1, <2>3, <3>1
  <2> QED
    BY <2>2, <2>3
<1>3. \A other \in Ids :
         vsync_pending'[other] = waits'[other] + Cardinality(Requested(other)')
  BY <1>2
<1>4. waits' \in [Ids -> Nat] /\ vsync_pending' \in [Ids -> Nat]
  BY <1>2 DEF TypeOK, With
<1> QED
  BY <1>3, <1>4 DEF VsyncExact, Requested

\* Severing an adapter calls them all.
LEMMA VsyncSevered ==
    ASSUME TypeOK, VsyncExact, NEW id \in Ids,
           waits' = With(waits, id, 0),
           vsync_pending' = With(vsync_pending, id, vsync_pending[id] - waits[id]),
           \A other \in Ids : Requested(other)' = Requested(other)
    PROVE  /\ VsyncExact'
           /\ waits' \in [Ids -> Nat]
           /\ vsync_pending' \in [Ids -> Nat]
<1>1. waits[id] \in Nat
  BY DEF TypeOK
<1>2. waits[id] \in 0 .. waits[id] /\ waits[id] - waits[id] = 0
  BY <1>1
<1> QED
  BY <1>2, VsyncSettles

\* Only a frame counted or registered changes who has requested what.
LEMMA RequestedOthers ==
    ASSUME TypeOK, NEW a \in Apps, NEW doing, app' = With(app, a, doing),
           app[a].pc # "requested", doing.pc # "requested"
    PROVE  \A id \in Ids : Requested(id)' = Requested(id)
<1> SUFFICES ASSUME NEW id \in Ids PROVE Requested(id)' = Requested(id)
  OBVIOUS
<1>1. app[a] # Doing("requested", id) /\ doing # Doing("requested", id)
  BY DEF Doing
<1>2. \A b \in Apps : app'[b] = IF b = a THEN doing ELSE app[b]
  BY DEF TypeOK, With
<1> QED
  BY <1>1, <1>2 DEF Requested

\* An id stays listed by its right while its reader is before the unlisting.
LEMMA ListedKept ==
    ASSUME TypeOK, ListedOwned, NEW id \in Ids, NEW to, reader' = With(reader, id, to),
           UNCHANGED clients, reader[id] \in ListedPlaces => to \in ListedPlaces
    PROVE  ListedOwned'
<1>1. \A i \in DOMAIN clients : clients[i] \in Ids
  BY DEF TypeOK
<1>2. \A other \in Ids : reader'[other] = IF other = id THEN to ELSE reader[other]
  BY DEF TypeOK, With
<1> QED
  BY <1>1, <1>2 DEF ListedOwned

LEMMA FunctionUpdate ==
    ASSUME NEW D, NEW R, NEW f \in [D -> R], NEW x \in D, NEW v \in R
    PROVE  With(f, x, v) \in [D -> R]
BY DEF With

-----------------------------------------------------------------------------
(* Conjuncts whose variables a step leaves alone.                          *)

LEMMA LiveSame == ASSUME LiveExact, UNCHANGED <<live, reader>> PROVE LiveExact'
BY DEF LiveExact

LEMMA LimitSame == ASSUME LimitKept, UNCHANGED <<live, admitting>> PROVE LimitKept'
BY DEF LimitKept

LEMMA LockSame == ASSUME LockHeld, UNCHANGED <<lock, app>> PROVE LockHeld'
BY DEF LockHeld

LEMMA RequestedSame ==
    ASSUME UNCHANGED app PROVE \A id \in Ids : Requested(id)' = Requested(id)
BY DEF Requested

LEMMA VsyncSame ==
    ASSUME VsyncExact, UNCHANGED <<vsync_pending, waits>>,
           \A id \in Ids : Requested(id)' = Requested(id)
    PROVE  VsyncExact'
BY DEF VsyncExact, Requested

LEMMA HoldSame == ASSUME PresentersHold, UNCHANGED <<app, handles>> PROVE PresentersHold'
BY DEF PresentersHold

LEMMA ConnectedSame ==
    ASSUME ConnectedOwned, UNCHANGED <<connected, reader>> PROVE ConnectedOwned'
BY DEF ConnectedOwned

LEMMA ListedSame ==
    ASSUME ListedOwned, UNCHANGED <<clients, reader>> PROVE ListedOwned'
BY DEF ListedOwned

-----------------------------------------------------------------------------
(* The invariant holds at first and every step keeps it.                   *)

LEMMA InitHolds == Init => IInv
<1> SUFFICES ASSUME Init PROVE IInv
  OBVIOUS
<1>1. TypeOK
  <2>1. live \in 0 .. MAX_CONNECTIONS
    BY ClientRuntimeAssumption DEF Init
  <2>2. app \in [Apps -> [pc : AppPlaces, id : Ids \cup {NoOne}]]
    BY DEF Init, AppPlaces, Free
  <2>3. reader \in [Ids -> ReaderPlaces]
    BY DEF Init, ReaderPlaces
  <2>4. events \in [Ids -> Seq({"input", "Disconnected"})]
    BY DEF Init
  <2>5. /\ handles \in [Ids -> Nat] /\ vsync_pending \in [Ids -> Nat]
        /\ waits \in [Ids -> Nat] /\ sent \in [Ids -> Nat]
        /\ presents \in [Ids -> Nat] /\ delivered \in [Ids -> Nat]
    BY DEF Init
  <2>6. clients \in Seq(Ids) /\ unclaimed \in Seq(Ids)
    BY DEF Init
  <2>7. /\ disconnected \in [Ids -> BOOLEAN] /\ connected \in [Ids -> BOOLEAN]
        /\ freed \in [Ids -> BOOLEAN] /\ admitting \in BOOLEAN
        /\ lock \in Apps \cup {NoOne}
    BY DEF Init
  <2> QED
    BY <2>1, <2>2, <2>3, <2>4, <2>5, <2>6, <2>7 DEF TypeOK
<1>2. Running = {} /\ \A id \in Ids : Requested(id) = {}
  BY DEF Init, Running, Requested, Free, Doing
<1>3. Cardinality({}) = 0
  BY FS_EmptySet
<1>4. live = Cardinality(Running) /\ LiveExact
  BY <1>2, <1>3 DEF Init, LiveExact, Running
<1>5. \A id \in Ids : vsync_pending[id] = waits[id] + Cardinality(Requested(id))
  <2> SUFFICES ASSUME NEW id \in Ids
               PROVE  vsync_pending[id] = waits[id] + Cardinality(Requested(id))
    OBVIOUS
  <2>1. vsync_pending[id] = 0 /\ waits[id] = 0
    BY DEF Init
  <2> QED
    BY <1>2, <1>3, <2>1
<1>6. VsyncExact
  BY <1>5 DEF VsyncExact, Requested
<1>7. LimitKept /\ LockHeld /\ PresentersHold /\ ConnectedOwned /\ ListedOwned
  BY DEF Init, LimitKept, LockHeld, PresentersHold, ConnectedOwned, ListedOwned, Distinct,
         Inside, Free
<1> QED
  BY <1>1, <1>4, <1>6, <1>7 DEF IInv

LEMMA StepHolds == IInv /\ [Next]_vars => IInv'
<1> SUFFICES ASSUME TypeOK, LiveExact, LimitKept, LockHeld, VsyncExact, PresentersHold,
                    ConnectedOwned, ListedOwned, [Next]_vars
             PROVE  IInv'
  BY DEF IInv
<1> USE DEF accepting, listing, native, history
<1>1. ASSUME Admit PROVE IInv'
  <2>1. TypeOK'
    BY <1>1 DEF Admit, TypeOK
  <2>2. LimitKept'
    BY <1>1 DEF Admit, LimitKept
  <2>3. LiveExact' /\ LockHeld' /\ VsyncExact' /\ PresentersHold' /\ ConnectedOwned' /\
     ListedOwned'
    BY <1>1, LiveSame, LockSame, VsyncSame, RequestedSame, HoldSame, ConnectedSame,
       ListedSame DEF Admit
  <2> QED
    BY <2>1, <2>2, <2>3 DEF IInv
<1>2. ASSUME NEW id \in Ids, SpawnReader(id) PROVE IInv'
  <2>1. TypeOK'
    <3>1. live' \in 0 .. MAX_CONNECTIONS
      BY <1>2, ClientRuntimeAssumption DEF SpawnReader, TypeOK, LimitKept
    <3>2. reader' \in [Ids -> ReaderPlaces]
      BY <1>2, FunctionUpdate DEF SpawnReader, TypeOK, ReaderPlaces
    <3> QED
      BY <1>2, <3>1, <3>2 DEF SpawnReader, TypeOK
  <2>2. LiveExact'
    <3>1. live' = live + 1 /\ reader' = With(reader, id, "accepted") /\ live \in Int
          /\ reader[id] = "absent"
      BY <1>2 DEF SpawnReader, NextId, TypeOK
    <3>2. live' = live + (IF "accepted" \in {"absent", "gone"} THEN 0 ELSE 1)
                       - (IF reader[id] \in {"absent", "gone"} THEN 0 ELSE 1)
      BY <3>1
    <3> QED
      BY <3>1, <3>2, LiveMoves
  <2>3. LimitKept'
    BY <1>2 DEF SpawnReader, LimitKept
  <2>4. ConnectedOwned'
    BY <1>2 DEF SpawnReader, NextId, TypeOK, With, ConnectedOwned
  <2>5. ListedOwned'
    BY <1>2, ListedKept DEF SpawnReader, NextId, ListedPlaces
  <2>6. LockHeld' /\ VsyncExact' /\ PresentersHold'
    BY <1>2, LockSame, VsyncSame, RequestedSame, HoldSame DEF SpawnReader
  <2> QED
    BY <2>1, <2>2, <2>3, <2>4, <2>5, <2>6 DEF IInv
<1>3. ASSUME NEW id \in Ids, NoClient(id) PROVE IInv'
  <2>1. TypeOK'
    <3>1. reader' \in [Ids -> ReaderPlaces]
      BY <1>3, FunctionUpdate DEF NoClient, TypeOK, Moves, ReaderPlaces
    <3> QED
      BY <1>3, <3>1 DEF NoClient, TypeOK
  <2>2. LiveExact'
    BY <1>3, LiveStays DEF NoClient, Moves
  <2>3. ConnectedOwned'
    BY <1>3 DEF NoClient, TypeOK, Moves, With, ConnectedOwned
  <2>4. ListedOwned'
    BY <1>3, ListedKept DEF NoClient, Moves, ListedPlaces
  <2>5. LimitKept' /\ LockHeld' /\ VsyncExact' /\ PresentersHold'
    BY <1>3, LimitSame, LockSame, VsyncSame, RequestedSame, HoldSame DEF NoClient
  <2> QED
    BY <2>1, <2>2, <2>3, <2>4, <2>5 DEF IInv
<1>4. ASSUME NEW id \in Ids, CreateClient(id) PROVE IInv'
  <2>1. TypeOK'
    <3>1. reader' \in [Ids -> ReaderPlaces]
      BY <1>4, FunctionUpdate DEF CreateClient, TypeOK, Moves, ReaderPlaces
    <3>2. connected' \in [Ids -> BOOLEAN]
      BY <1>4, FunctionUpdate DEF CreateClient, TypeOK
    <3> QED
      BY <1>4, <3>1, <3>2 DEF CreateClient, TypeOK
  <2>2. LiveExact'
    BY <1>4, LiveStays DEF CreateClient, Moves
  <2>3. ConnectedOwned'
    BY <1>4 DEF CreateClient, TypeOK, Moves, With, ConnectedOwned
  <2>4. ListedOwned'
    BY <1>4, ListedKept DEF CreateClient, Moves, ListedPlaces
  <2>5. LimitKept' /\ LockHeld' /\ VsyncExact' /\ PresentersHold'
    BY <1>4, LimitSame, LockSame, VsyncSame, RequestedSame, HoldSame
       DEF CreateClient
  <2> QED
    BY <2>1, <2>2, <2>3, <2>4, <2>5 DEF IInv
<1>5. ASSUME NEW id \in Ids, HandshakeDone(id) PROVE IInv'
  <2>1. TypeOK'
    <3>1. reader' \in [Ids -> ReaderPlaces]
      BY <1>5, FunctionUpdate DEF HandshakeDone, TypeOK, Moves, ReaderPlaces
    <3> QED
      BY <1>5, <3>1 DEF HandshakeDone, TypeOK
  <2>2. LiveExact'
    BY <1>5, LiveStays DEF HandshakeDone, Moves
  <2>3. ConnectedOwned'
    BY <1>5 DEF HandshakeDone, TypeOK, Moves, With, ConnectedOwned
  <2>4. ListedOwned'
    BY <1>5, ListedKept DEF HandshakeDone, Moves, ListedPlaces
  <2>5. LimitKept' /\ LockHeld' /\ VsyncExact' /\ PresentersHold'
    BY <1>5, LimitSame, LockSame, VsyncSame, RequestedSame, HoldSame
       DEF HandshakeDone
  <2> QED
    BY <2>1, <2>2, <2>3, <2>4, <2>5 DEF IInv
<1>6. ASSUME NEW id \in Ids, List(id) PROVE IInv'
  <2>1. TypeOK'
    <3>1. reader' \in [Ids -> ReaderPlaces]
      BY <1>6, FunctionUpdate DEF List, TypeOK, Moves, ReaderPlaces
    <3>2. clients' \in Seq(Ids)
      BY <1>6 DEF List, TypeOK
    <3> QED
      BY <1>6, <3>1, <3>2 DEF List, TypeOK
  <2>2. LiveExact'
    BY <1>6, LiveStays DEF List, Moves
  <2>3. ConnectedOwned'
    BY <1>6 DEF List, TypeOK, Moves, With, ConnectedOwned
  <2>4. ListedOwned'
    <3>1. /\ clients' = Append(clients, id) /\ reader'[id] = "queueing"
          /\ reader[id] = "listing"
          /\ \A other \in Ids \ {id} : reader'[other] = reader[other]
      BY <1>6 DEF List, TypeOK, Moves, With
    <3>2. /\ clients \in Seq(Ids) /\ DOMAIN clients = 1 .. Len(clients)
          /\ \A i \in DOMAIN clients : clients[i] \in Ids
      BY DEF TypeOK
    <3>3. \A i \in DOMAIN clients : clients[i] # id
      BY <3>1, <3>2 DEF ListedOwned, ListedPlaces
    <3>4. /\ DOMAIN clients' = 1 .. Len(clients) + 1 /\ clients'[Len(clients) + 1] = id
          /\ \A i \in 1 .. Len(clients) : clients'[i] = clients[i]
      BY <3>1, <3>2
    <3>5. Distinct(clients')
      BY <3>2, <3>3, <3>4 DEF ListedOwned, Distinct
    <3>6. \A i \in DOMAIN clients' : reader'[clients'[i]] \in ListedPlaces
      BY <3>1, <3>2, <3>3, <3>4 DEF ListedOwned, ListedPlaces
    <3> QED
      BY <3>5, <3>6 DEF ListedOwned, Distinct
  <2>5. LimitKept' /\ LockHeld' /\ VsyncExact' /\ PresentersHold'
    BY <1>6, LimitSame, LockSame, VsyncSame, RequestedSame, HoldSame DEF List
  <2> QED
    BY <2>1, <2>2, <2>3, <2>4, <2>5 DEF IInv
<1>7. ASSUME NEW id \in Ids, Queue(id) PROVE IInv'
  <2>1. TypeOK'
    <3>1. reader' \in [Ids -> ReaderPlaces]
      BY <1>7, FunctionUpdate DEF Queue, TypeOK, Moves, ReaderPlaces
    <3>2. unclaimed' \in Seq(Ids)
      BY <1>7 DEF Queue, TypeOK
    <3> QED
      BY <1>7, <3>1, <3>2 DEF Queue, TypeOK
  <2>2. LiveExact'
    BY <1>7, LiveStays DEF Queue, Moves
  <2>3. ConnectedOwned'
    BY <1>7 DEF Queue, TypeOK, Moves, With, ConnectedOwned
  <2>4. ListedOwned'
    BY <1>7, ListedKept DEF Queue, Moves, ListedPlaces
  <2>5. LimitKept' /\ LockHeld' /\ VsyncExact' /\ PresentersHold'
    BY <1>7, LimitSame, LockSame, VsyncSame, RequestedSame, HoldSame DEF Queue
  <2> QED
    BY <2>1, <2>2, <2>3, <2>4, <2>5 DEF IInv
<1>8. ASSUME NEW id \in Ids, ReceiveEvent(id) PROVE IInv'
  <2>1. TypeOK'
    <3>1. events[id] \in Seq({"input", "Disconnected"})
      BY DEF TypeOK
    <3>2. Len(events[id]) >= MAX_PENDING_EVENTS => events[id] # <<>>
      BY <3>1, ClientRuntimeAssumption
    <3> DEFINE kept == IF Len(events[id]) >= MAX_PENDING_EVENTS
                       THEN Tail(events[id]) ELSE events[id]
    <3>3. kept \in Seq({"input", "Disconnected"})
      BY <3>1, <3>2
    <3>4. Append(kept, "input") \in Seq({"input", "Disconnected"})
      BY <3>3
    <3>5. events' \in [Ids -> Seq({"input", "Disconnected"})]
      BY <1>8, <3>4, FunctionUpdate DEF ReceiveEvent, TypeOK
    <3>6. sent[id] + 1 \in Nat
      BY DEF TypeOK
    <3>7. sent' \in [Ids -> Nat]
      BY <1>8, <3>6, FunctionUpdate DEF ReceiveEvent, TypeOK
    <3> QED
      BY <1>8, <3>5, <3>7 DEF ReceiveEvent, TypeOK
  <2>2. LiveExact' /\ LimitKept' /\ LockHeld' /\ VsyncExact' /\ PresentersHold' /\
     ConnectedOwned' /\ ListedOwned'
    BY <1>8, LiveSame, LimitSame, LockSame, VsyncSame, RequestedSame, HoldSame,
       ConnectedSame, ListedSame DEF ReceiveEvent
  <2> QED
    BY <2>1, <2>2 DEF IInv
<1>9. ASSUME NEW id \in Ids, ReceivePresentDone(id) PROVE IInv'
  <2>1. VsyncExact' /\ waits' \in [Ids -> Nat] /\ vsync_pending' \in [Ids -> Nat]
    <3>1. 1 \in 0 .. waits[id]
      BY <1>9 DEF ReceivePresentDone, TypeOK
    <3> QED
      BY <1>9, <3>1, VsyncSettles, RequestedSame DEF ReceivePresentDone
  <2>2. TypeOK'
    BY <1>9, <2>1 DEF ReceivePresentDone, TypeOK
  <2>3. LiveExact' /\ LimitKept' /\ LockHeld' /\ PresentersHold' /\ ConnectedOwned' /\
     ListedOwned'
    BY <1>9, LiveSame, LimitSame, LockSame, HoldSame, ConnectedSame, ListedSame
       DEF ReceivePresentDone
  <2> QED
    BY <2>1, <2>2, <2>3 DEF IInv
<1>10. ASSUME NEW id \in Ids, HangUp(id) PROVE IInv'
  <2>1. TypeOK'
    <3>1. reader' \in [Ids -> ReaderPlaces]
      BY <1>10, FunctionUpdate DEF HangUp, TypeOK, ReaderPlaces
    <3> QED
      BY <1>10, <3>1 DEF HangUp, TypeOK
  <2>2. LiveExact'
    BY <1>10, LiveStays DEF HangUp, Moves
  <2>3. ConnectedOwned'
    BY <1>10 DEF HangUp, TypeOK, With, ConnectedOwned
  <2>4. ListedOwned'
    BY <1>10, ListedKept DEF HangUp, ListedPlaces
  <2>5. LimitKept' /\ LockHeld' /\ VsyncExact' /\ PresentersHold'
    BY <1>10, LimitSame, LockSame, VsyncSame, RequestedSame, HoldSame DEF HangUp
  <2> QED
    BY <2>1, <2>2, <2>3, <2>4, <2>5 DEF IInv
<1>11. ASSUME NEW id \in Ids, FlagDisconnected(id) PROVE IInv'
  <2>1. TypeOK'
    <3>1. reader' \in [Ids -> ReaderPlaces]
      BY <1>11, FunctionUpdate
         DEF FlagDisconnected, TypeOK, With, Moves, ReaderPlaces
    <3> QED
      BY <1>11, <3>1 DEF FlagDisconnected, TypeOK, With
  <2>2. LiveExact'
    BY <1>11, LiveStays DEF FlagDisconnected, Moves
  <2>3. ConnectedOwned'
    BY <1>11 DEF FlagDisconnected, TypeOK, Moves, With, ConnectedOwned
  <2>4. ListedOwned'
    BY <1>11, ListedKept DEF FlagDisconnected, Moves, ListedPlaces
  <2>5. LimitKept' /\ LockHeld' /\ VsyncExact' /\ PresentersHold'
    BY <1>11, LimitSame, LockSame, VsyncSame, RequestedSame, HoldSame
       DEF FlagDisconnected
  <2> QED
    BY <2>1, <2>2, <2>3, <2>4, <2>5 DEF IInv
<1>12. ASSUME NEW id \in Ids, Sever(id) PROVE IInv'
  <2>1. VsyncExact' /\ waits' \in [Ids -> Nat] /\ vsync_pending' \in [Ids -> Nat]
    BY <1>12, VsyncSevered, RequestedSame DEF Sever
  <2>2. TypeOK'
    <3>1. reader' \in [Ids -> ReaderPlaces]
      BY <1>12, FunctionUpdate DEF Sever, TypeOK, Moves, ReaderPlaces
    <3>2. connected' \in [Ids -> BOOLEAN]
      BY <1>12, FunctionUpdate DEF Sever, TypeOK
    <3> QED
      BY <1>12, <3>1, <3>2, <2>1 DEF Sever, TypeOK
  <2>3. LiveExact'
    BY <1>12, LiveStays DEF Sever, Moves
  <2>4. ConnectedOwned'
    BY <1>12 DEF Sever, TypeOK, Moves, With, ConnectedOwned
  <2>5. ListedOwned'
    BY <1>12, ListedKept DEF Sever, Moves, ListedPlaces
  <2>6. LimitKept' /\ LockHeld' /\ PresentersHold'
    BY <1>12, LimitSame, LockSame, HoldSame DEF Sever
  <2> QED
    BY <2>1, <2>2, <2>3, <2>4, <2>5, <2>6 DEF IInv
<1>13. ASSUME NEW id \in Ids, Unlist(id) PROVE IInv'
  <2>1. TypeOK'
    <3>1. reader' \in [Ids -> ReaderPlaces]
      BY <1>13, FunctionUpdate DEF Unlist, TypeOK, Moves, ReaderPlaces
    <3>2. clients' \in Seq(Ids)
      BY <1>13, WithoutIs DEF Unlist, TypeOK, ListedOwned
    <3> QED
      BY <1>13, <3>1, <3>2 DEF Unlist, TypeOK
  <2>2. LiveExact'
    BY <1>13, LiveStays DEF Unlist, Moves
  <2>3. ConnectedOwned'
    BY <1>13 DEF Unlist, TypeOK, Moves, With, ConnectedOwned
  <2>4. ListedOwned'
    <3>1. /\ clients' = Without(clients, id)
          /\ \A other \in Ids \ {id} : reader'[other] = reader[other]
      BY <1>13 DEF Unlist, TypeOK, Moves, With
    <3>2. clients \in Seq(Ids) /\ \A i \in DOMAIN clients : clients[i] \in Ids
      BY DEF TypeOK
    <3>3. /\ Distinct(clients')
          /\ \A j \in DOMAIN clients' :
                clients'[j] # id /\ \E k \in DOMAIN clients : clients'[j] = clients[k]
      BY <3>1, <3>2, WithoutIs DEF ListedOwned
    <3>4. \A j \in DOMAIN clients' : reader'[clients'[j]] \in ListedPlaces
      BY <3>1, <3>2, <3>3 DEF ListedOwned
    <3> QED
      BY <3>3, <3>4 DEF ListedOwned, Distinct
  <2>5. LimitKept' /\ LockHeld' /\ VsyncExact' /\ PresentersHold'
    BY <1>13, LimitSame, LockSame, VsyncSame, RequestedSame, HoldSame DEF Unlist
  <2> QED
    BY <2>1, <2>2, <2>3, <2>4, <2>5 DEF IInv
<1>14. ASSUME NEW id \in Ids, Unqueue(id) PROVE IInv'
  <2>1. TypeOK'
    <3>1. reader' \in [Ids -> ReaderPlaces]
      BY <1>14, FunctionUpdate DEF Unqueue, TypeOK, Moves, ReaderPlaces
    <3>2. unclaimed' \in Seq(Ids)
      BY <1>14, WithoutType DEF Unqueue, TypeOK
    <3> QED
      BY <1>14, <3>1, <3>2 DEF Unqueue, TypeOK
  <2>2. LiveExact'
    BY <1>14, LiveStays DEF Unqueue, Moves
  <2>3. ConnectedOwned'
    BY <1>14 DEF Unqueue, TypeOK, Moves, With, ConnectedOwned
  <2>4. ListedOwned'
    BY <1>14, ListedKept DEF Unqueue, Moves, ListedPlaces
  <2>5. LimitKept' /\ LockHeld' /\ VsyncExact' /\ PresentersHold'
    BY <1>14, LimitSame, LockSame, VsyncSame, RequestedSame, HoldSame DEF Unqueue
  <2> QED
    BY <2>1, <2>2, <2>3, <2>4, <2>5 DEF IInv
<1>15. ASSUME NEW id \in Ids, ReportDisconnected(id) PROVE IInv'
  <2>1. TypeOK'
    <3>1. events[id] \in Seq({"input", "Disconnected"})
      BY DEF TypeOK
    <3>2. Append(events[id], "Disconnected") \in Seq({"input", "Disconnected"})
      BY <3>1
    <3>3. events' \in [Ids -> Seq({"input", "Disconnected"})]
      BY <1>15, <3>2, FunctionUpdate DEF ReportDisconnected, TypeOK
    <3>4. reader' \in [Ids -> ReaderPlaces]
      BY <1>15, FunctionUpdate DEF ReportDisconnected, TypeOK, Moves, ReaderPlaces
    <3> QED
      BY <1>15, <3>3, <3>4 DEF ReportDisconnected, TypeOK
  <2>2. LiveExact'
    BY <1>15, LiveStays DEF ReportDisconnected, Moves
  <2>3. ConnectedOwned'
    BY <1>15 DEF ReportDisconnected, TypeOK, Moves, With, ConnectedOwned
  <2>4. ListedOwned'
    BY <1>15, ListedKept DEF ReportDisconnected, Moves, ListedPlaces
  <2>5. LimitKept' /\ LockHeld' /\ VsyncExact' /\ PresentersHold'
    BY <1>15, LimitSame, LockSame, VsyncSame, RequestedSame, HoldSame
       DEF ReportDisconnected
  <2> QED
    BY <2>1, <2>2, <2>3, <2>4, <2>5 DEF IInv
<1>16. ASSUME NEW id \in Ids, ReaderLeaves(id) PROVE IInv'
  <2>1. TypeOK'
    <3>1. reader' \in [Ids -> ReaderPlaces]
      BY <1>16, FunctionUpdate DEF ReaderLeaves, TypeOK, Moves, ReaderPlaces
    <3> QED
      BY <1>16, <3>1 DEF ReaderLeaves, TypeOK
  <2>2. LiveExact'
    BY <1>16, LiveStays DEF ReaderLeaves, Moves
  <2>3. ConnectedOwned'
    BY <1>16 DEF ReaderLeaves, TypeOK, Moves, With, ConnectedOwned
  <2>4. ListedOwned'
    BY <1>16, ListedKept DEF ReaderLeaves, Moves, ListedPlaces
  <2>5. LimitKept' /\ LockHeld' /\ VsyncExact' /\ PresentersHold'
    BY <1>16, LimitSame, LockSame, VsyncSame, RequestedSame, HoldSame
       DEF ReaderLeaves
  <2> QED
    BY <2>1, <2>2, <2>3, <2>4, <2>5 DEF IInv
<1>17. ASSUME NEW id \in Ids, ReaderDrops(id) PROVE IInv'
  <2>1. VsyncExact' /\ waits' \in [Ids -> Nat] /\ vsync_pending' \in [Ids -> Nat]
    BY <1>17, VsyncSevered, RequestedSame DEF ReaderDrops, DropClient
  <2>2. TypeOK'
    <3>1. reader' \in [Ids -> ReaderPlaces]
      BY <1>17, FunctionUpdate
         DEF ReaderDrops, DropClient, TypeOK, Moves, ReaderPlaces
    <3>2. connected' \in [Ids -> BOOLEAN]
      BY <1>17, FunctionUpdate DEF ReaderDrops, DropClient, TypeOK
    <3>3. freed' \in [Ids -> BOOLEAN]
      BY <1>17, FunctionUpdate DEF ReaderDrops, DropClient, TypeOK
    <3> QED
      BY <1>17, <3>1, <3>2, <3>3, <2>1 DEF ReaderDrops, DropClient, TypeOK
  <2>3. LiveExact'
    BY <1>17, LiveStays DEF ReaderDrops, DropClient, Moves
  <2>4. ConnectedOwned'
    BY <1>17 DEF ReaderDrops, DropClient, TypeOK, Moves, With, ConnectedOwned
  <2>5. ListedOwned'
    BY <1>17, ListedKept DEF ReaderDrops, DropClient, Moves, ListedPlaces
  <2>6. LimitKept' /\ LockHeld' /\ PresentersHold'
    BY <1>17, LimitSame, LockSame, HoldSame DEF ReaderDrops, DropClient
  <2> QED
    BY <2>1, <2>2, <2>3, <2>4, <2>5, <2>6 DEF IInv
<1>18. ASSUME NEW id \in Ids, ReaderReturns(id) PROVE IInv'
  <2>1. TypeOK'
    <3>1. id \in Running
      BY <1>18 DEF ReaderReturns, Moves, Running
    <3>2. live \in Nat \ {0}
      BY <3>1, RunningFinite, FS_EmptySet DEF LiveExact, Running
    <3>3. live' \in 0 .. MAX_CONNECTIONS
      BY <1>18, <3>2, ClientRuntimeAssumption DEF ReaderReturns, TypeOK
    <3>4. reader' \in [Ids -> ReaderPlaces]
      BY <1>18, FunctionUpdate DEF ReaderReturns, TypeOK, Moves, ReaderPlaces
    <3> QED
      BY <1>18, <3>3, <3>4 DEF ReaderReturns, TypeOK
  <2>2. LiveExact'
    <3>1. live' = live - 1 /\ reader' = With(reader, id, "gone") /\ live \in Int
          /\ reader[id] = "returned"
      BY <1>18 DEF ReaderReturns, Moves, TypeOK
    <3>2. live' = live + (IF "gone" \in {"absent", "gone"} THEN 0 ELSE 1)
                       - (IF reader[id] \in {"absent", "gone"} THEN 0 ELSE 1)
      BY <3>1
    <3> QED
      BY <3>1, <3>2, LiveMoves
  <2>3. LimitKept'
    BY <1>18, <2>1, ClientRuntimeAssumption DEF ReaderReturns, LimitKept, TypeOK
  <2>4. ConnectedOwned'
    BY <1>18 DEF ReaderReturns, TypeOK, Moves, With, ConnectedOwned
  <2>5. ListedOwned'
    BY <1>18, ListedKept DEF ReaderReturns, Moves, ListedPlaces
  <2>6. LockHeld' /\ VsyncExact' /\ PresentersHold'
    BY <1>18, LockSame, VsyncSame, RequestedSame, HoldSame DEF ReaderReturns
  <2> QED
    BY <2>1, <2>2, <2>3, <2>4, <2>5, <2>6 DEF IInv
<1>19. ASSUME NEW a \in Apps, ClaimClient(a) PROVE IInv'
  <2>1. TypeOK'
    <3>1. Head(unclaimed) \in Ids /\ Tail(unclaimed) \in Seq(Ids)
      BY <1>19, HeadTailProperties DEF ClaimClient, TypeOK
    <3>2. PICK id \in Ids : Head(unclaimed) = id
      BY <3>1
    <3>3. handles[id] + 1 \in Nat
      BY DEF TypeOK
    <3>4. handles' = With(handles, id, handles[id] + 1)
      BY <1>19, <3>2 DEF ClaimClient
    <3>5. handles' \in [Ids -> Nat]
      BY <3>3, <3>4, FunctionUpdate DEF TypeOK
    <3> QED
      BY <1>19, <3>1, <3>5 DEF ClaimClient,  TypeOK
  <2>2. PresentersHold'
    <3>1. \A id \in Ids : handles'[id] \in {handles[id], handles[id] + 1}
      BY <1>19 DEF ClaimClient, TypeOK, With
    <3>2. app' = app /\ \A b \in Apps : app[b].pc \in Inside => app[b].id \in Ids
      BY <1>19 DEF ClaimClient, LockHeld, Free, Inside
    <3>3. \A id \in Ids : handles[id] \in Nat
      BY DEF TypeOK
    <3>4. \A id \in Ids : handles[id] > 0 => handles'[id] > 0
      BY <3>1, <3>3
    <3> QED
      BY <3>2, <3>4 DEF PresentersHold
  <2>3. LiveExact' /\ LimitKept' /\ LockHeld' /\ VsyncExact' /\ ConnectedOwned' /\
     ListedOwned'
    BY <1>19, LiveSame, LimitSame, LockSame, VsyncSame, RequestedSame,
       ConnectedSame,
       ListedSame DEF ClaimClient
  <2> QED
    BY <2>1, <2>2, <2>3 DEF IInv
<1>20. ASSUME NEW a \in Apps, NEW id \in Ids, UpgradeListed(a, id) PROVE IInv'
  <2>1. TypeOK'
    <3>1. handles' \in [Ids -> Nat]
      BY <1>20 DEF UpgradeListed, TypeOK, With
    <3> QED
      BY <1>20, <3>1 DEF UpgradeListed, TypeOK
  <2>2. PresentersHold'
    BY <1>20
       DEF UpgradeListed, TypeOK, With, PresentersHold, LockHeld, Free, Doing,
       Inside
  <2>3. LiveExact' /\ LimitKept' /\ LockHeld' /\ VsyncExact' /\ ConnectedOwned' /\
     ListedOwned'
    BY <1>20, LiveSame, LimitSame, LockSame, VsyncSame, RequestedSame,
       ConnectedSame,
       ListedSame DEF UpgradeListed
  <2> QED
    BY <2>1, <2>2, <2>3 DEF IInv
<1>21. ASSUME NEW a \in Apps, NEW id \in Ids, PollEvent(a, id) PROVE IInv'
  <2>1. TypeOK'
    <3>1. events[id] \in Seq({"input", "Disconnected"}) /\ events[id] # <<>>
      BY <1>21 DEF PollEvent, TypeOK
    <3>2. Tail(events[id]) \in Seq({"input", "Disconnected"})
      BY <3>1
    <3>3. events' \in [Ids -> Seq({"input", "Disconnected"})]
      BY <1>21, <3>2, FunctionUpdate DEF PollEvent, TypeOK
    <3>4. delivered[id] + 1 \in Nat
      BY DEF TypeOK
    <3>5. delivered' \in [Ids -> Nat]
      BY <1>21, <3>4, FunctionUpdate DEF PollEvent, TypeOK
    <3> QED
      BY <1>21, <3>3, <3>5 DEF PollEvent, TypeOK
  <2>2. LiveExact' /\ LimitKept' /\ LockHeld' /\ VsyncExact' /\ PresentersHold' /\
     ConnectedOwned' /\ ListedOwned'
    BY <1>21, LiveSame, LimitSame, LockSame, VsyncSame, RequestedSame, HoldSame,
       ConnectedSame, ListedSame DEF PollEvent
  <2> QED
    BY <2>1, <2>2 DEF IInv
<1>22. ASSUME NEW a \in Apps, NEW id \in Ids, wgpuSurfacePresent(a, id) PROVE IInv'
  <2>1. TypeOK'
    <3>1. app' \in [Apps -> [pc : AppPlaces, id : Ids \cup {NoOne}]]
      BY <1>22, FunctionUpdate
         DEF wgpuSurfacePresent, TypeOK, AppPlaces, Doing, Free
    <3>2. lock' \in Apps \cup {NoOne}
      BY <1>22 DEF wgpuSurfacePresent, TypeOK
    <3>3. presents[id] + 1 \in Nat
      BY DEF TypeOK
    <3>4. presents' \in [Ids -> Nat]
      BY <1>22, <3>3, FunctionUpdate DEF wgpuSurfacePresent, TypeOK
    <3> QED
      BY <1>22, <3>1, <3>2, <3>4 DEF wgpuSurfacePresent, TypeOK
  <2>2. LockHeld'
    BY <1>22, ClientRuntimeAssumption
       DEF wgpuSurfacePresent, TypeOK, With, LockHeld, Free, Doing, Inside
  <2>3. VsyncExact'
    BY <1>22, RequestedOthers, VsyncSame DEF wgpuSurfacePresent, Doing, Free
  <2>4. PresentersHold'
    <3>1. handles[id] > 0
      BY <1>22, PresentersFinite DEF wgpuSurfacePresent, TypeOK
    <3> QED
      BY <1>22, <3>1
         DEF wgpuSurfacePresent, TypeOK, With, PresentersHold, Doing, Inside
  <2>5. LiveExact' /\ LimitKept' /\ ConnectedOwned' /\ ListedOwned'
    BY <1>22, LiveSame, LimitSame, ConnectedSame, ListedSame DEF wgpuSurfacePresent
  <2> QED
    BY <2>1, <2>2, <2>3, <2>4, <2>5 DEF IInv
<1>23. ASSUME NEW a \in Apps, vsync_requested(a) PROVE IInv'
  <2>1. VsyncExact' /\ waits' \in [Ids -> Nat] /\ vsync_pending' \in [Ids -> Nat]
    <3>1. PICK id \in Ids : app[a] = Doing("presenting", id) /\ app[a].id = id
      BY <1>23 DEF vsync_requested, LockHeld, Free, Doing, TypeOK
    <3>2. Requested(id)' = Requested(id) \cup {a} /\ a \notin Requested(id)
      BY <1>23, <3>1 DEF vsync_requested, TypeOK, With, Requested, Doing
    <3>3. \A other \in Ids \ {id} : Requested(other)' = Requested(other)
      BY <1>23, <3>1 DEF vsync_requested, TypeOK, With, Requested, Doing
    <3>4. Cardinality(Requested(id) \cup {a}) = Cardinality(Requested(id)) + 1
      BY <3>2, RequestedFinite, FS_AddElement
    <3>5. /\ waits' = waits
          /\ vsync_pending' \in [Ids -> Nat]
          /\ vsync_pending'[id] = vsync_pending[id] + 1
          /\ \A other \in Ids \ {id} : vsync_pending'[other] = vsync_pending[other]
      BY <1>23, <3>1 DEF vsync_requested, TypeOK, With
    <3>6. \A other \in Ids :
             /\ Cardinality(Requested(other)) \in Nat /\ waits[other] \in Nat
             /\ vsync_pending[other] = waits[other] + Cardinality(Requested(other))
      BY RequestedFinite DEF VsyncExact, Requested, TypeOK
    <3>7. \A other \in Ids :
             vsync_pending'[other] = waits'[other] + Cardinality(Requested(other)')
      <4>1. Cardinality(Requested(id)') = Cardinality(Requested(id)) + 1
        BY <3>2, <3>4
      <4>2. vsync_pending'[id] = waits'[id] + Cardinality(Requested(id)')
        BY <3>5, <3>6, <4>1
      <4>3. \A other \in Ids \ {id} :
               vsync_pending'[other] = waits'[other] + Cardinality(Requested(other)')
        BY <3>3, <3>5, <3>6
      <4> QED
        BY <4>2, <4>3
    <3> QED
      BY <3>5, <3>7 DEF VsyncExact, Requested, TypeOK
  <2>2. TypeOK'
    <3>1. app' \in [Apps -> [pc : AppPlaces, id : Ids \cup {NoOne}]]
      BY <1>23, FunctionUpdate DEF vsync_requested, TypeOK, AppPlaces, Doing, Free
    <3> QED
      BY <1>23, <3>1, <2>1 DEF vsync_requested, TypeOK
  <2>3. LockHeld'
    BY <1>23, ClientRuntimeAssumption
       DEF vsync_requested, TypeOK, With, LockHeld, Free, Doing, Inside
  <2>4. PresentersHold'
    BY <1>23
       DEF vsync_requested, TypeOK, With, PresentersHold, LockHeld, Free, Doing,
       Inside
  <2>5. LiveExact' /\ LimitKept' /\ ConnectedOwned' /\ ListedOwned'
    BY <1>23, LiveSame, LimitSame, ConnectedSame, ListedSame DEF vsync_requested
  <2> QED
    BY <2>1, <2>2, <2>3, <2>4, <2>5 DEF IInv
<1>24. ASSUME NEW a \in Apps, wgpuRemoteSurfaceOnNextVsync(a) PROVE IInv'
  <2>1. VsyncExact' /\ waits' \in [Ids -> Nat] /\ vsync_pending' \in [Ids -> Nat]
    <3>1. PICK id \in Ids : app[a] = Doing("requested", id) /\ app[a].id = id
      BY <1>24 DEF wgpuRemoteSurfaceOnNextVsync, LockHeld, Free, Doing, TypeOK
    <3>2. Requested(id)' = Requested(id) \ {a} /\ a \in Requested(id)
      <4>1. \A b \in Apps : app'[b] = IF b = a THEN Free ELSE app[b]
        BY <1>24 DEF wgpuRemoteSurfaceOnNextVsync, TypeOK, With
      <4>2. Free # Doing("requested", id)
        BY DEF Free, Doing
      <4> QED
        BY <3>1, <4>1, <4>2 DEF Requested
    <3>3. \A other \in Ids \ {id} : Requested(other)' = Requested(other)
      BY <1>24, <3>1
         DEF wgpuRemoteSurfaceOnNextVsync, TypeOK, With, Requested, Doing, Free
    <3>4. /\ Cardinality(Requested(id) \ {a}) = Cardinality(Requested(id)) - 1
          /\ Cardinality(Requested(id) \ {a}) \in Nat
      BY <3>2, RequestedFinite, FS_RemoveElement, FS_CardinalityType
    <3>5. \A other \in Ids :
             /\ Cardinality(Requested(other)) \in Nat /\ waits[other] \in Nat
             /\ vsync_pending[other] = waits[other] + Cardinality(Requested(other))
      BY RequestedFinite DEF VsyncExact, Requested, TypeOK
    <3>6. /\ \A other \in Ids \ {id} : /\ vsync_pending'[other] = vsync_pending[other]
                                      /\ waits'[other] = waits[other]
          /\ \/ waits'[id] = waits[id] + 1 /\ vsync_pending'[id] = vsync_pending[id]
             \/ waits'[id] = waits[id] /\ vsync_pending'[id] = vsync_pending[id] - 1
          /\ DOMAIN waits' = Ids /\ DOMAIN vsync_pending' = Ids
          /\ waits' = [x \in Ids |-> waits'[x]]
          /\ vsync_pending' = [x \in Ids |-> vsync_pending'[x]]
      BY <1>24, <3>1 DEF wgpuRemoteSurfaceOnNextVsync, TypeOK, With
    <3>7. \A other \in Ids :
             /\ vsync_pending'[other] = waits'[other] + Cardinality(Requested(other)')
             /\ vsync_pending'[other] \in Nat /\ waits'[other] \in Nat
      <4>1. /\ Cardinality(Requested(id)') = Cardinality(Requested(id)) - 1
            /\ Cardinality(Requested(id)') \in Nat
        BY <3>2, <3>4
      <4>2. /\ vsync_pending'[id] = waits'[id] + Cardinality(Requested(id)')
            /\ vsync_pending'[id] \in Nat /\ waits'[id] \in Nat
        BY <3>5, <3>6, <4>1
      <4>3. \A other \in Ids \ {id} :
               /\ vsync_pending'[other] = waits'[other] + Cardinality(Requested(other)')
               /\ vsync_pending'[other] \in Nat /\ waits'[other] \in Nat
        BY <3>3, <3>5, <3>6
      <4> QED
        BY <4>2, <4>3
    <3> QED
      BY <3>6, <3>7 DEF VsyncExact, Requested
  <2>2. TypeOK'
    <3>1. app' \in [Apps -> [pc : AppPlaces, id : Ids \cup {NoOne}]]
      BY <1>24, FunctionUpdate
         DEF wgpuRemoteSurfaceOnNextVsync, TypeOK, AppPlaces, Doing, Free
    <3> QED
      BY <1>24, <3>1, <2>1 DEF wgpuRemoteSurfaceOnNextVsync, TypeOK
  <2>3. LockHeld'
    BY <1>24, ClientRuntimeAssumption
       DEF wgpuRemoteSurfaceOnNextVsync, TypeOK, With, LockHeld, Free, Doing, Inside
  <2>4. PresentersHold'
    BY <1>24
       DEF wgpuRemoteSurfaceOnNextVsync, TypeOK, With, PresentersHold, LockHeld,
       Free, Doing, Inside
  <2>5. LiveExact' /\ LimitKept' /\ ConnectedOwned' /\ ListedOwned'
    BY <1>24, LiveSame, LimitSame, ConnectedSame, ListedSame
       DEF wgpuRemoteSurfaceOnNextVsync
  <2> QED
    BY <2>1, <2>2, <2>3, <2>4, <2>5 DEF IInv
<1>25. ASSUME NEW a \in Apps, NEW id \in Ids, DropHandle(a, id) PROVE IInv'
  <2>1. TypeOK'
    <3>1. app' \in [Apps -> [pc : AppPlaces, id : Ids \cup {NoOne}]]
      BY <1>25, FunctionUpdate DEF DropHandle, TypeOK, AppPlaces, Doing, Free
    <3>2. handles' \in [Ids -> Nat]
      BY <1>25, PresentersFinite DEF DropHandle, TypeOK, With
    <3> QED
      BY <1>25, <3>1, <3>2 DEF DropHandle, TypeOK
  <2>2. LockHeld'
    BY <1>25, ClientRuntimeAssumption
       DEF DropHandle, TypeOK, With, LockHeld, Free, Doing, Inside
  <2>3. VsyncExact'
    <3>1. \A other \in Ids : Requested(other)' = Requested(other)
      BY <1>25, RequestedOthers, RequestedSame DEF DropHandle, Doing, Free
    <3> QED
      BY <1>25, <3>1, VsyncSame DEF DropHandle
  <2>4. PresentersHold'
    <3>1. \A b \in Apps : b # a /\ app[b].id = id => handles[id] - 1 > 0
      BY <1>25, PresentersFinite DEF DropHandle, TypeOK
    <3> QED
      BY <1>25, <3>1
         DEF DropHandle, TypeOK, With, PresentersHold, Doing, Free, Inside
  <2>5. LiveExact' /\ LimitKept' /\ ConnectedOwned' /\ ListedOwned'
    BY <1>25, LiveSame, LimitSame, ConnectedSame, ListedSame DEF DropHandle
  <2> QED
    BY <2>1, <2>2, <2>3, <2>4, <2>5 DEF IInv
<1>26. ASSUME NEW a \in Apps, AppDrops(a) PROVE IInv'
  <2>1. VsyncExact' /\ waits' \in [Ids -> Nat] /\ vsync_pending' \in [Ids -> Nat]
    <3>1. app[a].id \in Ids
      BY <1>26 DEF AppDrops, DropClient, LockHeld, Free
    <3>2. \A other \in Ids : Requested(other)' = Requested(other)
      BY <1>26, RequestedOthers DEF AppDrops, DropClient, Free
    <3> QED
      BY <1>26, <3>1, <3>2, VsyncSevered DEF AppDrops, DropClient
  <2>2. TypeOK'
    <3>1. app' \in [Apps -> [pc : AppPlaces, id : Ids \cup {NoOne}]]
      BY <1>26, FunctionUpdate
         DEF AppDrops, DropClient, TypeOK, AppPlaces, Doing, Free
    <3>2. app[a].id \in Ids
      BY <1>26 DEF AppDrops, LockHeld, Free
    <3>3. connected' \in [Ids -> BOOLEAN]
      BY <1>26, <3>2, FunctionUpdate DEF AppDrops, DropClient, TypeOK
    <3>4. freed' \in [Ids -> BOOLEAN]
      BY <1>26, <3>2, FunctionUpdate DEF AppDrops, DropClient, TypeOK
    <3> QED
      BY <1>26, <3>1, <3>3, <3>4, <2>1 DEF AppDrops, DropClient, TypeOK
  <2>3. LockHeld'
    BY <1>26, ClientRuntimeAssumption
       DEF AppDrops, DropClient, TypeOK, With, LockHeld, Free, Doing, Inside
  <2>4. PresentersHold'
    BY <1>26
       DEF AppDrops, DropClient, TypeOK, With, PresentersHold, LockHeld, Free,
       Doing, Inside
  <2>5. ConnectedOwned'
    BY <1>26 DEF AppDrops, DropClient, TypeOK, With, ConnectedOwned
  <2>6. LiveExact' /\ LimitKept' /\ ListedOwned'
    BY <1>26, LiveSame, LimitSame, ListedSame DEF AppDrops, DropClient
  <2> QED
    BY <2>1, <2>2, <2>3, <2>4, <2>5, <2>6 DEF IInv
<1>27. ASSUME UNCHANGED vars PROVE IInv'
  <2>1. TypeOK'
    BY <1>27 DEF vars, TypeOK
  <2>2. LiveExact' /\ LimitKept' /\ LockHeld' /\ VsyncExact' /\ PresentersHold'
        /\ ConnectedOwned' /\ ListedOwned'
    BY <1>27, LiveSame, LimitSame, LockSame, VsyncSame, RequestedSame, HoldSame,
       ConnectedSame, ListedSame DEF vars
  <2> QED
    BY <2>1, <2>2 DEF IInv
<1> QED
  BY <1>1, <1>2, <1>3, <1>4, <1>5, <1>6, <1>7, <1>8, <1>9, <1>10, <1>11, <1>12,
     <1>13, <1>14, <1>15, <1>16, <1>17, <1>18, <1>19, <1>20, <1>21, <1>22, <1>23,
     <1>24, <1>25, <1>26, <1>27 DEF Next, Reader, Teardown, App

-----------------------------------------------------------------------------
(* The last event of a client.                                             *)

Late == {"leaving", "dropping", "returned", "gone"}
Marked == {"severing", "unlisting", "unqueueing", "reporting"}
Reported(id) == disconnected[id] /\ reader[id] \in Late
OnlyAtEnd(seq) == \A i \in DOMAIN seq : seq[i] = "Disconnected" => i = Len(seq)
AtEnd(seq) == Len(seq) > 0 /\ seq[Len(seq)] = "Disconnected"

\* Queued as the last event when the reader reports, gone when it is read.
LastEvent(id) ==
    /\ reader[id] \in Marked => disconnected[id]
    /\ reader[id] \in {"absent", "accepted"} => ~disconnected[id]
    /\ OnlyAtEnd(events[id])
    /\ Len(events[id]) <= MAX_PENDING_EVENTS + (IF Reported(id) THEN 1 ELSE 0)
    /\ delivered[id] = IF Reported(id) /\ ~AtEnd(events[id]) THEN 1 ELSE 0
    /\ AtEnd(events[id]) => Reported(id)

LastEvents == \A id \in Ids : LastEvent(id)

LEMMA OccurrencesAtEnd ==
    ASSUME NEW S, NEW seq \in Seq(S), OnlyAtEnd(seq)
    PROVE  Occurrences(seq, "Disconnected") = IF AtEnd(seq) THEN 1 ELSE 0
<1> DEFINE at == {i \in DOMAIN seq : seq[i] = "Disconnected"}
<1>1. CASE AtEnd(seq)
  <2>1. at = {Len(seq)}
    BY <1>1 DEF OnlyAtEnd, AtEnd
  <2>2. Cardinality({Len(seq)}) = 1
    BY FS_Singleton
  <2> QED
    BY <1>1, <2>1, <2>2 DEF Occurrences
<1>2. CASE ~AtEnd(seq)
  <2>1. at = {}
    BY <1>2 DEF OnlyAtEnd, AtEnd
  <2>2. Cardinality({}) = 0
    BY FS_EmptySet
  <2> QED
    BY <1>2, <2>1, <2>2 DEF Occurrences
<1> QED
  BY <1>1, <1>2

LEMMA LastEventsSame ==
    ASSUME LastEvents, UNCHANGED <<reader, disconnected, events, delivered>>
    PROVE  LastEvents'
BY DEF LastEvents, LastEvent, Reported

\* A reader that moves reports nothing.
LEMMA LastEventsMove ==
    ASSUME TypeOK, LastEvents, NEW id \in Ids, NEW to, reader' = With(reader, id, to),
           UNCHANGED <<disconnected, events, delivered>>,
           to \in Marked => disconnected[id],
           to \notin {"absent", "accepted"} \/ ~disconnected[id],
           (disconnected[id] /\ to \in Late) <=> Reported(id)
    PROVE  LastEvents'
<1>1. \A other \in Ids : reader'[other] = IF other = id THEN to ELSE reader[other]
  BY DEF TypeOK, With
<1>2. \A other \in Ids : Reported(other)' <=> Reported(other)
  BY <1>1 DEF Reported
<1> SUFFICES ASSUME NEW other \in Ids PROVE LastEvent(other)'
  BY DEF LastEvents
<1>3. LastEvent(other)
  BY DEF LastEvents
<1> QED
  BY <1>1, <1>2, <1>3 DEF LastEvent

\* Only the queue of one client changes.
LEMMA LastEventsOf ==
    ASSUME LastEvents, NEW id \in Ids, LastEvent(id)',
           \A other \in Ids \ {id} :
              /\ reader'[other] = reader[other]
              /\ disconnected'[other] = disconnected[other]
              /\ events'[other] = events[other]
              /\ delivered'[other] = delivered[other]
    PROVE  LastEvents'
BY DEF LastEvents, LastEvent, Reported

LEMMA LastEventsStep ==
    ASSUME TypeOK, LastEvents, [Next]_vars
    PROVE  LastEvents'
<1> USE DEF accepting, listing, native, history
<1>1. ASSUME Admit PROVE LastEvents'
  BY <1>1, LastEventsSame DEF Admit
<1>2. ASSUME NEW id \in Ids, SpawnReader(id) PROVE LastEvents'
  <2>1. LastEvent(id)
    BY DEF LastEvents
  <2> QED
    BY <1>2, <2>1, LastEventsMove
       DEF SpawnReader, NextId, Moves, LastEvent, Reported, Late, Marked
<1>3. ASSUME NEW id \in Ids, NoClient(id) PROVE LastEvents'
  <2>1. LastEvent(id)
    BY DEF LastEvents
  <2> QED
    BY <1>3, <2>1, LastEventsMove
       DEF NoClient, Moves, LastEvent, Reported, Late, Marked
<1>4. ASSUME NEW id \in Ids, CreateClient(id) PROVE LastEvents'
  <2>1. LastEvent(id)
    BY DEF LastEvents
  <2> QED
    BY <1>4, <2>1, LastEventsMove
       DEF CreateClient, Moves, LastEvent, Reported, Late, Marked
<1>5. ASSUME NEW id \in Ids, HandshakeDone(id) PROVE LastEvents'
  <2>1. LastEvent(id)
    BY DEF LastEvents
  <2> QED
    BY <1>5, <2>1, LastEventsMove
       DEF HandshakeDone, Moves, LastEvent, Reported, Late, Marked
<1>6. ASSUME NEW id \in Ids, List(id) PROVE LastEvents'
  <2>1. LastEvent(id)
    BY DEF LastEvents
  <2> QED
    BY <1>6, <2>1, LastEventsMove DEF List, Moves, LastEvent, Reported, Late, Marked
<1>7. ASSUME NEW id \in Ids, Queue(id) PROVE LastEvents'
  <2>1. LastEvent(id)
    BY DEF LastEvents
  <2> QED
    BY <1>7, <2>1, LastEventsMove
       DEF Queue, Moves, LastEvent, Reported, Late, Marked
<1>8. ASSUME NEW id \in Ids, ReceiveEvent(id) PROVE LastEvents'
  <2> DEFINE seq == events[id]
             kept == IF Len(seq) >= MAX_PENDING_EVENTS THEN Tail(seq) ELSE seq
  <2>1. /\ reader[id] \in {"greeting", "pumping"}
        /\ UNCHANGED <<reader, disconnected, delivered>>
        /\ events' = With(events, id, Append(kept, "input"))
    BY <1>8 DEF ReceiveEvent
  <2>2. LastEvent(id) /\ ~Reported(id)
    BY <2>1 DEF LastEvents, Reported, Late
  <2>3. seq \in Seq({"input", "Disconnected"}) /\ MAX_PENDING_EVENTS \in Nat \ {0}
    BY ClientRuntimeAssumption DEF TypeOK
  <2>4. Len(seq) <= MAX_PENDING_EVENTS /\ \A i \in DOMAIN seq : seq[i] # "Disconnected"
    BY <2>2, <2>3 DEF LastEvent, OnlyAtEnd, AtEnd
  <2> HIDE DEF seq
  <2>5. /\ kept \in Seq({"input", "Disconnected"}) /\ Len(kept) < MAX_PENDING_EVENTS
        /\ \A i \in 1 .. Len(kept) : kept[i] # "Disconnected"
    <3>1. CASE Len(seq) >= MAX_PENDING_EVENTS
      <4>1. seq # <<>> /\ kept = Tail(seq)
        BY <2>3, <3>1
      <4> QED
        BY <2>3, <2>4, <4>1, HeadTailProperties
    <3>2. CASE ~(Len(seq) >= MAX_PENDING_EVENTS)
      BY <2>3, <2>4, <3>2
    <3> QED
      BY <3>1, <3>2
  <2> HIDE DEF kept
  <2> DEFINE next == Append(kept, "input")
  <2>6. /\ Len(next) <= MAX_PENDING_EVENTS /\ Len(next) \in Nat
        /\ \A i \in DOMAIN next : next[i] # "Disconnected"
        /\ Len(next) \in DOMAIN next
    BY <2>3, <2>5
  <2> HIDE DEF next
  <2>7. OnlyAtEnd(next) /\ ~AtEnd(next)
    BY <2>6 DEF OnlyAtEnd, AtEnd
  <2>8. /\ events'[id] = next
        /\ \A other \in Ids \ {id} : events'[other] = events[other]
    BY <2>1 DEF TypeOK, With, next
  <2>9. ~Reported(id)'
    BY <2>1, <2>2 DEF Reported
  <2>10. LastEvent(id)'
    BY <2>1, <2>2, <2>3, <2>6, <2>7, <2>8, <2>9 DEF LastEvent
  <2> QED
    BY <2>1, <2>8, <2>10, LastEventsOf
<1>9. ASSUME NEW id \in Ids, ReceivePresentDone(id) PROVE LastEvents'
  BY <1>9, LastEventsSame DEF ReceivePresentDone
<1>10. ASSUME NEW id \in Ids, HangUp(id) PROVE LastEvents'
  <2>1. LastEvent(id)
    BY DEF LastEvents
  <2> QED
    BY <1>10, <2>1, LastEventsMove DEF HangUp, LastEvent, Reported, Late, Marked
<1>11. ASSUME NEW id \in Ids, FlagDisconnected(id) PROVE LastEvents'
  <2>1. /\ reader[id] = "ended" /\ reader'[id] = "severing" /\ disconnected'[id] = TRUE
        /\ UNCHANGED <<events, delivered>>
        /\ \A other \in Ids \ {id} : reader'[other] = reader[other]
                                   /\ disconnected'[other] = disconnected[other]
    BY <1>11 DEF FlagDisconnected, TypeOK, Moves, With
  <2>2. LastEvent(id) /\ ~Reported(id) /\ ~Reported(id)'
    BY <2>1 DEF LastEvents, Reported, Late
  <2>3. LastEvent(id)'
    BY <2>1, <2>2 DEF LastEvent
  <2> QED
    BY <2>1, <2>3, LastEventsOf
<1>12. ASSUME NEW id \in Ids, Sever(id) PROVE LastEvents'
  <2>1. LastEvent(id)
    BY DEF LastEvents
  <2> QED
    BY <1>12, <2>1, LastEventsMove
       DEF Sever, Moves, LastEvent, Reported, Late, Marked
<1>13. ASSUME NEW id \in Ids, Unlist(id) PROVE LastEvents'
  <2>1. LastEvent(id)
    BY DEF LastEvents
  <2> QED
    BY <1>13, <2>1, LastEventsMove
       DEF Unlist, Moves, LastEvent, Reported, Late, Marked
<1>14. ASSUME NEW id \in Ids, Unqueue(id) PROVE LastEvents'
  <2>1. LastEvent(id)
    BY DEF LastEvents
  <2> QED
    BY <1>14, <2>1, LastEventsMove
       DEF Unqueue, Moves, LastEvent, Reported, Late, Marked
<1>15. ASSUME NEW id \in Ids, ReportDisconnected(id) PROVE LastEvents'
  <2> DEFINE seq == events[id]
             next == Append(seq, "Disconnected")
  <2>1. /\ reader[id] = "reporting" /\ reader'[id] = "leaving"
        /\ UNCHANGED <<disconnected, delivered>>
        /\ events'[id] = next
        /\ \A other \in Ids \ {id} : reader'[other] = reader[other]
                                   /\ events'[other] = events[other]
    BY <1>15 DEF ReportDisconnected, TypeOK, Moves, With
  <2>2. LastEvent(id) /\ ~Reported(id)
    BY <2>1 DEF LastEvents, Reported, Late
  <2>3. disconnected[id] /\ Reported(id)'
    BY <2>1, <2>2 DEF LastEvent, Reported, Late, Marked
  <2>4. seq \in Seq({"input", "Disconnected"}) /\ MAX_PENDING_EVENTS \in Nat
    BY ClientRuntimeAssumption DEF TypeOK
  <2>5. Len(seq) <= MAX_PENDING_EVENTS /\ \A i \in DOMAIN seq : seq[i] # "Disconnected"
    BY <2>2, <2>4 DEF LastEvent, OnlyAtEnd, AtEnd
  <2> HIDE DEF seq
  <2>6. /\ Len(next) <= MAX_PENDING_EVENTS + 1 /\ OnlyAtEnd(next) /\ AtEnd(next)
    BY <2>4, <2>5 DEF OnlyAtEnd, AtEnd
  <2> HIDE DEF next
  <2>7. delivered[id] = 0
    BY <2>2 DEF LastEvent
  <2>8. LastEvent(id)'
    BY <2>1, <2>3, <2>6, <2>7 DEF LastEvent, Marked
  <2> QED
    BY <2>1, <2>8, LastEventsOf
<1>16. ASSUME NEW id \in Ids, ReaderLeaves(id) PROVE LastEvents'
  <2>1. LastEvent(id)
    BY DEF LastEvents
  <2> QED
    BY <1>16, <2>1, LastEventsMove
       DEF ReaderLeaves, Moves, LastEvent, Reported, Late, Marked
<1>17. ASSUME NEW id \in Ids, ReaderDrops(id) PROVE LastEvents'
  <2>1. LastEvent(id)
    BY DEF LastEvents
  <2> QED
    BY <1>17, <2>1, LastEventsMove
       DEF ReaderDrops, DropClient, Moves, LastEvent, Reported, Late, Marked
<1>18. ASSUME NEW id \in Ids, ReaderReturns(id) PROVE LastEvents'
  <2>1. LastEvent(id)
    BY DEF LastEvents
  <2> QED
    BY <1>18, <2>1, LastEventsMove
       DEF ReaderReturns, Moves, LastEvent, Reported, Late, Marked
<1>19. ASSUME NEW a \in Apps, ClaimClient(a) PROVE LastEvents'
  BY <1>19, LastEventsSame DEF ClaimClient
<1>20. ASSUME NEW a \in Apps, NEW id \in Ids, UpgradeListed(a, id) PROVE LastEvents'
  BY <1>20, LastEventsSame DEF UpgradeListed
<1>21. ASSUME NEW a \in Apps, NEW id \in Ids, PollEvent(a, id) PROVE LastEvents'
  <2> DEFINE seq == events[id]
             next == Tail(seq)
  <2>1. /\ seq # <<>> /\ UNCHANGED <<reader, disconnected>>
        /\ events'[id] = next
        /\ delivered'[id] = IF Head(seq) = "Disconnected" THEN delivered[id] + 1 ELSE delivered[id]
        /\ \A other \in Ids \ {id} : delivered'[other] = delivered[other]
                                   /\ events'[other] = events[other]
    BY <1>21 DEF PollEvent, TypeOK, With
  <2>2. LastEvent(id) /\ (Reported(id)' <=> Reported(id))
    BY <2>1 DEF LastEvents, Reported
  <2>3. seq \in Seq({"input", "Disconnected"}) /\ MAX_PENDING_EVENTS \in Nat
    BY ClientRuntimeAssumption DEF TypeOK
  <2>4. OnlyAtEnd(seq)
    BY <2>2 DEF LastEvent
  <2> HIDE DEF seq
  <2>5. /\ Len(next) = Len(seq) - 1 /\ Len(seq) \in Nat \ {0} /\ Head(seq) = seq[1]
        /\ next \in Seq({"input", "Disconnected"})
        /\ \A i \in 1 .. Len(next) : next[i] = seq[i + 1]
    BY <2>1, <2>3, HeadTailProperties
  <2> HIDE DEF next
  <2>6. OnlyAtEnd(next)
    BY <2>3, <2>4, <2>5 DEF OnlyAtEnd
  <2>7. CASE Len(seq) = 1
    <3>1. ~AtEnd(next) /\ (AtEnd(seq) <=> Head(seq) = "Disconnected")
      BY <2>5, <2>7 DEF AtEnd
    <3>2. LastEvent(id)'
      BY <2>1, <2>2, <2>3, <2>5, <2>6, <2>7, <3>1 DEF LastEvent, seq
    <3> QED
      BY <2>1, <3>2, LastEventsOf
  <2>8. CASE Len(seq) # 1
    <3>1. Head(seq) # "Disconnected" /\ (AtEnd(next) <=> AtEnd(seq))
      BY <2>3, <2>4, <2>5, <2>8 DEF AtEnd, OnlyAtEnd
    <3>2. LastEvent(id)'
      BY <2>1, <2>2, <2>3, <2>5, <2>6, <3>1 DEF LastEvent, seq
    <3> QED
      BY <2>1, <3>2, LastEventsOf
  <2> QED
    BY <2>7, <2>8
<1>22. ASSUME NEW a \in Apps, NEW id \in Ids, wgpuSurfacePresent(a, id) PROVE LastEvents'
  BY <1>22, LastEventsSame DEF wgpuSurfacePresent
<1>23. ASSUME NEW a \in Apps, vsync_requested(a) PROVE LastEvents'
  BY <1>23, LastEventsSame DEF vsync_requested
<1>24. ASSUME NEW a \in Apps, wgpuRemoteSurfaceOnNextVsync(a) PROVE LastEvents'
  BY <1>24, LastEventsSame DEF wgpuRemoteSurfaceOnNextVsync
<1>25. ASSUME NEW a \in Apps, NEW id \in Ids, DropHandle(a, id) PROVE LastEvents'
  BY <1>25, LastEventsSame DEF DropHandle
<1>26. ASSUME NEW a \in Apps, AppDrops(a) PROVE LastEvents'
  BY <1>26, LastEventsSame DEF AppDrops, DropClient
<1>27. ASSUME UNCHANGED vars PROVE LastEvents'
  BY <1>27, LastEventsSame DEF vars
<1> QED
  BY <1>1, <1>2, <1>3, <1>4, <1>5, <1>6, <1>7, <1>8, <1>9, <1>10, <1>11, <1>12,
     <1>13, <1>14, <1>15, <1>16, <1>17, <1>18, <1>19, <1>20, <1>21, <1>22, <1>23,
     <1>24, <1>25, <1>26, <1>27 DEF Next, Reader, Teardown, App

LEMMA LastEventsInit == Init => LastEvents
<1> SUFFICES ASSUME Init, NEW id \in Ids PROVE LastEvent(id)
  BY DEF LastEvents
<1>1. /\ reader[id] = "absent" /\ ~disconnected[id] /\ events[id] = <<>>
      /\ delivered[id] = 0
  BY DEF Init
<1>2. Len(events[id]) = 0 /\ DOMAIN events[id] = {}
  BY <1>1
<1> QED
  BY <1>1, <1>2, ClientRuntimeAssumption
     DEF LastEvent, Reported, OnlyAtEnd, AtEnd, Marked, Late

-----------------------------------------------------------------------------
(* What the invariants say.                                                *)

\* Whoever has no owner is called by nobody: its reader has severed it, nobody
\* presents to it, no callback is pending.
LEMMA Unowned == IInv => SafeToFree
<1> SUFFICES ASSUME TypeOK, LockHeld, VsyncExact, PresentersHold, ConnectedOwned,
                    ListedOwned, NEW id \in Ids, Strong(id) = 0
             PROVE  ~connected[id] /\ vsync_pending[id] = 0 /\ Occurrences(clients, id) = 0
  BY DEF IInv, SafeToFree
<1>1. Occurrences(unclaimed, id) \in Nat
  BY OccurrencesCount DEF TypeOK
<1>2. handles[id] \in Nat /\ waits[id] \in Nat
  BY DEF TypeOK
<1>3. reader[id] \notin Owning /\ handles[id] = 0 /\ waits[id] = 0
  BY <1>1, <1>2 DEF Strong
<1>4. ~connected[id]
  BY <1>3 DEF ConnectedOwned, Owning
<1>5. \A i \in DOMAIN clients : clients[i] # id
  BY <1>3 DEF ListedOwned, ListedPlaces, Owning
<1>6. Occurrences(clients, id) = 0
  BY <1>5, OccurrencesCount DEF TypeOK
<1>7. Requested(id) = {}
  BY <1>3 DEF PresentersHold, Requested, Doing, Inside
<1>8. Cardinality(Requested(id)) = 0
  BY <1>7, FS_EmptySet
<1>9. vsync_pending[id] = waits[id] + Cardinality(Requested(id))
  BY DEF VsyncExact, Requested
<1>10. vsync_pending[id] = 0
  BY <1>3, <1>8, <1>9
<1> QED
  BY <1>4, <1>6, <1>10

LEMMA LastKept == TypeOK /\ LastEvents => DisconnectedKept
<1> SUFFICES ASSUME TypeOK, NEW id \in Ids, LastEvent(id)
             PROVE  /\ Occurrences(events[id], "Disconnected") + delivered[id]
                          = IF Reported(id) THEN 1 ELSE 0
                    /\ \A i \in DOMAIN events[id] :
                          events[id][i] = "Disconnected" => i = Len(events[id])
                    /\ Len(events[id]) <= MAX_PENDING_EVENTS + 1
  BY DEF LastEvents, DisconnectedKept, Reported, Late
<1>1. events[id] \in Seq({"input", "Disconnected"}) /\ MAX_PENDING_EVENTS \in Nat
  BY ClientRuntimeAssumption DEF TypeOK
<1>2. Occurrences(events[id], "Disconnected") = IF AtEnd(events[id]) THEN 1 ELSE 0
  BY <1>1, OccurrencesAtEnd DEF LastEvent
<1>3. Len(events[id]) <= MAX_PENDING_EVENTS + 1
  BY <1>1 DEF LastEvent
<1> QED
  BY <1>2, <1>3 DEF LastEvent, OnlyAtEnd

THEOREM Invariant == Spec => [](IInv /\ LastEvents)
<1>1. Init => IInv /\ LastEvents
  BY InitHolds, LastEventsInit
<1>2. IInv /\ LastEvents /\ [Next]_vars => (IInv /\ LastEvents)'
  BY StepHolds, LastEventsStep DEF IInv
<1> QED
  BY <1>1, <1>2, PTL DEF Spec

(* Every variable keeps its type; in particular the connection counter     *)
(* stays between 0 and MAX_CONNECTIONS (accept_loop, lib.rs) and the count *)
(* of pending frames, an atomic u32 decremented by callbacks, never wraps. *)
THEOREM TypeCorrect == Spec => []TypeOK
<1>1. IInv => TypeOK
  BY DEF IInv
<1> QED
  BY <1>1, Invariant, PTL

(* The connection counter is the number of reader threads, however the     *)
(* connections end.                                                        *)
THEOREM ConnectionsCounted == Spec => []LiveExact
<1>1. IInv => LiveExact
  BY DEF IInv
<1> QED
  BY <1>1, Invariant, PTL

(* The frames a client is paced on are those the C library still owes a    *)
(* callback for, plus one a present has counted and not registered.        *)
THEOREM FramesCounted == Spec => []VsyncExact
<1>1. IInv => VsyncExact
  BY DEF IInv
<1> QED
  BY <1>1, Invariant, PTL

(* Client::drop frees a client that nothing can reach any more: the C      *)
(* library has no callback on it, and the registry does not name it.       *)
THEOREM FreedSafely == Spec => []SafeToFree
<1>1. IInv => SafeToFree
  BY Unowned
<1> QED
  BY <1>1, Invariant, PTL

(* push_event and mark_disconnected: the Disconnected event is queued once *)
(* behind all others and the bound on the queue never drops it.            *)
THEOREM LastEventKept == Spec => []DisconnectedKept
<1>1. IInv /\ LastEvents => DisconnectedKept
  BY LastKept DEF IInv
<1> QED
  BY <1>1, Invariant, PTL
=============================================================================
