------------------------- MODULE RemoteAdapterProofs -------------------------
(***************************************************************************)
(* Theorems about the adapter, for every number of commands, objects,      *)
(* presents and nested calls.  First the inductive invariant IInv: where   *)
(* every id is, and that its callback is called exactly once.  From it,    *)
(* that the library implements the safety of CompletionPromise.  Then the  *)
(* order of vsync waits, and who holds a handle, which need invariants of  *)
(* their own (WInv, HInv).                                                 *)
(***************************************************************************)
EXTENDS RemoteAdapter, FoldLemmas

\* The bounds are numbers.
LEMMA Bounds ==
    /\ MaxDepth \in Nat /\ MaxDepth > 0
    /\ MaxFuture \in Nat /\ MaxFuture > 0
BY RemoteAdapterAssumption

(* One frame of the stack becomes f (a push, a pop, or a change in place)  *)
(* while ids move between the lists: the stack stays well formed if the    *)
(* lists stay disjoint.                                                    *)
LEMMA FrameUpdate ==
    ASSUME IInv, NEW d \in Levels, NEW f \in Frame,
           frame' = [frame EXCEPT ![d] = f],
           depth' \in 0 .. MaxDepth + 2,
           \A e \in Levels : e > depth' => e > depth \/ e = d,
           d > depth' => f = Idle,
           requests' \cap vsync_waits' = {},
           f.list \cap (requests' \cup vsync_waits') = {},
           \A e \in Levels : e # d =>
               frame[e].list \cap (requests' \cup vsync_waits' \cup f.list) = {},
           requests' \cup vsync_waits' \cup f.list \subseteq Issued',
           Issued \subseteq Issued',
           d = MaxDepth + 2 => /\ f.handle = None
                               /\ f.pc = "requests" => f.list = {}
    PROVE  /\ StackOK'
           /\ frame' \in [Levels -> Frame]
           /\ frame'[d] = f
           /\ \A e \in Levels \ {d} : frame'[e] = frame[e]
           /\ Detached' = (Detached \ frame[d].list) \cup f.list
<1>1. frame' \in [Levels -> Frame]
  BY DEF IInv, TypeOK
<1>2. frame'[d] = f /\ \A e \in Levels \ {d} : frame'[e] = frame[e]
  BY DEF IInv, TypeOK
<1>3. Detached' = (Detached \ frame[d].list) \cup f.list
  BY <1>2 DEF Detached, IInv, StackOK
<1>4. Outstanding' \subseteq Issued'
  BY <1>3 DEF Outstanding, IInv, StackOK
<1>5. \A e \in Levels : e > depth' => frame'[e] = Idle
  BY <1>2 DEF IInv, StackOK
<1>6. \A e \in Levels : frame'[e].list \cap (requests' \cup vsync_waits') = {}
  <2> TAKE e \in Levels
  <2>1. CASE e = d
    BY <1>2, <2>1
  <2>2. CASE e # d
    BY <1>2, <2>2
  <2> QED BY <2>1, <2>2
<1>7. \A a, b \in Levels : a # b => frame'[a].list \cap frame'[b].list = {}
  <2> SUFFICES ASSUME NEW a \in Levels, NEW b \in Levels, a # b
               PROVE  frame'[a].list \cap frame'[b].list = {}
    OBVIOUS
  <2>1. CASE a = d
    BY <1>2, <2>1
  <2>2. CASE b = d
    BY <1>2, <2>2
  <2>3. CASE a # d /\ b # d
    BY <1>2, <2>3 DEF IInv, StackOK
  <2> QED BY <2>1, <2>2, <2>3
<1>8. /\ frame'[MaxDepth + 2].handle = None
      /\ frame'[MaxDepth + 2].pc = "requests" => frame'[MaxDepth + 2].list = {}
  <2>1. MaxDepth + 2 \in Levels
    BY Bounds DEF Levels
  <2> QED BY <1>2, <2>1 DEF IInv, StackOK
<1> QED BY <1>1, <1>2, <1>3, <1>4, <1>5, <1>6, <1>7, <1>8 DEF StackOK

(* A send that may abandon: nothing is lost, and a severed adapter is left *)
(* with nothing queued outside an AbandonRequests under way.               *)
LEMMA SendStep ==
    ASSUME IInv, depth < MaxDepth,
           NEW reqs, SendLast(reqs),
           UNCHANGED <<connected, vsync_waits>>,
           reqs \subseteq Ids, reqs \subseteq Issued', Issued \subseteq Issued',
           reqs \cap vsync_waits = {},
           \A e \in Levels : frame[e].list \cap reqs = {}
    PROVE  /\ StackOK'
           /\ QuietWhenSevered'
           /\ frame' \in [Levels -> Frame]
           /\ depth' \in 0 .. MaxDepth + 2
           /\ requests' \subseteq reqs
           /\ Outstanding' = reqs \cup vsync_waits \cup Detached
<1>0. /\ depth \in Nat /\ depth + 1 \in Levels /\ depth + 1 # MaxDepth + 2
      /\ depth + 1 \in 0 .. MaxDepth + 2
      /\ frame[depth + 1] = Idle
      /\ Issued' \subseteq Nat
  BY Bounds DEF IInv, TypeOK, StackOK, Levels, Issued
<1>1. CASE SendAbandons(reqs)
  <2> DEFINE f == At("requests", reqs)
  <2>1. /\ requests' = {} /\ depth' = depth + 1
        /\ frame' = [frame EXCEPT ![depth + 1] = f]
    BY <1>1 DEF SendLast, Push
  <2>2. f \in Frame /\ f.list = reqs /\ f.handle = None /\ f.pc = "requests"
    BY DEF Frame, At, Places
  <2> HIDE DEF f
  <2>3. /\ StackOK'
        /\ frame' \in [Levels -> Frame]
        /\ frame'[depth + 1] = f
        /\ Detached' = (Detached \ frame[depth + 1].list) \cup f.list
    <3>1. \A e \in Levels : e > depth' => e > depth \/ e = depth + 1
      BY <1>0, <2>1 DEF Levels
    <3>2. \A e \in Levels : e # depth + 1 =>
             frame[e].list \cap (requests' \cup vsync_waits' \cup f.list) = {}
      BY <2>1, <2>2 DEF IInv, StackOK
    <3>3. requests' \cup vsync_waits' \cup f.list \subseteq Issued'
      BY <2>1, <2>2 DEF IInv, StackOK, Outstanding
    <3>4. /\ depth' \in 0 .. MaxDepth + 2
          /\ ~(depth + 1 > depth')
          /\ requests' \cap vsync_waits' = {}
          /\ f.list \cap (requests' \cup vsync_waits') = {}
      BY <1>0, <2>1, <2>2
    <3> QED BY <1>0, <2>1, <2>2, <3>1, <3>2, <3>3, <3>4, FrameUpdate
  <2>4. Detached' = Detached \cup reqs
    BY <1>0, <2>2, <2>3 DEF Idle, At
  <2>5. QuietWhenSevered'
    BY <1>0, <2>1, <2>2, <2>3 DEF QuietWhenSevered
  <2> QED BY <1>0, <2>1, <2>3, <2>4, <2>5 DEF Outstanding
<1>2. CASE ~SendAbandons(reqs)
  <2>1. requests' = reqs /\ UNCHANGED <<depth, frame>>
    BY <1>2 DEF SendLast, stack
  <2>2. Detached' = Detached
    BY <2>1 DEF Detached
  <2>3. Outstanding' = reqs \cup vsync_waits \cup Detached
    BY <2>1, <2>2 DEF Outstanding
  <2>4. StackOK'
    BY <2>1, <2>3 DEF IInv, StackOK, Outstanding
  <2>5. QuietWhenSevered'
    BY <1>2, <2>1 DEF SendAbandons, QuietWhenSevered
  <2> QED BY <2>1, <2>3, <2>4, <2>5 DEF IInv, TypeOK
<1> QED BY <1>1, <1>2

(* The call under way at depth + 1 is new and not the deepest possible.    *)
LEMMA Room ==
    ASSUME IInv, depth < MaxDepth
    PROVE  /\ depth \in Nat /\ depth + 1 \in Levels /\ depth + 1 # MaxDepth + 2
           /\ depth + 1 \in 0 .. MaxDepth + 2
           /\ frame[depth + 1] = Idle
           /\ frame[depth + 1].list = {}
<1>1. /\ depth \in Nat /\ depth + 1 \in Levels /\ depth + 1 # MaxDepth + 2
      /\ depth + 1 \in 0 .. MaxDepth + 2 /\ depth + 1 > depth
  BY Bounds DEF IInv, TypeOK, Levels
<1>2. frame[depth + 1] = Idle
  BY <1>1 DEF IInv, StackOK
<1> QED BY <1>1, <1>2 DEF Idle, At

(* A new call with nothing listed: no id moves on the stack.               *)
LEMMA PushEmpty ==
    ASSUME IInv, depth < MaxDepth, NEW f \in Frame, f.list = {}, Push(f),
           requests' \subseteq requests, vsync_waits' \subseteq vsync_waits,
           Issued' = Issued
    PROVE  /\ StackOK'
           /\ frame' \in [Levels -> Frame]
           /\ depth' \in 0 .. MaxDepth + 2
           /\ Detached' = Detached
           /\ \A e \in Levels : e # depth + 1 => frame'[e] = frame[e]
           /\ frame[depth + 1] = Idle
<1>1. /\ depth' = depth + 1
      /\ frame' = [frame EXCEPT ![depth + 1] = f]
  BY DEF Push
<1>2. /\ depth' \in 0 .. MaxDepth + 2
      /\ ~(depth + 1 > depth')
      /\ \A e \in Levels : e > depth' => e > depth \/ e = depth + 1
  BY <1>1, Room DEF Levels
<1>3. /\ requests' \cap vsync_waits' = {}
      /\ requests' \cup vsync_waits' \cup f.list \subseteq Issued'
      /\ \A e \in Levels :
            frame[e].list \cap (requests' \cup vsync_waits' \cup f.list) = {}
  BY DEF IInv, StackOK, Outstanding
<1>4. /\ StackOK' /\ frame' \in [Levels -> Frame]
      /\ \A e \in Levels \ {depth + 1} : frame'[e] = frame[e]
      /\ Detached' = (Detached \ frame[depth + 1].list) \cup f.list
  <2>1. /\ f.list \cap (requests' \cup vsync_waits') = {}
        /\ Issued \subseteq Issued'
    OBVIOUS
  <2>2. depth + 1 \in Levels /\ depth + 1 # MaxDepth + 2
    BY Room
  <2>3. \A e \in Levels : e # depth + 1 =>
            frame[e].list \cap (requests' \cup vsync_waits' \cup f.list) = {}
    BY <1>3
  <2> QED BY <1>1, <1>2, <1>3, <2>1, <2>2, <2>3, FrameUpdate
<1> QED BY <1>2, <1>4, Room

\* A step that moves no id keeps every callback's count.
LEMMA OnceKept ==
    ASSUME IInv, Outstanding' = Outstanding, next_future_id' = next_future_id,
           calls' = calls
    PROVE  ExactlyOnce'
BY DEF IInv, ExactlyOnce, Issued

\* A step that calls the callback of an outstanding id takes it off its list.
LEMMA OnceCalled ==
    ASSUME IInv, NEW id \in Outstanding, Outstanding' = Outstanding \ {id},
           next_future_id' = next_future_id, calls' = Called(id)
    PROVE  ExactlyOnce' /\ calls' \in [Ids -> Nat]
<1>1. id \in Ids /\ id \in Issued /\ Issued' = Issued
  BY Bounds DEF IInv, TypeOK, StackOK, Issued, Ids
<1>2. calls[id] = 0
  BY <1>1 DEF IInv, ExactlyOnce
<1>3. calls' = [calls EXCEPT ![id] = 1]
  BY <1>2 DEF Called, IInv, TypeOK
<1>4. calls'[id] = 1 /\ \A other \in Ids \ {id} : calls'[other] = calls[other]
  BY <1>1, <1>3 DEF IInv, TypeOK
<1>5. ExactlyOnce'
  BY <1>1, <1>4 DEF IInv, ExactlyOnce
<1>6. calls' \in [Ids -> Nat]
  <2>1. calls \in [Ids -> Nat]
    BY DEF IInv, TypeOK
  <2> QED BY <1>1, <1>3, <2>1
<1> QED BY <1>5, <1>6

-----------------------------------------------------------------------------
(* One lemma for each kind of step.                                        *)

\* A command with a reply is queued and sent (Issue).
LEMMA IssueStep ==
    ASSUME IInv, depth < MaxDepth,
           NEW type \in RequestTypes, NEW h \in Handles \cup {None},
           Issue(type, h),
           map_state' \in [Buffers -> {"Unmapped", "Pending", "Mapped"}],
           refcount' \in [Handles -> Int],
           created' \subseteq Handles,
           appRefs' \in [Handles -> Nat]
    PROVE  IInv'
<1> DEFINE id == next_future_id
           reqs == requests \cup {id}
<1>1. /\ id \in Ids /\ id \notin Issued /\ Issued' = Issued \cup {id}
      /\ next_future_id' \in 1 .. MaxFuture + 1
  BY Bounds DEF Issue, IInv, TypeOK, Ids, Issued
<1>2. /\ UNCHANGED <<connected, vsync_waits, presents_sent, presents_done, calls>>
      /\ SendLast(reqs)
  BY DEF Issue
<1>3. id \notin Outstanding
  BY <1>1 DEF IInv, StackOK
<1>4. /\ StackOK' /\ QuietWhenSevered'
      /\ frame' \in [Levels -> Frame]
      /\ depth' \in 0 .. MaxDepth + 2
      /\ requests' \subseteq reqs
      /\ Outstanding' = reqs \cup vsync_waits \cup Detached
  <2>1. /\ reqs \subseteq Ids /\ reqs \subseteq Issued'
        /\ reqs \cap vsync_waits = {}
        /\ \A e \in Levels : frame[e].list \cap reqs = {}
    BY <1>1, <1>3 DEF IInv, TypeOK, StackOK, Outstanding, Detached
  <2> QED BY <1>1, <1>2, <2>1, SendStep
<1>5. ExactlyOnce'
  BY <1>1, <1>2, <1>3, <1>4 DEF IInv, ExactlyOnce, Outstanding
<1>6. entry' \in [Ids -> Entry]
  BY DEF Issue, IInv, TypeOK, Entry, Request, EntryTypes
<1>7. TypeOK'
  BY <1>1, <1>2, <1>4, <1>6 DEF IInv, TypeOK
<1> QED BY <1>4, <1>5, <1>7 DEF IInv

\* A call that only changes handles and then sends.
LEMMA PlainSendStep ==
    ASSUME IInv, depth < MaxDepth, SendLast(requests),
           UNCHANGED <<connected, next_future_id, vsync_waits, presents_sent,
                       presents_done, entry, calls>>,
           map_state' \in [Buffers -> {"Unmapped", "Pending", "Mapped"}],
           refcount' \in [Handles -> Int],
           created' \subseteq Handles,
           appRefs' \in [Handles -> Nat]
    PROVE  IInv'
<1>1. Issued' = Issued
  BY DEF Issued
<1>2. /\ requests \subseteq Ids /\ requests \subseteq Issued'
      /\ requests \cap vsync_waits = {}
      /\ \A e \in Levels : frame[e].list \cap requests = {}
  BY <1>1 DEF IInv, TypeOK, StackOK, Outstanding
<1>3. /\ StackOK' /\ QuietWhenSevered'
      /\ frame' \in [Levels -> Frame]
      /\ depth' \in 0 .. MaxDepth + 2
      /\ requests' \subseteq requests
      /\ Outstanding' = requests \cup vsync_waits \cup Detached
  BY <1>1, <1>2, SendStep
<1>4. ExactlyOnce'
  BY <1>3, OnceKept DEF Outstanding
<1>5. TypeOK'
  BY <1>3 DEF IInv, TypeOK
<1> QED BY <1>3, <1>4, <1>5 DEF IInv

\* A call that changes nothing but handles and the present counters.
LEMMA LocalStep ==
    ASSUME IInv,
           UNCHANGED <<connected, next_future_id, requests, vsync_waits, entry,
                       stack, calls>>,
           presents_sent' \in Nat,
           presents_done' \in Nat,
           map_state' \in [Buffers -> {"Unmapped", "Pending", "Mapped"}],
           refcount' \in [Handles -> Int],
           created' \subseteq Handles,
           appRefs' \in [Handles -> Nat]
    PROVE  IInv'
<1>1. UNCHANGED <<depth, frame>>
  BY DEF stack
<1>2. Detached' = Detached /\ Outstanding' = Outstanding /\ Issued' = Issued
  BY <1>1 DEF Detached, Outstanding, Issued
<1>3. TypeOK'
  BY <1>1 DEF IInv, TypeOK
<1>4. StackOK'
  BY <1>1, <1>2 DEF IInv, StackOK
<1>5. ExactlyOnce'
  BY <1>2, OnceKept
<1>6. QuietWhenSevered'
  BY <1>1 DEF IInv, QuietWhenSevered
<1> QED BY <1>3, <1>4, <1>5, <1>6 DEF IInv

\* The innermost call moves on where it is; it may take over queued waits.
LEMMA InPlace ==
    ASSUME IInv, NEW d \in Levels, d = depth, depth' = depth,
           NEW f \in Frame, frame' = [frame EXCEPT ![d] = f],
           requests' \subseteq requests, vsync_waits' \subseteq vsync_waits,
           f.list \subseteq frame[d].list \cup vsync_waits,
           f.list \cap vsync_waits' = {},
           Issued' = Issued,
           d = MaxDepth + 2 => /\ f.handle = None
                               /\ f.pc = "requests" => f.list = {}
    PROVE  /\ StackOK'
           /\ frame' \in [Levels -> Frame]
           /\ frame'[d] = f
           /\ \A e \in Levels \ {d} : frame'[e] = frame[e]
           /\ Detached' = (Detached \ frame[d].list) \cup f.list
<1>1. /\ depth' \in 0 .. MaxDepth + 2
      /\ ~(d > depth')
      /\ \A e \in Levels : e > depth' => e > depth \/ e = d
  BY DEF IInv, TypeOK
<1>2. /\ requests' \cap vsync_waits' = {}
      /\ requests' \cup vsync_waits' \cup f.list \subseteq Issued'
      /\ Issued \subseteq Issued'
  BY DEF IInv, StackOK, Outstanding, Detached
<1>3. f.list \cap (requests' \cup vsync_waits') = {}
  BY DEF IInv, StackOK
<1>4. \A e \in Levels : e # d =>
          frame[e].list \cap (requests' \cup vsync_waits' \cup f.list) = {}
  BY DEF IInv, StackOK
<1> QED BY <1>1, <1>2, <1>3, <1>4, FrameUpdate

\* The innermost call, with nothing left on its list, leaves the stack.
LEMMA PopAs ==
    ASSUME IInv, NEW d \in Levels, NEW f \in Frame, d = depth,
           f.list = {}, f.handle = None,
           frame' = [frame EXCEPT ![d] = f], depth' = d - 1,
           d > depth' => f = Idle,
           requests' \subseteq requests, vsync_waits' \subseteq vsync_waits,
           Issued' = Issued
    PROVE  /\ StackOK'
           /\ frame' \in [Levels -> Frame]
           /\ \A e \in Levels \ {d} : frame'[e] = frame[e]
           /\ Detached' = (Detached \ frame[d].list) \cup f.list
<1>1. /\ depth' \in 0 .. MaxDepth + 2
      /\ \A e \in Levels : e > depth' => e > depth \/ e = d
  BY Bounds DEF Levels
<1>2. /\ requests' \cap vsync_waits' = {}
      /\ requests' \cup vsync_waits' \cup f.list \subseteq Issued'
      /\ Issued \subseteq Issued'
  BY DEF IInv, StackOK, Outstanding
<1>3. f.list \cap (requests' \cup vsync_waits') = {}
  OBVIOUS
<1>4. \A e \in Levels : e # d =>
          frame[e].list \cap (requests' \cup vsync_waits' \cup f.list) = {}
  BY DEF IInv, StackOK
<1> QED BY <1>1, <1>2, <1>3, <1>4, FrameUpdate

\* Return: the innermost call leaves the stack.
LEMMA Pop ==
    ASSUME IInv, NEW d \in Levels, d = depth, Return(d),
           requests' = requests, vsync_waits' = vsync_waits, Issued' = Issued
    PROVE  /\ StackOK'
           /\ frame' \in [Levels -> Frame]
           /\ \A e \in Levels \ {d} : frame'[e] = frame[e]
           /\ Detached' = Detached \ frame[d].list
<1>1. Idle \in Frame /\ Idle.list = {} /\ Idle.handle = None
  BY DEF Idle, At, Frame, Places
<1>2. /\ StackOK' /\ frame' \in [Levels -> Frame]
      /\ \A e \in Levels \ {d} : frame'[e] = frame[e]
      /\ Detached' = (Detached \ frame[d].list) \cup Idle.list
  BY <1>1, PopAs DEF Return
<1> QED BY <1>1, <1>2

\* A call that has nothing left to do returns.
LEMMA ReturnStep ==
    ASSUME IInv, NEW d \in Levels, d = depth, Return(d), frame[d].list = {},
           frame[d].pc # "requests",
           UNCHANGED <<connected, next_future_id, requests, vsync_waits, entry,
                       calls>>,
           presents_sent' \in Nat,
           presents_done' \in Nat,
           map_state' \in [Buffers -> {"Unmapped", "Pending", "Mapped"}],
           refcount' \in [Handles -> Int],
           created' \subseteq Handles,
           appRefs' \in [Handles -> Nat]
    PROVE  IInv'
<1>1. Issued' = Issued /\ depth' \in 0 .. MaxDepth + 2
  BY Bounds DEF Return, Issued, Levels
<1>2. /\ StackOK' /\ frame' \in [Levels -> Frame]
      /\ \A e \in Levels \ {d} : frame'[e] = frame[e]
      /\ Detached' = Detached \ frame[d].list
  BY <1>1, Pop
<1>3. Outstanding' = Outstanding
  BY <1>2 DEF Outstanding
<1>4. ExactlyOnce'
  BY <1>3, OnceKept
<1>5. QuietWhenSevered'
  BY <1>2 DEF IInv, QuietWhenSevered
<1>6. TypeOK'
  BY <1>1, <1>2 DEF IInv, TypeOK
<1> QED BY <1>2, <1>4, <1>5, <1>6 DEF IInv

\* A call that goes on as f after a send that abandons.
LEMMA SendThenStep ==
    ASSUME IInv, depth < MaxDepth, NEW f \in Frame, f.list = {},
           SendAbandons(requests), SendThen(f),
           UNCHANGED <<connected, next_future_id, vsync_waits, presents_sent,
                       presents_done, entry, handles, calls>>
    PROVE  IInv'
<1> DEFINE g == At("requests", requests)
<1>1. /\ depth + 1 \in Levels /\ depth + 2 \in Levels /\ depth \in Nat
      /\ depth + 2 \in 0 .. MaxDepth + 2
      /\ Issued' = Issued
  BY Bounds DEF IInv, TypeOK, Levels, Issued
<1>2. /\ frame[depth + 1] = Idle /\ frame[depth + 2] = Idle
      /\ depth + 1 # MaxDepth + 2
  BY <1>1, Bounds DEF IInv, StackOK
<1>3. requests = {} /\ requests' = {} /\ ~connected
  BY DEF SendAbandons, SendThen, IInv, QuietWhenSevered
<1>4. g \in Frame /\ g.list = {} /\ g.handle = None /\ g.pc = "requests"
  BY <1>3 DEF At, Frame, Places
<1>5. Idle.list = {}
  BY DEF Idle, At
<1>6. /\ depth' = depth + 2
      /\ frame' = [frame EXCEPT ![depth + 1] = f, ![depth + 2] = g]
  BY DEF SendThen
<1> HIDE DEF g
<1>7. /\ frame' \in [Levels -> Frame]
      /\ frame'[depth + 1] = f /\ frame'[depth + 2] = g
      /\ \A e \in Levels \ {depth + 1, depth + 2} : frame'[e] = frame[e]
  BY <1>1, <1>4, <1>6 DEF IInv, TypeOK
<1>8. \A e \in Levels : frame'[e].list = frame[e].list
  BY <1>2, <1>4, <1>5, <1>7
<1>9. Detached' = Detached /\ Outstanding' = Outstanding
  BY <1>3, <1>8 DEF Detached, Outstanding
<1>10. StackOK'
  <2>1. \A e \in Levels : e > depth' => frame'[e] = Idle
    BY <1>1, <1>6, <1>7 DEF IInv, StackOK, Levels
  <2>2. MaxDepth + 2 \in Levels
    BY Bounds DEF Levels
  <2>3. /\ frame'[MaxDepth + 2].handle = None
        /\ frame'[MaxDepth + 2].pc = "requests" => frame'[MaxDepth + 2].list = {}
    BY <1>2, <1>4, <1>7, <2>2 DEF IInv, StackOK
  <2>4. \A e \in Levels : frame'[e].list \cap (requests' \cup vsync_waits') = {}
    BY <1>3, <1>8 DEF IInv, StackOK
  <2>5. \A a, b \in Levels : a # b => frame'[a].list \cap frame'[b].list = {}
    BY <1>8 DEF IInv, StackOK
  <2>6. Outstanding' \subseteq Issued' /\ requests' \cap vsync_waits' = {}
    BY <1>1, <1>3, <1>9 DEF IInv, StackOK
  <2> QED BY <2>1, <2>3, <2>4, <2>5, <2>6 DEF StackOK
<1>11. ExactlyOnce'
  BY <1>9, OnceKept
<1>12. QuietWhenSevered'
  BY <1>1, <1>3, <1>4, <1>7 DEF QuietWhenSevered
<1>13. TypeOK'
  BY <1>1, <1>3, <1>6, <1>7 DEF IInv, TypeOK, handles
<1> QED BY <1>10, <1>11, <1>12, <1>13 DEF IInv

\* A reply takes its request off the list and suspends in its callback.
LEMMA ReplyStep ==
    ASSUME IInv, depth < MaxDepth, NEW id \in Ids, NEW type, Take(id, type),
           NEW h \in Handles \cup {None}, Push(Calling("end", {}, h)),
           map_state' \in [Buffers -> {"Unmapped", "Pending", "Mapped"}],
           refcount' \in [Handles -> Int],
           created' \subseteq Handles,
           appRefs' \in [Handles -> Nat]
    PROVE  IInv'
<1>1. /\ id \in requests /\ requests' = requests \ {id}
      /\ calls' = Called(id)
      /\ UNCHANGED <<connected, next_future_id, vsync_waits, presents_sent,
                     presents_done, entry>>
      /\ Issued' = Issued
  BY DEF Take, Issued
<1>2. Calling("end", {}, h) \in Frame /\ Calling("end", {}, h).list = {}
  BY DEF Calling, Frame, Places
<1>3. /\ StackOK' /\ frame' \in [Levels -> Frame]
      /\ depth' \in 0 .. MaxDepth + 2
      /\ Detached' = Detached
  BY <1>1, <1>2, PushEmpty
<1>4. id \in Outstanding /\ Outstanding' = Outstanding \ {id}
  <2>1. id \notin vsync_waits /\ id \notin Detached
    BY <1>1 DEF IInv, StackOK, Detached
  <2>2. vsync_waits' = vsync_waits
    BY <1>1
  <2> QED BY <1>1, <1>3, <2>1, <2>2 DEF Outstanding
<1>5. ExactlyOnce' /\ calls' \in [Ids -> Nat]
  BY <1>1, <1>4, OnceCalled
<1>6. QuietWhenSevered'
  BY <1>1 DEF IInv, QuietWhenSevered
<1>7. TypeOK'
  BY <1>1, <1>3, <1>5 DEF IInv, TypeOK
<1> QED BY <1>3, <1>5, <1>6, <1>7 DEF IInv

\* A call that suspends without touching any list.
LEMMA PushStep ==
    ASSUME IInv, depth < MaxDepth, NEW f \in Frame, f.list = {}, Push(f),
           UNCHANGED <<connected, next_future_id, requests, vsync_waits, entry,
                       handles, presents_sent, calls>>,
           presents_done' \in Nat
    PROVE  IInv'
<1>1. Issued' = Issued
  BY DEF Issued
<1>2. /\ StackOK' /\ frame' \in [Levels -> Frame]
      /\ depth' \in 0 .. MaxDepth + 2
      /\ Detached' = Detached
      /\ \A e \in Levels : e # depth + 1 => frame'[e] = frame[e]
      /\ frame[depth + 1] = Idle
  BY <1>1, PushEmpty
<1>3. Outstanding' = Outstanding
  BY <1>2 DEF Outstanding
<1>4. ExactlyOnce'
  BY <1>3, OnceKept
<1>5. Idle.pc # "requests"
  BY DEF Idle, At
<1>6. QuietWhenSevered'
  BY <1>2, <1>5 DEF IInv, QuietWhenSevered
<1>7. TypeOK'
  BY <1>2 DEF IInv, TypeOK, handles
<1> QED BY <1>2, <1>4, <1>6, <1>7 DEF IInv

\* AbandonRequests, and Disconnect, start their first loop.
LEMMA AbandonStep ==
    ASSUME IInv, depth < MaxDepth, requests' = {}, Push(At("requests", requests)),
           connected' \in BOOLEAN,
           UNCHANGED <<next_future_id, vsync_waits, presents_sent, presents_done,
                       entry, handles, calls>>
    PROVE  IInv'
<1>1. PICK f \in Frame : /\ f = At("requests", requests) /\ f.list = requests
                         /\ f.handle = None /\ f.pc = "requests"
  <2>1. At("requests", requests) \in Frame
    BY DEF At, Frame, Places, IInv, TypeOK
  <2> QED BY <2>1 DEF At
<1>2. /\ depth' = depth + 1 /\ frame' = [frame EXCEPT ![depth + 1] = f]
      /\ Issued' = Issued /\ f \in Frame
  BY <1>1 DEF Push, Issued
<1>3. /\ StackOK' /\ frame' \in [Levels -> Frame]
      /\ frame'[depth + 1] = f
      /\ Detached' = (Detached \ frame[depth + 1].list) \cup f.list
  <2>1. /\ depth' \in 0 .. MaxDepth + 2
        /\ ~(depth + 1 > depth')
        /\ \A e \in Levels : e > depth' => e > depth \/ e = depth + 1
    BY <1>2, Room DEF Levels
  <2>2. /\ requests' \cap vsync_waits' = {}
        /\ f.list \cap (requests' \cup vsync_waits') = {}
        /\ \A e \in Levels : e # depth + 1 =>
              frame[e].list \cap (requests' \cup vsync_waits' \cup f.list) = {}
        /\ requests' \cup vsync_waits' \cup f.list \subseteq Issued'
        /\ Issued \subseteq Issued'
    BY <1>1, <1>2 DEF IInv, StackOK, Outstanding
  <2>3. depth + 1 \in Levels /\ depth + 1 # MaxDepth + 2
    BY Room
  <2> QED BY <1>2, <2>1, <2>2, <2>3, FrameUpdate
<1>4. Detached' = Detached \cup requests /\ depth' \in 0 .. MaxDepth + 2
  BY <1>1, <1>2, <1>3, Room
<1>5. Outstanding' = Outstanding
  BY <1>4 DEF Outstanding
<1>6. ExactlyOnce'
  BY <1>5, OnceKept
<1>7. QuietWhenSevered'
  BY <1>1, <1>3, Room DEF QuietWhenSevered
<1>8. TypeOK'
  BY <1>3, <1>4 DEF IInv, TypeOK, handles
<1> QED BY <1>3, <1>6, <1>7, <1>8 DEF IInv

\* The innermost call takes an id off its list or the wait list and calls it.
LEMMA CallStep ==
    ASSUME IInv, NEW d \in Levels, d = depth, NEW id \in Outstanding,
           NEW f \in Frame, f.pc = frame[d].pc,
           frame' = [frame EXCEPT ![d] = f],
           requests' = requests,
           vsync_waits' \subseteq vsync_waits,
           f.list \subseteq frame[d].list,
           frame[d].list \cup vsync_waits = f.list \cup vsync_waits' \cup {id},
           id \notin f.list \cup vsync_waits',
           d = MaxDepth + 2 => f.handle = None /\ (f.pc = "requests" => f.list = {}),
           calls' = Called(id),
           UNCHANGED <<connected, next_future_id, presents_sent, presents_done,
                       entry, depth, refcount, created, appRefs>>,
           map_state' \in [Buffers -> {"Unmapped", "Pending", "Mapped"}]
    PROVE  IInv'
<1>1. Issued' = Issued /\ depth' = depth
  BY DEF Issued
<1>2. /\ f.list \subseteq frame[d].list \cup vsync_waits
      /\ f.list \cap vsync_waits' = {}
  BY DEF IInv, StackOK
<1>3. /\ StackOK' /\ frame' \in [Levels -> Frame]
      /\ frame'[d] = f
      /\ \A e \in Levels \ {d} : frame'[e] = frame[e]
      /\ Detached' = (Detached \ frame[d].list) \cup f.list
  BY <1>1, <1>2, InPlace
<1>4. /\ id \notin requests
      /\ \A e \in Levels \ {d} : id \notin frame[e].list
  BY DEF IInv, StackOK
<1>5. Detached = (Detached \ frame[d].list) \cup frame[d].list
  BY DEF Detached
<1>6. id \notin Detached \ frame[d].list
  BY <1>4 DEF Detached
<1>7. Outstanding' = Outstanding \ {id}
  BY <1>3, <1>4, <1>5, <1>6 DEF Outstanding
<1>8. ExactlyOnce' /\ calls' \in [Ids -> Nat]
  BY <1>7, OnceCalled
<1>9. QuietWhenSevered'
  BY <1>3 DEF IInv, QuietWhenSevered
<1>10. TypeOK'
  BY <1>3, <1>8 DEF IInv, TypeOK
<1> QED BY <1>3, <1>8, <1>9, <1>10 DEF IInv

\* DetachWaits: the queued waits move to the list of the call.
LEMMA DetachStep ==
    ASSUME IInv, NEW d \in Levels, DetachWaits(d)
    PROVE  IInv'
<1>1. /\ d = depth /\ frame[d].list = {}
      /\ frame' = [frame EXCEPT ![d] = At("waits", vsync_waits)]
      /\ vsync_waits' = {}
      /\ UNCHANGED <<connected, next_future_id, requests, presents_sent,
                     presents_done, entry, handles, depth, calls>>
      /\ Issued' = Issued
  BY DEF DetachWaits, Running, Issued
<1>2. PICK f \in Frame : /\ f = At("waits", vsync_waits) /\ f.list = vsync_waits
                         /\ f.handle = None /\ f.pc = "waits"
  <2>1. At("waits", vsync_waits) \in Frame
    BY DEF At, Frame, Places, IInv, TypeOK
  <2> QED BY <2>1 DEF At
<1>3. /\ StackOK' /\ frame' \in [Levels -> Frame]
      /\ Detached' = (Detached \ frame[d].list) \cup vsync_waits
  <2>1. f \in Frame /\ frame' = [frame EXCEPT ![d] = f] /\ depth' = depth
    BY <1>1, <1>2
  <2>2. /\ requests' \subseteq requests /\ vsync_waits' \subseteq vsync_waits
        /\ f.list \subseteq frame[d].list \cup vsync_waits
        /\ f.list \cap vsync_waits' = {}
        /\ d = MaxDepth + 2 => f.handle = None /\ (f.pc = "requests" => f.list = {})
    BY <1>1, <1>2
  <2>3. Detached' = (Detached \ frame[d].list) \cup f.list
        /\ StackOK' /\ frame' \in [Levels -> Frame]
    BY <1>1, <2>1, <2>2, InPlace
  <2> QED BY <1>2, <2>3
<1>4. Outstanding' = Outstanding
  BY <1>1, <1>3 DEF Outstanding
<1>5. ExactlyOnce'
  BY <1>1, <1>4, OnceKept
<1>6. QuietWhenSevered'
  BY <1>1 DEF IInv, QuietWhenSevered
<1>7. TypeOK'
  BY <1>1, <1>3 DEF IInv, TypeOK, handles
<1> QED BY <1>3, <1>5, <1>6, <1>7 DEF IInv

\* CallbackReturns: the interrupted call resumes, perhaps by a send that abandons.
LEMMA CallbackReturnsStep ==
    ASSUME IInv, NEW d \in Levels, CallbackReturns(d)
    PROVE  IInv'
<1> DEFINE h == frame[d].handle
           f == [frame[d] EXCEPT !.calling = FALSE, !.handle = None]
           g == At("requests", requests)
<1>1. /\ d = depth
      /\ UNCHANGED <<connected, next_future_id, vsync_waits, presents_sent,
                     presents_done, entry, map_state, created, appRefs, calls>>
      /\ Issued' = Issued
  BY DEF CallbackReturns, Issued
<1>2. refcount' \in [Handles -> Int]
  <2>1. h \in Handles \cup {None} /\ refcount \in [Handles -> Int]
    BY DEF IInv, TypeOK, Frame
  <2>2. refcount' = IF h = None THEN refcount ELSE [refcount EXCEPT ![h] = @ - 1]
    BY DEF CallbackReturns, Released
  <2>3. CASE h = None
    BY <2>1, <2>2, <2>3
  <2>4. CASE h # None
    <3>1. h \in Handles /\ refcount[h] - 1 \in Int
      BY <2>1, <2>4
    <3> HIDE DEF h
    <3> QED BY <2>1, <2>2, <2>4, <3>1
  <2> QED BY <2>3, <2>4
<1>3. /\ f \in Frame /\ f.pc = frame[d].pc /\ f.list = frame[d].list
      /\ f.handle = None
  BY DEF Frame, IInv, TypeOK
<1>4. CASE h # None /\ refcount[h] = 1 /\ SendAbandons(requests)
  <2>1. /\ requests' = {} /\ depth' = d + 1
        /\ frame' = [frame EXCEPT ![d] = f, ![d + 1] = g]
    BY <1>4 DEF CallbackReturns
  <2>2. ~connected /\ requests = {}
    BY <1>4 DEF SendAbandons, IInv, QuietWhenSevered
  <2>3. g \in Frame /\ g.list = {} /\ g.handle = None /\ g.pc = "requests"
    BY <2>2 DEF At, Frame, Places
  <2>4. d # MaxDepth + 2
    BY <1>4 DEF IInv, StackOK
  <2>5. d + 1 \in Levels /\ d + 1 \in 0 .. MaxDepth + 2 /\ d + 1 > depth
    BY <1>1, <2>4, Bounds DEF Levels
  <2>6. frame[d + 1] = Idle /\ frame[d + 1].list = {}
    <3>1. frame[d + 1] = Idle
      BY <2>5 DEF IInv, StackOK
    <3> QED BY <3>1 DEF Idle, At
  <2> HIDE DEF f, g
  <2>7. /\ frame' \in [Levels -> Frame]
        /\ frame'[d] = f /\ frame'[d + 1] = g
        /\ \A e \in Levels \ {d, d + 1} : frame'[e] = frame[e]
    <3>1. frame \in [Levels -> Frame] /\ d + 1 # d
      BY Bounds DEF IInv, TypeOK, Levels
    <3> QED BY <1>3, <2>1, <2>3, <2>5, <3>1
  <2>8. \A e \in Levels : frame'[e].list = frame[e].list
    BY <1>3, <2>3, <2>6, <2>7
  <2>9. Detached' = Detached /\ Outstanding' = Outstanding
    BY <1>1, <2>1, <2>2, <2>8 DEF Detached, Outstanding
  <2>10. StackOK'
    <3>1. \A e \in Levels : e > depth' => frame'[e] = Idle
      BY <1>1, <2>1, <2>7 DEF IInv, StackOK, Levels
    <3>2. MaxDepth + 2 \in Levels
      BY Bounds DEF Levels
    <3>3. /\ frame'[MaxDepth + 2].handle = None
          /\ frame'[MaxDepth + 2].pc = "requests" => frame'[MaxDepth + 2].list = {}
      BY <2>3, <2>4, <2>7, <3>2 DEF IInv, StackOK
    <3>4. \A e \in Levels : frame'[e].list \cap (requests' \cup vsync_waits') = {}
      BY <1>1, <2>1, <2>2, <2>8 DEF IInv, StackOK
    <3>5. \A a, b \in Levels : a # b => frame'[a].list \cap frame'[b].list = {}
      BY <2>8 DEF IInv, StackOK
    <3>6. Outstanding' \subseteq Issued' /\ requests' \cap vsync_waits' = {}
      BY <1>1, <2>1, <2>9 DEF IInv, StackOK
    <3> QED BY <3>1, <3>3, <3>4, <3>5, <3>6 DEF StackOK
  <2>11. ExactlyOnce'
    BY <1>1, <2>9, OnceKept
  <2>12. QuietWhenSevered'
    BY <2>1, <2>3, <2>5, <2>7 DEF QuietWhenSevered
  <2>13. TypeOK'
    BY <1>1, <1>2, <2>1, <2>5, <2>7 DEF IInv, TypeOK
  <2> QED BY <2>10, <2>11, <2>12, <2>13 DEF IInv
<1>5. CASE ~(h # None /\ refcount[h] = 1 /\ SendAbandons(requests))
  <2>1. /\ requests' = requests /\ depth' = depth
        /\ frame' = [frame EXCEPT ![d] = f]
    BY <1>5 DEF CallbackReturns
  <2> HIDE DEF f
  <2>2. /\ f.list \subseteq frame[d].list \cup vsync_waits
        /\ f.list \cap vsync_waits' = {}
        /\ d = MaxDepth + 2 => f.handle = None /\ (f.pc = "requests" => f.list = {})
    BY <1>1, <1>3 DEF IInv, StackOK
  <2>3. /\ StackOK' /\ frame' \in [Levels -> Frame]
        /\ frame'[d] = f
        /\ \A e \in Levels \ {d} : frame'[e] = frame[e]
        /\ Detached' = (Detached \ frame[d].list) \cup f.list
    BY <1>1, <1>3, <2>1, <2>2, InPlace
  <2>4. Detached = (Detached \ frame[d].list) \cup frame[d].list
    BY DEF Detached
  <2>5. Outstanding' = Outstanding
    BY <1>1, <1>3, <2>1, <2>3, <2>4 DEF Outstanding
  <2>6. ExactlyOnce'
    BY <1>1, <2>5, OnceKept
  <2>7. QuietWhenSevered'
    BY <1>1, <1>3, <2>1, <2>3 DEF IInv, QuietWhenSevered
  <2>8. TypeOK'
    BY <1>1, <1>2, <2>1, <2>3 DEF IInv, TypeOK
  <2> QED BY <2>3, <2>6, <2>7, <2>8 DEF IInv
<1> QED BY <1>4, <1>5

\* A wait is queued, or on a severed adapter called on the spot.
LEMMA OnNextVsyncStep ==
    ASSUME IInv, depth < MaxDepth, wgpuRemoteSurfaceOnNextVsync
    PROVE  IInv'
<1> DEFINE id == next_future_id
<1>1. /\ id \in Ids /\ id \notin Issued /\ Issued' = Issued \cup {id}
      /\ next_future_id' \in 1 .. MaxFuture + 1
      /\ UNCHANGED <<connected, requests, presents_sent, presents_done, handles>>
  BY Bounds DEF wgpuRemoteSurfaceOnNextVsync, IInv, TypeOK, Ids, Issued
<1>2. id \notin Outstanding
  BY <1>1 DEF IInv, StackOK
<1>3. entry' \in [Ids -> Entry]
  BY DEF wgpuRemoteSurfaceOnNextVsync, IInv, TypeOK, Entry, VsyncWait, EntryTypes
<1>4. CASE connected
  <2>1. vsync_waits' = vsync_waits \cup {id} /\ UNCHANGED <<depth, frame, calls>>
    BY <1>4 DEF wgpuRemoteSurfaceOnNextVsync, stack
  <2>2. Detached' = Detached /\ Outstanding' = Outstanding \cup {id}
    BY <1>1, <2>1 DEF Detached, Outstanding
  <2>3. StackOK'
    BY <1>1, <1>2, <2>1, <2>2 DEF IInv, StackOK, Outstanding, Detached
  <2>4. ExactlyOnce'
    BY <1>1, <1>2, <2>1, <2>2 DEF IInv, ExactlyOnce
  <2>5. QuietWhenSevered'
    BY <1>1, <1>4 DEF QuietWhenSevered
  <2>6. TypeOK'
    BY <1>1, <1>3, <2>1 DEF IInv, TypeOK, handles
  <2> QED BY <2>3, <2>4, <2>5, <2>6 DEF IInv
<1>5. CASE ~connected
  <2>1. /\ Push(Calling("end", {}, None)) /\ calls' = Called(id)
        /\ vsync_waits' = vsync_waits
    BY <1>5 DEF wgpuRemoteSurfaceOnNextVsync
  <2>2. PICK f \in Frame : /\ f = Calling("end", {}, None) /\ f.list = {}
                           /\ f.handle = None /\ f.pc = "end"
    <3>1. Calling("end", {}, None) \in Frame
      BY DEF Calling, Frame, Places
    <3> QED BY <3>1 DEF Calling
  <2>3. /\ depth' = depth + 1 /\ frame' = [frame EXCEPT ![depth + 1] = f]
        /\ f \in Frame
    BY <2>1, <2>2 DEF Push
  <2>4. /\ StackOK' /\ frame' \in [Levels -> Frame]
        /\ \A e \in Levels \ {depth + 1} : frame'[e] = frame[e]
        /\ Detached' = (Detached \ frame[depth + 1].list) \cup f.list
    <3>1. /\ depth' \in 0 .. MaxDepth + 2
          /\ ~(depth + 1 > depth')
          /\ \A e \in Levels : e > depth' => e > depth \/ e = depth + 1
      BY <2>3, Room DEF Levels
    <3>2. /\ requests' \cap vsync_waits' = {}
          /\ f.list \cap (requests' \cup vsync_waits') = {}
          /\ \A e \in Levels : e # depth + 1 =>
                frame[e].list \cap (requests' \cup vsync_waits' \cup f.list) = {}
          /\ requests' \cup vsync_waits' \cup f.list \subseteq Issued'
          /\ Issued \subseteq Issued'
      BY <1>1, <2>1, <2>2 DEF IInv, StackOK, Outstanding
    <3>3. depth + 1 \in Levels /\ depth + 1 # MaxDepth + 2
      BY Room
    <3> QED BY <2>3, <3>1, <3>2, <3>3, FrameUpdate
  <2>5. Outstanding' = Outstanding
    BY <1>1, <2>1, <2>2, <2>4, Room DEF Outstanding
  <2>6. calls' = [calls EXCEPT ![id] = 1]
    <3>1. calls[id] = 0
      BY <1>1, <1>2 DEF IInv, ExactlyOnce
    <3> QED BY <2>1, <3>1 DEF Called
  <2>7. calls' \in [Ids -> Nat] /\ calls'[id] = 1
        /\ \A other \in Ids \ {id} : calls'[other] = calls[other]
    <3>1. calls \in [Ids -> Nat]
      BY DEF IInv, TypeOK
    <3> HIDE DEF id
    <3> QED BY <1>1, <2>6, <3>1
  <2>8. ExactlyOnce'
    BY <1>1, <1>2, <2>5, <2>7 DEF IInv, ExactlyOnce
  <2>9. QuietWhenSevered'
    <3>1. Idle.pc # "requests" /\ frame[depth + 1] = Idle
      BY Room DEF Idle, At
    <3> QED BY <1>1, <2>1, <2>4, <3>1 DEF IInv, QuietWhenSevered
  <2>10. TypeOK'
    BY <1>1, <1>3, <2>1, <2>3, <2>4, <2>7, Room DEF IInv, TypeOK, handles
  <2> QED BY <2>4, <2>8, <2>9, <2>10 DEF IInv
<1> QED BY <1>4, <1>5

\* Handle state keeps its type whatever call an application makes.
LEMMA HandleTypes ==
    ASSUME IInv
    PROVE  /\ map_state \in [Buffers -> {"Unmapped", "Pending", "Mapped"}]
           /\ refcount \in [Handles -> Int]
           /\ created \subseteq Handles
           /\ appRefs \in [Handles -> Nat]
           /\ presents_sent \in Nat /\ presents_done \in Nat
           /\ Buffers \subseteq Handles /\ Textures \subseteq Handles
           /\ \A h \in Handles \cup {None} : Released(h) \in [Handles -> Int]
<1>1. \A h \in Handles \cup {None} : Released(h) \in [Handles -> Int]
  BY DEF IInv, TypeOK, Released
<1> QED BY <1>1 DEF IInv, TypeOK, Handles

\* Every call of the application preserves the invariant.
LEMMA AppStep ==
    ASSUME IInv, depth < MaxDepth, App
    PROVE  IInv'
<1>1. ASSUME NEW b \in Buffers, NEW mapped \in BOOLEAN,
             wgpuDeviceCreateBuffer(b, mapped)
      PROVE  IInv'
  <2>1. /\ map_state' \in [Buffers -> {"Unmapped", "Pending", "Mapped"}]
        /\ refcount' \in [Handles -> Int]
        /\ created' \subseteq Handles
        /\ appRefs' \in [Handles -> Nat]
    BY <1>1, HandleTypes DEF wgpuDeviceCreateBuffer
  <2> QED BY <1>1, <2>1, PlainSendStep DEF wgpuDeviceCreateBuffer
<1>2. ASSUME NEW b \in Buffers, MapAsyncRefused(b)
      PROVE  IInv'
  <2>1. PICK f \in Frame : f = Calling("end", {}, None) /\ f.list = {}
    <3>1. Calling("end", {}, None) \in Frame
      BY DEF Calling, Frame, Places
    <3> QED BY <3>1 DEF Calling
  <2>2. f \in Frame /\ f.list = {} /\ Push(f) /\ presents_done' \in Nat
    BY <1>2, <2>1, HandleTypes DEF MapAsyncRefused, adapter
  <2> QED BY <1>2, <2>2, PushStep DEF MapAsyncRefused, adapter
<1>3. ASSUME NEW b \in Buffers, wgpuBufferMapAsync(b)
      PROVE  IInv'
  <2>1. /\ map_state' \in [Buffers -> {"Unmapped", "Pending", "Mapped"}]
        /\ refcount' \in [Handles -> Int]
        /\ created' \subseteq Handles
        /\ appRefs' \in [Handles -> Nat]
        /\ b \in Handles \cup {None}
        /\ "MAP" \in RequestTypes
    BY <1>3, HandleTypes DEF wgpuBufferMapAsync, RequestTypes
  <2> QED BY <1>3, <2>1, IssueStep DEF wgpuBufferMapAsync
<1>4. ASSUME NEW b \in Buffers, wgpuBufferUnmap(b)
      PROVE  IInv'
  <2>1. CASE SendAbandons(requests)
    <3>1. PICK f \in Frame : f = Unmapping(b) /\ f.list = {}
      <4>1. Unmapping(b) \in Frame
        BY HandleTypes DEF Unmapping, Frame, Places
      <4> QED BY <4>1 DEF Unmapping
    <3>2. f \in Frame /\ f.list = {} /\ SendThen(f)
      BY <1>4, <2>1, <3>1 DEF wgpuBufferUnmap
    <3>3. UNCHANGED <<connected, next_future_id, vsync_waits, presents_sent,
                      presents_done, entry, handles, calls>>
      BY <1>4, <2>1 DEF wgpuBufferUnmap, handles
    <3> QED BY <2>1, <3>2, <3>3, SendThenStep
  <2>2. CASE ~SendAbandons(requests)
    <3>1. /\ map_state' \in [Buffers -> {"Unmapped", "Pending", "Mapped"}]
          /\ UNCHANGED <<connected, next_future_id, requests, vsync_waits, entry,
                         stack, calls, presents_sent, presents_done, refcount,
                         created, appRefs>>
      BY <1>4, <2>2, HandleTypes DEF wgpuBufferUnmap
    <3> QED BY <3>1, HandleTypes, LocalStep
  <2> QED BY <2>1, <2>2
<1>5. ASSUME NEW h \in Handles, rw_handle_addref(h)
      PROVE  IInv'
  <2>1. /\ refcount' \in [Handles -> Int]
        /\ appRefs' \in [Handles -> Nat]
        /\ UNCHANGED <<connected, next_future_id, requests, vsync_waits, entry,
                       stack, calls, presents_sent, presents_done, map_state, created>>
    BY <1>5, HandleTypes DEF rw_handle_addref, adapter
  <2> QED BY <2>1, HandleTypes, LocalStep
<1>6. ASSUME NEW h \in Handles, rw_handle_release(h)
      PROVE  IInv'
  <2>1. /\ refcount' \in [Handles -> Int]
        /\ appRefs' \in [Handles -> Nat]
        /\ UNCHANGED <<connected, next_future_id, vsync_waits, presents_sent,
                       presents_done, entry, map_state, created, calls>>
    BY <1>6, HandleTypes DEF rw_handle_release
  <2>2. CASE refcount[h] = 1
    <3>1. SendLast(requests)
      BY <1>6, <2>2 DEF rw_handle_release
    <3> QED BY <2>1, <3>1, HandleTypes, PlainSendStep
  <2>3. CASE refcount[h] # 1
    <3>1. UNCHANGED <<requests, stack>>
      BY <1>6, <2>3 DEF rw_handle_release
    <3> QED BY <2>1, <3>1, HandleTypes, LocalStep
  <2> QED BY <2>2, <2>3
<1>7. ASSUME NEW t \in Textures, wgpuRemoteDeviceLoadTextureFromURL(t)
      PROVE  IInv'
  <2>1. /\ refcount' \in [Handles -> Int]
        /\ created' \subseteq Handles
        /\ UNCHANGED <<map_state, appRefs>>
        /\ t \in Handles \cup {None}
        /\ "TEXTURE_LOAD" \in RequestTypes
    BY <1>7, HandleTypes DEF wgpuRemoteDeviceLoadTextureFromURL, RequestTypes
  <2> QED BY <1>7, <2>1, HandleTypes, IssueStep DEF wgpuRemoteDeviceLoadTextureFromURL
<1>8. ASSUME NEW type, IssuePlain(type)
      PROVE  IInv'
  <2>1. type \in RequestTypes /\ Issue(type, None) /\ UNCHANGED handles
        /\ None \in Handles \cup {None}
    BY <1>8 DEF IssuePlain, RequestTypes
  <2> QED BY <2>1, HandleTypes, IssueStep DEF handles
<1>9. CASE wgpuSurfacePresent
  <2>1. CASE SendAbandons(requests)
    <3>1. PICK f \in Frame : f = At("present", {}) /\ f.list = {}
      <4>1. At("present", {}) \in Frame
        BY DEF At, Frame, Places
      <4> QED BY <4>1 DEF At
    <3>2. f \in Frame /\ f.list = {} /\ SendThen(f)
      BY <1>9, <2>1, <3>1 DEF wgpuSurfacePresent
    <3>3. UNCHANGED <<connected, next_future_id, vsync_waits, presents_sent,
                      presents_done, entry, handles, calls>>
      BY <1>9, <2>1 DEF wgpuSurfacePresent
    <3> QED BY <2>1, <3>2, <3>3, SendThenStep
  <2>2. CASE ~SendAbandons(requests)
    <3>1. /\ presents_sent' \in Nat
          /\ UNCHANGED <<connected, next_future_id, requests, vsync_waits, entry,
                         stack, calls, presents_done, map_state, refcount,
                         created, appRefs>>
      BY <1>9, <2>2, HandleTypes DEF wgpuSurfacePresent, handles
    <3> QED BY <3>1, HandleTypes, LocalStep
  <2> QED BY <2>1, <2>2
<1>10. CASE wgpuRemoteSurfaceOnNextVsync
  BY <1>10, OnNextVsyncStep
<1>11. CASE wgpuRemoteAdapterAbandonRequests
  <2>1. connected' \in BOOLEAN
    BY <1>11 DEF wgpuRemoteAdapterAbandonRequests, IInv, TypeOK
  <2> QED BY <1>11, <2>1, AbandonStep DEF wgpuRemoteAdapterAbandonRequests
<1>12. CASE wgpuRemoteAdapterDisconnect
  BY <1>12, AbandonStep DEF wgpuRemoteAdapterDisconnect
<1> QED
  BY <1>1, <1>2, <1>3, <1>4, <1>5, <1>6, <1>7, <1>8, <1>9, <1>10, <1>11, <1>12
  DEF App, wgpuDevicePopErrorScope, wgpuQueueOnSubmittedWorkDone,
      wgpuShaderModuleGetCompilationInfo

\* Every message of the client.
LEMMA ReceiveStep ==
    ASSUME IInv, depth < MaxDepth, Receive
    PROVE  IInv'
<1>1. ASSUME NEW id \in Ids, NEW failed \in BOOLEAN, handle_map_buffer_data(id, failed)
      PROVE  IInv'
  <2> DEFINE h == entry[id].handle
  <2>1. /\ h \in Handles \cup {None}
        /\ Take(id, "MAP") /\ Push(Calling("end", {}, h))
        /\ UNCHANGED <<refcount, created, appRefs>>
    BY <1>1 DEF handle_map_buffer_data, IInv, TypeOK, Entry
  <2>2. map_state' \in [Buffers -> {"Unmapped", "Pending", "Mapped"}]
    BY <1>1, HandleTypes DEF handle_map_buffer_data
  <2> HIDE DEF h
  <2> QED BY <2>1, <2>2, HandleTypes, ReplyStep
<1>2. ASSUME NEW id \in Ids, NEW failed \in BOOLEAN, handle_texture_loaded(id, failed)
      PROVE  IInv'
  <2> DEFINE h == entry[id].handle
  <2>1. /\ h \in Handles \cup {None}
        /\ None \in Handles \cup {None}
        /\ Take(id, "TEXTURE_LOAD") /\ Push(Calling("end", {}, None))
        /\ UNCHANGED <<map_state, created>>
    BY <1>2 DEF handle_texture_loaded, IInv, TypeOK, Entry
  <2>2. refcount' \in [Handles -> Int] /\ appRefs' \in [Handles -> Nat]
    <3>1. \/ refcount' = Released(h) /\ appRefs' = appRefs
          \/ refcount' = refcount /\ appRefs' = [appRefs EXCEPT ![h] = @ + 1]
      BY <1>2 DEF handle_texture_loaded
    <3> HIDE DEF h
    <3> QED BY <2>1, <3>1, HandleTypes
  <2> QED BY <2>1, <2>2, HandleTypes, ReplyStep
<1>3. ASSUME NEW id \in Ids, NEW type \in PlainTypes, handle_plain_reply(id, type)
      PROVE  IInv'
  <2>1. /\ Take(id, type) /\ Push(Calling("end", {}, None))
        /\ None \in Handles \cup {None}
        /\ UNCHANGED <<map_state, refcount, created, appRefs>>
    BY <1>3 DEF handle_plain_reply, handles
  <2> QED BY <2>1, HandleTypes, ReplyStep
<1>4. CASE handle_present_done
  <2>1. PICK f \in Frame : f = At("vsync", {}) /\ f.list = {}
    <3>1. At("vsync", {}) \in Frame
      BY DEF At, Frame, Places
    <3> QED BY <3>1 DEF At
  <2>2. f \in Frame /\ f.list = {} /\ Push(f) /\ presents_done' \in Nat
    BY <1>4, <2>1, HandleTypes DEF handle_present_done
  <2> QED BY <1>4, <2>2, PushStep DEF handle_present_done
<1> QED BY <1>1, <1>2, <1>3, <1>4 DEF Receive

\* Every step of the library's own turn.
LEMMA LibraryStep ==
    ASSUME IInv, NEW d \in Levels,
           \/ AbandonRequest(d) \/ DetachWaits(d) \/ AbandonWait(d)
           \/ FireVsync(d)
           \/ FinishUnmap(d) \/ FinishPresent(d) \/ Finish(d)
    PROVE  IInv'
<1>1. CASE AbandonRequest(d)
  <2>1. PICK id \in frame[d].list :
              /\ Running(d, "requests")
              /\ calls' = Called(id)
              /\ map_state' = IF entry[id].type = "MAP"
                              THEN [map_state EXCEPT ![entry[id].handle] = "Unmapped"]
                              ELSE map_state
              /\ frame' = [frame EXCEPT ![d] =
                              Calling("requests", frame[d].list \ {id}, entry[id].handle)]
              /\ UNCHANGED <<adapter, entry, refcount, created, appRefs, depth>>
    BY <1>1 DEF AbandonRequest
  <2>2. d = depth /\ frame[d].pc = "requests" /\ d # MaxDepth + 2
    BY <2>1 DEF Running, IInv, StackOK
  <2>3. id \in Ids /\ entry[id].handle \in Handles \cup {None} /\ id \in Outstanding
    BY DEF IInv, TypeOK, Frame, Entry, Outstanding, Detached
  <2>4. PICK f \in Frame :
              /\ f = Calling("requests", frame[d].list \ {id}, entry[id].handle)
              /\ f.list = frame[d].list \ {id} /\ f.pc = "requests"
    <3>1. Calling("requests", frame[d].list \ {id}, entry[id].handle) \in Frame
      BY <2>3 DEF Calling, Frame, Places, IInv, TypeOK
    <3> QED BY <3>1 DEF Calling
  <2>5. /\ frame' = [frame EXCEPT ![d] = f]
        /\ f.pc = frame[d].pc
        /\ f.list \subseteq frame[d].list
        /\ requests' = requests
        /\ vsync_waits' \subseteq vsync_waits
        /\ UNCHANGED <<connected, next_future_id, presents_sent, presents_done,
                       entry, depth, refcount, created, appRefs>>
    BY <2>1, <2>2, <2>4 DEF adapter
  <2>6. /\ frame[d].list \cup vsync_waits = f.list \cup vsync_waits' \cup {id}
        /\ id \notin f.list \cup vsync_waits'
    BY <2>1, <2>4 DEF adapter, IInv, StackOK
  <2>7. map_state' \in [Buffers -> {"Unmapped", "Pending", "Mapped"}]
    BY <2>1, HandleTypes
  <2> QED BY <2>1, <2>2, <2>3, <2>4, <2>5, <2>6, <2>7, CallStep
<1>2. CASE DetachWaits(d)
  BY <1>2, DetachStep
<1>3. CASE AbandonWait(d)
  <2>1. PICK id \in frame[d].list :
              /\ Running(d, "waits")
              /\ calls' = Called(id)
              /\ frame' = [frame EXCEPT ![d] = Calling("waits", frame[d].list \ {id}, None)]
              /\ UNCHANGED <<adapter, entry, handles, depth>>
    BY <1>3 DEF AbandonWait
  <2>2. d = depth /\ frame[d].pc = "waits"
    BY <2>1 DEF Running
  <2>3. id \in Outstanding
    BY DEF Outstanding, Detached
  <2>4. PICK f \in Frame :
              /\ f = Calling("waits", frame[d].list \ {id}, None)
              /\ f.list = frame[d].list \ {id} /\ f.pc = "waits" /\ f.handle = None
    <3>1. Calling("waits", frame[d].list \ {id}, None) \in Frame
      BY DEF Calling, Frame, Places, IInv, TypeOK
    <3> QED BY <3>1 DEF Calling
  <2>5. /\ frame' = [frame EXCEPT ![d] = f]
        /\ f.pc = frame[d].pc
        /\ f.list \subseteq frame[d].list
        /\ requests' = requests
        /\ vsync_waits' \subseteq vsync_waits
        /\ d = MaxDepth + 2 => f.handle = None /\ (f.pc = "requests" => f.list = {})
        /\ UNCHANGED <<connected, next_future_id, presents_sent, presents_done,
                       entry, depth, refcount, created, appRefs>>
    BY <2>1, <2>2, <2>4 DEF adapter, handles
  <2>6. /\ frame[d].list \cup vsync_waits = f.list \cup vsync_waits' \cup {id}
        /\ id \notin f.list \cup vsync_waits'
    BY <2>1, <2>4 DEF adapter, IInv, StackOK
  <2>7. map_state' \in [Buffers -> {"Unmapped", "Pending", "Mapped"}]
    BY <2>1, HandleTypes DEF handles
  <2> QED BY <2>1, <2>2, <2>3, <2>5, <2>6, <2>7, CallStep
<1>4. CASE FireVsync(d)
  <2>1. PICK id \in vsync_waits :
              /\ Running(d, "vsync")
              /\ vsync_waits' = vsync_waits \ {id}
              /\ calls' = Called(id)
              /\ frame' = [frame EXCEPT ![d] = Calling("vsync", {}, None)]
              /\ UNCHANGED <<connected, next_future_id, requests, presents_sent,
                             presents_done, entry, handles, depth>>
    BY <1>4 DEF FireVsync
  <2>2. d = depth /\ frame[d].pc = "vsync" /\ frame[d].list = {}
    BY <2>1 DEF Running, IInv, TypeOK, Frame
  <2>3. id \in Outstanding
    BY DEF Outstanding
  <2>4. PICK f \in Frame : /\ f = Calling("vsync", {}, None)
                           /\ f.list = {} /\ f.pc = "vsync" /\ f.handle = None
    <3>1. Calling("vsync", {}, None) \in Frame
      BY DEF Calling, Frame, Places
    <3> QED BY <3>1 DEF Calling
  <2>5. /\ frame' = [frame EXCEPT ![d] = f]
        /\ f.pc = frame[d].pc
        /\ f.list \subseteq frame[d].list
        /\ requests' = requests
        /\ vsync_waits' \subseteq vsync_waits
        /\ d = MaxDepth + 2 => f.handle = None /\ (f.pc = "requests" => f.list = {})
        /\ UNCHANGED <<connected, next_future_id, presents_sent, presents_done,
                       entry, depth, refcount, created, appRefs>>
    BY <2>1, <2>2, <2>4 DEF handles
  <2>6. /\ frame[d].list \cup vsync_waits = f.list \cup vsync_waits' \cup {id}
        /\ id \notin f.list \cup vsync_waits'
    BY <2>1, <2>2, <2>4
  <2>7. map_state' \in [Buffers -> {"Unmapped", "Pending", "Mapped"}]
    BY <2>1, HandleTypes DEF handles
  <2> QED BY <2>1, <2>2, <2>3, <2>5, <2>6, <2>7, CallStep
<1>5. CASE FinishUnmap(d)
  <2>1. /\ d = depth /\ frame[d].pc = "unmap" /\ Return(d)
        /\ UNCHANGED <<connected, next_future_id, requests, vsync_waits, entry,
                       calls, presents_sent, presents_done, refcount, created, appRefs>>
    BY <1>5 DEF FinishUnmap, Running, adapter
  <2>2. frame[d].list = {} /\ frame[d].pc # "requests"
    BY <2>1 DEF IInv, TypeOK, Frame
  <2>3. map_state' \in [Buffers -> {"Unmapped", "Pending", "Mapped"}]
    BY <1>5, HandleTypes DEF FinishUnmap
  <2> QED BY <2>1, <2>2, <2>3, HandleTypes, ReturnStep
<1>6. CASE FinishPresent(d)
  <2>1. /\ d = depth /\ frame[d].pc = "present" /\ Return(d)
        /\ UNCHANGED <<connected, next_future_id, requests, vsync_waits, entry,
                       calls, presents_done, map_state, refcount, created, appRefs>>
        /\ presents_sent' \in Nat
    BY <1>6, HandleTypes DEF FinishPresent, Running, handles
  <2>2. frame[d].list = {} /\ frame[d].pc # "requests"
    BY <2>1 DEF IInv, TypeOK, Frame
  <2> QED BY <2>1, <2>2, HandleTypes, ReturnStep
<1>7. CASE Finish(d)
  <2>1. /\ d = depth /\ Return(d)
        /\ UNCHANGED <<connected, next_future_id, requests, vsync_waits, entry,
                       calls, presents_sent, presents_done, map_state, refcount,
                       created, appRefs>>
    BY <1>7 DEF Finish, Running, adapter, handles
  <2>2. frame[d].list = {} /\ frame[d].pc # "requests"
    BY <1>7 DEF Finish, Running, IInv, TypeOK, Frame
  <2> QED BY <2>1, <2>2, HandleTypes, ReturnStep
<1> QED BY <1>1, <1>2, <1>3, <1>4, <1>5, <1>6, <1>7

-----------------------------------------------------------------------------
\* The invariant holds when the adapter has just been created.
LEMMA InitIInv == Init => IInv
<1> SUFFICES ASSUME Init PROVE IInv
  OBVIOUS
<1>1. Idle \in Frame /\ Idle.list = {} /\ Idle.handle = None /\ Idle.pc = "idle"
  BY DEF Idle, At, Frame, Places
<1>2. \A d \in Levels : frame[d] = Idle
  BY DEF Init
<1>3. Detached = {} /\ Outstanding = {} /\ Issued = {}
  BY <1>1, <1>2 DEF Detached, Outstanding, Issued, Init
<1>4. Unissued \in Entry
  BY DEF Unissued, Entry, EntryTypes
<1>5. TypeOK
  <2>1. frame \in [Levels -> Frame]
    BY <1>1 DEF Init
  <2> QED BY <1>4, <2>1, Bounds DEF Init, TypeOK
<1>6. StackOK
  <2>1. MaxDepth + 2 \in Levels
    BY Bounds DEF Levels
  <2> QED BY <1>1, <1>2, <1>3, <2>1 DEF Init, StackOK
<1>7. ExactlyOnce
  BY <1>3 DEF Init, ExactlyOnce
<1>8. QuietWhenSevered
  BY DEF Init, QuietWhenSevered
<1> QED BY <1>5, <1>6, <1>7, <1>8 DEF IInv

\* Every step keeps the invariant.
LEMMA NextIInv == IInv /\ [Next]_vars => IInv'
<1> SUFFICES ASSUME IInv, [Next]_vars PROVE IInv'
  OBVIOUS
<1>1. CASE depth < MaxDepth /\ App
  BY <1>1, AppStep
<1>2. CASE depth < MaxDepth /\ Receive
  BY <1>2, ReceiveStep
<1>3. CASE \E d \in Levels : CallbackReturns(d)
  BY <1>3, CallbackReturnsStep
<1>4. CASE Library
  BY <1>4, LibraryStep DEF Library
<1>5. CASE UNCHANGED vars
  BY <1>5, HandleTypes, LocalStep DEF vars, adapter, handles
<1> QED BY <1>1, <1>2, <1>3, <1>4, <1>5 DEF Next

(* The inductive invariant holds in every state, for every number of       *)
(* buffers, textures, commands, presents and nested calls.                 *)
THEOREM Invariance == Spec => []IInv
<1>1. Init => IInv
  BY InitIInv
<1>2. IInv /\ [Next]_vars => IInv'
  BY NextIInv
<1> QED BY <1>1, <1>2, PTL DEF Spec

\* Every variable of the adapter keeps its type.
THEOREM TypeCorrect == Spec => []TypeOK
<1>1. IInv => TypeOK
  BY DEF IInv
<1> QED BY <1>1, Invariance, PTL

(* Replies, AbandonRequests, Disconnect and calls made from inside their   *)
(* callbacks never lose a callback and never repeat one.                   *)
THEOREM CallbacksExactlyOnce == Spec => []ExactlyOnce
<1>1. IInv => ExactlyOnce
  BY DEF IInv
<1> QED BY <1>1, Invariance, PTL

(* After Disconnect nothing stays queued, whatever the callbacks it runs   *)
(* issue.                                                                  *)
THEOREM SeveredIsQuiet == Spec => []QuietWhenSevered
<1>1. IInv => QuietWhenSevered
  BY DEF IInv
<1> QED BY <1>1, Invariance, PTL

-----------------------------------------------------------------------------
(* Outstanding ids are the ones issued and not called: where an id is      *)
(* listed does not matter.                                                 *)

LEMMA OutstandingIs ==
    ASSUME IInv
    PROVE  /\ Outstanding = {id \in Issued : calls[id] = 0}
           /\ Issued \subseteq Ids
<1>1. Issued \subseteq Ids
  BY Bounds DEF IInv, TypeOK, Issued, Ids
<1>2. Outstanding \subseteq Issued
  BY DEF IInv, StackOK
<1>3. \A id \in Issued : id \in Outstanding <=> calls[id] = 0
  BY <1>1 DEF IInv, ExactlyOnce
<1> QED BY <1>1, <1>2, <1>3

LEMMA OutstandingWillBe ==
    ASSUME IInv'
    PROVE  Outstanding' = {id \in Issued' : calls'[id] = 0}
<1>0. next_future_id' \in 1 .. MaxFuture + 1
  BY DEF IInv, TypeOK
<1>1. Issued' \subseteq Ids
  <2>1. Issued' = 1 .. next_future_id' - 1
    BY DEF Issued
  <2>2. ASSUME NEW n \in 1 .. MaxFuture + 1 PROVE 1 .. n - 1 \subseteq Ids
    BY Bounds DEF Ids
  <2> QED BY <1>0, <2>1, <2>2
<1>2. Outstanding' \subseteq Issued'
  BY DEF IInv, StackOK
<1>3. \A id \in Issued' : id \in Outstanding' <=> calls'[id] = 0
  BY <1>1 DEF IInv, ExactlyOnce
<1> QED BY <1>2, <1>3

-----------------------------------------------------------------------------
(* The refinement: every step is a step of the promise or changes nothing  *)
(* of it, whatever lists the ids are on and however deep the calls are     *)
(* nested.                                                                 *)

\* What a step can do to ids, callbacks and the connection.
Keeps == UNCHANGED <<connected, next_future_id, calls>>
Issues == /\ next_future_id \in Ids /\ next_future_id' = next_future_id + 1
          /\ UNCHANGED <<connected, calls>>
Calls == \E id \in Outstanding :
            calls' = Called(id) /\ UNCHANGED <<connected, next_future_id>>
Refuses == /\ ~connected
           /\ next_future_id \in Ids /\ next_future_id' = next_future_id + 1
           /\ calls' = Called(next_future_id) /\ UNCHANGED connected
Severs == ~connected' /\ UNCHANGED <<next_future_id, calls>>

LEMMA AppEffect ==
    ASSUME App
    PROVE  Keeps \/ Issues \/ Refuses \/ Severs
<1>1. ASSUME NEW type, NEW h, Issue(type, h) PROVE Issues
  BY <1>1 DEF Issue, Issues
<1>2. ASSUME NEW b \in Buffers, NEW mapped \in BOOLEAN, wgpuDeviceCreateBuffer(b, mapped)
      PROVE  Keeps
  BY <1>2 DEF wgpuDeviceCreateBuffer, Keeps
<1>3. ASSUME NEW b \in Buffers, MapAsyncRefused(b) \/ wgpuBufferUnmap(b) PROVE Keeps
  BY <1>3 DEF MapAsyncRefused, wgpuBufferUnmap, Keeps, adapter
<1>4. ASSUME NEW b \in Buffers, wgpuBufferMapAsync(b) PROVE Issues
  BY <1>1, <1>4 DEF wgpuBufferMapAsync
<1>5. ASSUME NEW h \in Handles, rw_handle_addref(h) \/ rw_handle_release(h) PROVE Keeps
  BY <1>5 DEF rw_handle_addref, rw_handle_release, Keeps, adapter
<1>6. ASSUME NEW t \in Textures, wgpuRemoteDeviceLoadTextureFromURL(t) PROVE Issues
  BY <1>1, <1>6 DEF wgpuRemoteDeviceLoadTextureFromURL
<1>7. ASSUME NEW type, IssuePlain(type) PROVE Issues
  BY <1>1, <1>7 DEF IssuePlain
<1>8. ASSUME wgpuSurfacePresent \/ wgpuRemoteAdapterAbandonRequests PROVE Keeps
  BY <1>8 DEF wgpuSurfacePresent, wgpuRemoteAdapterAbandonRequests, Keeps
<1>9. ASSUME wgpuRemoteSurfaceOnNextVsync PROVE Issues \/ Refuses
  BY <1>9 DEF wgpuRemoteSurfaceOnNextVsync, Issues, Refuses
<1>10. ASSUME wgpuRemoteAdapterDisconnect PROVE Severs
  BY <1>10 DEF wgpuRemoteAdapterDisconnect, Severs
<1> QED
  BY <1>2, <1>3, <1>4, <1>5, <1>6, <1>7, <1>8, <1>9, <1>10
     DEF App, wgpuDevicePopErrorScope, wgpuQueueOnSubmittedWorkDone,
         wgpuShaderModuleGetCompilationInfo

LEMMA ReceiveEffect ==
    ASSUME Receive
    PROVE  Keeps \/ Calls
<1>1. ASSUME NEW id, NEW type, Take(id, type) PROVE Calls
  BY <1>1 DEF Take, Calls, Outstanding
<1>2. ASSUME NEW id \in Ids, NEW failed \in BOOLEAN,
             handle_map_buffer_data(id, failed) \/ handle_texture_loaded(id, failed)
      PROVE  Calls
  BY <1>1, <1>2 DEF handle_map_buffer_data, handle_texture_loaded
<1>3. ASSUME NEW id \in Ids, NEW type \in PlainTypes, handle_plain_reply(id, type)
      PROVE  Calls
  BY <1>1, <1>3 DEF handle_plain_reply
<1>4. ASSUME handle_present_done PROVE Keeps
  BY <1>4 DEF handle_present_done, Keeps
<1> QED BY <1>2, <1>3, <1>4 DEF Receive

LEMMA LibraryEffect ==
    ASSUME Library
    PROVE  Keeps \/ Calls
<1>1. ASSUME NEW d \in Levels, AbandonRequest(d) \/ AbandonWait(d) PROVE Calls
  BY <1>1 DEF AbandonRequest, AbandonWait, Calls, Outstanding, Detached, adapter
<1>2. ASSUME NEW d \in Levels, FireVsync(d) PROVE Calls
  BY <1>2 DEF FireVsync, Calls, Outstanding
<1>3. ASSUME NEW d \in Levels,
             DetachWaits(d) \/ FinishUnmap(d) \/ FinishPresent(d) \/ Finish(d)
      PROVE  Keeps
  BY <1>3 DEF DetachWaits, FinishUnmap, FinishPresent, Finish, Keeps, adapter
<1> QED BY <1>1, <1>2, <1>3 DEF Library

\* The status of an id follows from its callback count alone.
LEMMA StatusIs ==
    ASSUME IInv
    PROVE  status = [id \in Ids |-> IF id \notin Issued THEN "unissued"
                                    ELSE IF calls[id] = 0 THEN "pending" ELSE "called"]
<1>1. \A id \in Ids \ Issued : calls[id] = 0 /\ id \notin Outstanding
  BY OutstandingIs DEF IInv, ExactlyOnce
<1>2. \A id \in Issued : id \in Outstanding <=> calls[id] = 0
  BY OutstandingIs
<1> QED BY <1>1, <1>2 DEF status

LEMMA StatusWillBe ==
    ASSUME IInv'
    PROVE  status' = [id \in Ids |-> IF id \notin Issued' THEN "unissued"
                                     ELSE IF calls'[id] = 0 THEN "pending" ELSE "called"]
<1>1. Outstanding' = {id \in Issued' : calls'[id] = 0}
  BY OutstandingWillBe
<1>2. \A id \in Ids : id \notin Issued' => calls'[id] = 0
  BY DEF IInv, ExactlyOnce
<1> QED BY <1>1, <1>2 DEF status

LEMMA StepKeepsPromise ==
    ASSUME IInv, IInv', [Next]_vars
    PROVE  [Promise!Next]_(Promise!vars)
<1> DEFINE new == next_future_id
<1>1. calls \in [Ids -> Nat] /\ Issued \subseteq Ids
  BY OutstandingIs DEF IInv, TypeOK
<1>2. Keeps \/ Issues \/ Calls \/ Refuses \/ Severs
  <2>1. ASSUME \E d \in Levels : CallbackReturns(d) PROVE Keeps
    BY <2>1 DEF CallbackReturns, Keeps
  <2>2. ASSUME UNCHANGED vars PROVE Keeps
    BY <2>2 DEF vars, adapter, Keeps
  <2> QED BY <2>1, <2>2, AppEffect, ReceiveEffect, LibraryEffect DEF Next
<1>3. ASSUME next_future_id' = next_future_id PROVE Issued' = Issued
  BY <1>3 DEF Issued
<1>4. ASSUME new \in Ids, next_future_id' = new + 1
      PROVE  Issued' = Issued \cup {new} /\ new \notin Issued /\ calls[new] = 0
  <2>1. Issued' = Issued \cup {new} /\ new \notin Issued
    BY <1>4, Bounds DEF IInv, TypeOK, Issued, Ids
  <2> QED BY <1>4, <2>1 DEF IInv, ExactlyOnce
<1>5. CASE Keeps
  <2>1. status' = status /\ connected' = connected
    BY <1>3, <1>5, StatusIs, StatusWillBe DEF Keeps
  <2> QED BY <2>1 DEF Promise!vars
<1>6. CASE Issues
  <2>1. /\ new \in Ids /\ status[new] = "unissued"
        /\ status' = [status EXCEPT ![new] = "pending"] /\ connected' = connected
    BY <1>1, <1>4, <1>6, StatusIs, StatusWillBe DEF Issues
  <2> QED BY <2>1 DEF Promise!Next, Promise!Issue, Promise!Move
<1>7. CASE Calls
  <2>1. PICK id \in Outstanding :
            calls' = Called(id) /\ UNCHANGED <<connected, next_future_id>>
    BY <1>7 DEF Calls
  <2>2. id \in Ids /\ id \in Issued /\ calls[id] = 0
    BY OutstandingIs
  <2>3. calls' = [calls EXCEPT ![id] = 1]
    BY <1>1, <2>1, <2>2 DEF Called
  <2>4. status[id] = "pending"
    BY <2>2, StatusIs
  <2>5. \A x \in Ids : status'[x] = IF x = id THEN "called" ELSE status[x]
    <3> TAKE x \in Ids
    <3>1. calls'[x] = IF x = id THEN 1 ELSE calls[x]
      BY <1>1, <2>1, <2>2, <2>3
    <3>2. status'[x] = IF x \notin Issued' THEN "unissued"
                       ELSE IF calls'[x] = 0 THEN "pending" ELSE "called"
      BY StatusWillBe
    <3>3. status[x] = IF x \notin Issued THEN "unissued"
                      ELSE IF calls[x] = 0 THEN "pending" ELSE "called"
      BY StatusIs
    <3> QED BY <1>3, <2>1, <2>2, <3>1, <3>2, <3>3
  <2>6. status' = [status EXCEPT ![id] = "called"]
    BY <2>5 DEF status
  <2> QED BY <2>1, <2>2, <2>4, <2>6 DEF Promise!Next, Promise!Call, Promise!Move
<1>8. CASE Refuses
  <2>1. calls' = [calls EXCEPT ![new] = 1]
    BY <1>1, <1>4, <1>8 DEF Refuses, Called
  <2>2. /\ new \in Ids /\ new \notin Issued /\ Issued' = Issued \cup {new}
        /\ ~connected /\ connected' = connected
    BY <1>4, <1>8 DEF Refuses
  <2>3. status[new] = "unissued"
    BY <2>2, StatusIs
  <2>4. \A x \in Ids : status'[x] = IF x = new THEN "called" ELSE status[x]
    <3> TAKE x \in Ids
    <3>1. calls'[x] = IF x = new THEN 1 ELSE calls[x]
      BY <1>1, <2>1, <2>2
    <3>2. status'[x] = IF x \notin Issued' THEN "unissued"
                       ELSE IF calls'[x] = 0 THEN "pending" ELSE "called"
      BY StatusWillBe
    <3>3. status[x] = IF x \notin Issued THEN "unissued"
                      ELSE IF calls[x] = 0 THEN "pending" ELSE "called"
      BY StatusIs
    <3> QED BY <2>2, <3>1, <3>2, <3>3
  <2>5. status' = [status EXCEPT ![new] = "called"]
    BY <2>4 DEF status
  <2>6. Promise!Refuse(new)
    BY <2>2, <2>3, <2>5 DEF Promise!Refuse, Promise!Move
  <2> QED BY <2>2, <2>6 DEF Promise!Next
<1>9. CASE Severs
  <2>1. status' = status /\ ~connected'
    BY <1>3, <1>9, StatusIs, StatusWillBe DEF Severs
  <2> QED BY <2>1 DEF Promise!Next, Promise!Sever
<1> QED BY <1>2, <1>5, <1>6, <1>7, <1>8, <1>9

LEMMA InitKeepsPromise ==
    ASSUME Init
    PROVE  Promise!Init
<1>1. IInv
  BY InitIInv
<1>2. Issued = {}
  BY DEF Init, Issued
<1> QED BY <1>1, <1>2, StatusIs DEF Init, Promise!Init

(* Whatever the application, its callbacks and the client do, the library  *)
(* gives every command one callback: pending from the call that issued it  *)
(* until the callback, called once, or refused on a severed adapter.       *)
THEOREM ImplementsPromise == Spec => Promise!Safe
<1>1. Init => Promise!Init
  BY InitKeepsPromise
<1>2. IInv /\ IInv' /\ [Next]_vars => [Promise!Next]_(Promise!vars)
  BY StepKeepsPromise
<1> QED BY <1>1, <1>2, Invariance, PTL DEF Spec, Promise!Safe

-----------------------------------------------------------------------------
(* Vsync waits.  A PresentDone carries no id: it completes waits from the  *)
(* head of the list while their present is acknowledged, and any of their  *)
(* callbacks may present, wait or receive the next PresentDone.  That this *)
(* leaves no wait behind rests on the list being sorted by the presents    *)
(* the waits are for (WaitsSorted).                                        *)

(* No acknowledgement is ahead of the presents, no wait is for a present   *)
(* still to come, and a younger wait is for a present no older.            *)
WaitsSorted ==
    /\ presents_done <= presents_sent
    /\ \A id \in Ids : entry[id].seq <= presents_sent
    /\ \A v, w \in vsync_waits : v < w => entry[v].seq <= entry[w].seq

\* Inductive together with IInv.
WInv == VsyncInOrder /\ WaitsSorted /\ NoOverdueWait

\* No PresentDone loop ends in this step.
LoopsGoOn == \A d \in Levels : frame[d].pc = "vsync" => frame'[d].pc = "vsync"

\* A set of ids that is not empty has an oldest one.
LEMMA HasOldest ==
    ASSUME NEW S \in SUBSET Nat, S # {}
    PROVE  \E id \in S : Oldest(id, S)
<1>1. PICK id \in S : \A other \in S : id <= other
  BY HasLeast
<1> QED BY <1>1 DEF Oldest

-----------------------------------------------------------------------------
\* The stack: which steps end a PresentDone loop.

LEMMA PushGoesOn ==
    ASSUME IInv, depth < MaxDepth, NEW f, Push(f)
    PROVE  LoopsGoOn
<1>1. /\ depth + 1 \in Levels /\ frame[depth + 1].pc # "vsync"
      /\ frame \in [Levels -> Frame]
  BY Room DEF Idle, At, IInv, TypeOK
<1> QED BY <1>1 DEF Push, LoopsGoOn

LEMMA SendLastGoesOn ==
    ASSUME IInv, depth < MaxDepth, NEW reqs, SendLast(reqs)
    PROVE  LoopsGoOn
<1>1. CASE SendAbandons(reqs)
  BY <1>1, PushGoesOn DEF SendLast
<1>2. CASE ~SendAbandons(reqs)
  BY <1>2 DEF SendLast, stack, LoopsGoOn
<1> QED BY <1>1, <1>2

LEMMA SendThenGoesOn ==
    ASSUME IInv, depth < MaxDepth, NEW f, SendThen(f)
    PROVE  LoopsGoOn
<1>1. /\ depth \in Nat /\ depth + 1 \in Levels /\ depth + 2 \in Levels
      /\ depth + 1 > depth /\ depth + 2 > depth
  BY Bounds DEF IInv, TypeOK, Levels
<1>2. /\ frame[depth + 1] = Idle /\ frame[depth + 2] = Idle
      /\ frame \in [Levels -> Frame]
  BY <1>1 DEF IInv, StackOK, TypeOK
<1>3. Idle.pc # "vsync"
  BY DEF Idle, At
<1>4. \A d \in Levels : d # depth + 1 /\ d # depth + 2 => frame'[d] = frame[d]
  BY <1>1, <1>2 DEF SendThen
<1> QED BY <1>2, <1>3, <1>4 DEF LoopsGoOn

LEMMA ReturnGoesOn ==
    ASSUME IInv, NEW d \in Levels, frame[d].pc # "vsync", Return(d)
    PROVE  LoopsGoOn
BY DEF Return, LoopsGoOn, IInv, TypeOK

LEMMA ChangeGoesOn ==
    ASSUME IInv, NEW d \in Levels, NEW f, f.pc = frame[d].pc,
           frame' = [frame EXCEPT ![d] = f]
    PROVE  LoopsGoOn
BY DEF LoopsGoOn, IInv, TypeOK

-----------------------------------------------------------------------------
\* What the steps do to the waits.

\* A step that leaves the waits, what they are for and the count of
\* acknowledgements alone.
LEMMA WaitsKept ==
    ASSUME IInv, WInv, LoopsGoOn,
           UNCHANGED <<next_future_id, vsync_waits, entry, presents_done>>,
           connected' => connected,
           presents_sent' \in Nat, presents_sent' >= presents_sent
    PROVE  WInv'
<1>1. VsyncInOrder'
  BY DEF WInv, VsyncInOrder, Issued
<1>2. WaitsSorted'
  <2>1. /\ presents_sent \in Nat /\ presents_done \in Nat
        /\ \A id \in Ids : entry[id].seq \in Nat
    BY DEF IInv, TypeOK, Entry
  <2> QED BY <2>1 DEF WInv, WaitsSorted
<1>3. NoOverdueWait'
  BY DEF WInv, NoOverdueWait, LoopsGoOn
<1> QED BY <1>1, <1>2, <1>3 DEF WInv

\* The types of the commands with a reply do not include that of a wait.
LEMMA NotWaits == "VSYNC" \notin RequestTypes
BY RemoteAdapterAssumption DEF RequestTypes

\* What an id that is handed out does not disturb.
LEMMA FreshId ==
    ASSUME IInv, next_future_id \in Ids, next_future_id' = next_future_id + 1
    PROVE  /\ next_future_id \notin Issued
           /\ Issued' = Issued \cup {next_future_id}
           /\ next_future_id \notin vsync_waits
           /\ \A id \in Issued : id < next_future_id
           /\ vsync_waits \subseteq Issued
           /\ Issued \subseteq Ids
BY Bounds DEF IInv, TypeOK, StackOK, Outstanding, Ids, Issued

\* A command with a reply is no wait.
LEMMA IssueKeepsWaits ==
    ASSUME IInv, WInv, depth < MaxDepth, NEW type \in RequestTypes,
           NEW h \in Handles \cup {None}, Issue(type, h)
    PROVE  WInv'
<1> DEFINE id == next_future_id
<1>1. /\ id \in Ids /\ next_future_id' = id + 1
      /\ entry' = [entry EXCEPT ![id] = Request(type, h)]
      /\ UNCHANGED <<connected, vsync_waits, presents_sent, presents_done>>
  BY DEF Issue
<1>2. /\ entry'[id].type # "VSYNC" /\ entry'[id].seq = 0
      /\ \A other \in Ids : other # id => entry'[other] = entry[other]
  BY <1>1, NotWaits DEF Request, IInv, TypeOK
<1>3. LoopsGoOn
  BY SendLastGoesOn DEF Issue
<1>4. /\ presents_sent \in Nat /\ presents_done \in Nat
      /\ \A other \in Ids : entry[other].seq \in Nat
  BY DEF IInv, TypeOK, Entry
<1>5. VsyncInOrder'
  <2> SUFFICES ASSUME connected', NEW w \in vsync_waits', NEW v \in Issued',
                      entry'[v].type = "VSYNC", v > w
               PROVE  v \in vsync_waits'
    BY DEF VsyncInOrder
  <2>1. v \in Issued /\ entry[v].type = "VSYNC"
    BY <1>1, <1>2, FreshId
  <2> QED BY <1>1, <2>1 DEF WInv, VsyncInOrder
<1>6. WaitsSorted'
  <2>1. \A other \in Ids : entry'[other].seq <= presents_sent
    BY <1>1, <1>2, <1>4 DEF WInv, WaitsSorted
  <2>2. \A w \in vsync_waits : entry'[w] = entry[w]
    BY <1>1, <1>2, FreshId
  <2> QED BY <1>1, <2>1, <2>2 DEF WInv, WaitsSorted
<1>7. NoOverdueWait'
  <2>1. \A w \in vsync_waits : entry'[w] = entry[w]
    BY <1>1, <1>2, FreshId
  <2> QED BY <1>1, <1>3, <2>1 DEF WInv, NoOverdueWait, LoopsGoOn
<1> QED BY <1>5, <1>6, <1>7 DEF WInv

\* A new wait goes to the end of the list, for the last present.
LEMMA OnNextVsyncKeepsWaits ==
    ASSUME IInv, WInv, depth < MaxDepth, wgpuRemoteSurfaceOnNextVsync
    PROVE  WInv'
<1> DEFINE id == next_future_id
<1>1. /\ id \in Ids /\ next_future_id' = id + 1
      /\ entry' = [entry EXCEPT ![id] = VsyncWait(presents_sent, presents_done)]
      /\ UNCHANGED <<connected, presents_sent, presents_done>>
      /\ vsync_waits' = IF connected THEN vsync_waits \cup {id} ELSE vsync_waits
  BY DEF wgpuRemoteSurfaceOnNextVsync
<1>2. /\ entry'[id].type = "VSYNC" /\ entry'[id].seq = presents_sent
      /\ entry'[id].since = presents_done
      /\ \A other \in Ids : other # id => entry'[other] = entry[other]
  BY <1>1 DEF VsyncWait, IInv, TypeOK
<1>3. LoopsGoOn
  <2>1. CASE connected
    BY <2>1 DEF wgpuRemoteSurfaceOnNextVsync, stack, LoopsGoOn
  <2>2. CASE ~connected
    BY <2>2, PushGoesOn DEF wgpuRemoteSurfaceOnNextVsync
  <2> QED BY <2>1, <2>2
<1>4. /\ presents_sent \in Nat /\ presents_done \in Nat
      /\ \A other \in Ids : entry[other].seq \in Nat
  BY DEF IInv, TypeOK, Entry
<1>5. \A w \in vsync_waits : w \in Ids /\ w < id /\ entry'[w] = entry[w]
  BY <1>1, <1>2, FreshId
<1>6. VsyncInOrder'
  <2> SUFFICES ASSUME connected', NEW w \in vsync_waits', NEW v \in Issued',
                      entry'[v].type = "VSYNC", v > w
               PROVE  v \in vsync_waits'
    BY DEF VsyncInOrder
  <2>1. CASE v = id
    BY <1>1, <2>1
  <2>2. CASE v # id
    <3>1. v \in Issued /\ v < id /\ v \in Ids /\ id \in Nat
      BY <1>1, <2>2, FreshId DEF Ids
    <3>2. w # id
      BY <1>1, <3>1 DEF Ids
    <3>3. w \in vsync_waits /\ entry[v].type = "VSYNC"
      BY <1>1, <1>2, <2>2, <3>1, <3>2
    <3> QED BY <1>1, <3>1, <3>3 DEF WInv, VsyncInOrder
  <2> QED BY <2>1, <2>2
<1>7. WaitsSorted'
  <2>1. \A other \in Ids : entry'[other].seq <= presents_sent
    BY <1>1, <1>2, <1>4 DEF WInv, WaitsSorted
  <2>2. ASSUME NEW v \in vsync_waits', NEW w \in vsync_waits', v < w
        PROVE  entry'[v].seq <= entry'[w].seq
    <3>1. CASE w = id
      BY <1>1, <1>2, <1>5, <2>1, <3>1
    <3>2. CASE w # id
      <4>1. w \in vsync_waits /\ v \in vsync_waits
        BY <1>1, <1>5, <2>2, <3>2 DEF Ids
      <4> QED BY <1>5, <2>2, <4>1 DEF WInv, WaitsSorted
    <3> QED BY <3>1, <3>2
  <2>3. presents_done' <= presents_sent'
    BY <1>1 DEF WInv, WaitsSorted
  <2> QED BY <1>1, <2>1, <2>2, <2>3 DEF WaitsSorted
<1>8. NoOverdueWait'
  <2> SUFFICES ASSUME \A d \in Levels : frame'[d].pc # "vsync", NEW w \in vsync_waits'
               PROVE  \/ entry'[w].seq > presents_done'
                      \/ entry'[w].since = presents_done'
    BY DEF NoOverdueWait
  <2>1. CASE w = id
    BY <1>1, <1>2, <2>1
  <2>2. CASE w # id
    <3>1. w \in vsync_waits /\ entry'[w] = entry[w]
      BY <1>1, <1>5, <2>2
    <3> QED BY <1>1, <1>3, <3>1 DEF WInv, NoOverdueWait, LoopsGoOn
  <2> QED BY <2>1, <2>2
<1> QED BY <1>6, <1>7, <1>8 DEF WInv

\* The acknowledgement starts the loop that completes what is overdue.
LEMMA PresentDoneKeepsWaits ==
    ASSUME IInv, WInv, depth < MaxDepth, handle_present_done
    PROVE  WInv'
<1>1. /\ presents_done < presents_sent /\ presents_done' = presents_done + 1
      /\ frame' = [frame EXCEPT ![depth + 1] = At("vsync", {})]
      /\ UNCHANGED <<connected, next_future_id, vsync_waits, presents_sent, entry>>
  BY DEF handle_present_done, Push
<1>2. depth + 1 \in Levels /\ frame'[depth + 1].pc = "vsync"
  BY <1>1, Room DEF At, IInv, TypeOK
<1>3. VsyncInOrder'
  BY <1>1 DEF WInv, VsyncInOrder, Issued
<1>4. WaitsSorted'
  BY <1>1 DEF WInv, WaitsSorted, IInv, TypeOK
<1>5. NoOverdueWait'
  BY <1>2 DEF NoOverdueWait
<1> QED BY <1>3, <1>4, <1>5 DEF WInv

\* The loop takes the oldest wait, so what stays is still a tail of the list.
LEMMA FireVsyncKeepsWaits ==
    ASSUME IInv, WInv, NEW d \in Levels, FireVsync(d)
    PROVE  WInv'
<1>1. PICK id \in vsync_waits :
          /\ Oldest(id, vsync_waits) /\ frame[d].pc = "vsync"
          /\ vsync_waits' = vsync_waits \ {id}
          /\ frame' = [frame EXCEPT ![d] = Calling("vsync", {}, None)]
          /\ UNCHANGED <<connected, next_future_id, presents_sent, presents_done, entry>>
  BY DEF FireVsync, Running
<1>2. VsyncInOrder'
  <2> SUFFICES ASSUME connected', NEW w \in vsync_waits', NEW v \in Issued',
                      entry'[v].type = "VSYNC", v > w
               PROVE  v \in vsync_waits'
    BY DEF VsyncInOrder
  <2>1. w \in vsync_waits /\ v \in vsync_waits
    BY <1>1 DEF WInv, VsyncInOrder, Issued
  <2>2. id \in Nat /\ w \in Nat /\ v \in Nat /\ id <= w
    BY <1>1, <2>1 DEF Oldest, IInv, TypeOK, Ids
  <2> QED BY <1>1, <2>1, <2>2
<1>3. WaitsSorted'
  BY <1>1 DEF WInv, WaitsSorted
<1>4. NoOverdueWait'
  <2>1. frame'[d].pc = "vsync"
    BY <1>1 DEF Calling, IInv, TypeOK
  <2> QED BY <2>1 DEF NoOverdueWait
<1> QED BY <1>2, <1>3, <1>4 DEF WInv

\* AbandonRequests takes the whole list.
LEMMA DetachKeepsWaits ==
    ASSUME IInv, WInv, NEW d \in Levels, DetachWaits(d)
    PROVE  WInv'
<1>1. /\ vsync_waits' = {}
      /\ UNCHANGED <<presents_sent, presents_done, entry>>
  BY DEF DetachWaits
<1> QED BY <1>1 DEF WInv, VsyncInOrder, WaitsSorted, NoOverdueWait

\* When the loop ends, the oldest wait is for a present that is not
\* acknowledged, and all the others are for that one or a later one.
LEMMA FinishKeepsWaits ==
    ASSUME IInv, WInv, NEW d \in Levels, Finish(d)
    PROVE  WInv'
<1>1. /\ Return(d)
      /\ UNCHANGED <<connected, next_future_id, vsync_waits, presents_sent,
                     presents_done, entry>>
  BY DEF Finish, adapter
<1>2. CASE frame[d].pc # "vsync"
  BY <1>1, <1>2, ReturnGoesOn, WaitsKept DEF IInv, TypeOK
<1>3. CASE frame[d].pc = "vsync"
  <2>1. \A id \in vsync_waits : Oldest(id, vsync_waits) => ~Due(id)
    BY <1>3 DEF Finish, Running
  <2>2. \A w \in vsync_waits : entry[w].seq > presents_done
    <3> TAKE w \in vsync_waits
    <3>1. vsync_waits \in SUBSET Nat /\ vsync_waits # {}
      BY DEF IInv, TypeOK, Ids
    <3>2. PICK id \in vsync_waits : Oldest(id, vsync_waits)
      BY <3>1, HasOldest
    <3>3. id \in Ids /\ w \in Ids /\ id <= w
      BY <3>2 DEF Oldest, IInv, TypeOK
    <3>4. entry[id].seq <= entry[w].seq
      <4>1. CASE id = w
        BY <3>3, <4>1 DEF IInv, TypeOK, Entry
      <4>2. CASE id # w
        BY <3>3, <4>2 DEF WInv, WaitsSorted, Ids
      <4> QED BY <4>1, <4>2
    <3>5. /\ entry[id].seq > presents_done /\ presents_done \in Nat
          /\ entry[id].seq \in Nat /\ entry[w].seq \in Nat
      BY <2>1, <3>2, <3>3 DEF Due, IInv, TypeOK, Entry
    <3> QED BY <3>4, <3>5
  <2> QED BY <1>1, <2>2 DEF WInv, VsyncInOrder, WaitsSorted, NoOverdueWait, Issued
<1> QED BY <1>2, <1>3

-----------------------------------------------------------------------------
\* Every step.

LEMMA AppKeepsWaits ==
    ASSUME IInv, WInv, depth < MaxDepth, App
    PROVE  WInv'
<1>0. presents_sent \in Nat
  BY DEF IInv, TypeOK
<1>1. ASSUME NEW b \in Buffers, NEW mapped \in BOOLEAN, wgpuDeviceCreateBuffer(b, mapped)
      PROVE  WInv'
  BY <1>0, <1>1, SendLastGoesOn, WaitsKept DEF wgpuDeviceCreateBuffer
<1>2. ASSUME NEW b \in Buffers, MapAsyncRefused(b) PROVE WInv'
  BY <1>0, <1>2, PushGoesOn, WaitsKept DEF MapAsyncRefused, adapter
<1>3. ASSUME NEW b \in Buffers, wgpuBufferMapAsync(b) PROVE WInv'
  BY <1>3, IssueKeepsWaits DEF wgpuBufferMapAsync, Handles, RequestTypes
<1>4. ASSUME NEW b \in Buffers, wgpuBufferUnmap(b) PROVE WInv'
  <2>1. LoopsGoOn
    BY <1>4, SendThenGoesOn DEF wgpuBufferUnmap, stack, LoopsGoOn
  <2> QED BY <1>0, <1>4, <2>1, WaitsKept DEF wgpuBufferUnmap
<1>5. ASSUME NEW h \in Handles, rw_handle_addref(h) PROVE WInv'
  BY <1>0, <1>5, WaitsKept DEF rw_handle_addref, adapter, stack, LoopsGoOn
<1>6. ASSUME NEW h \in Handles, rw_handle_release(h) PROVE WInv'
  <2>1. LoopsGoOn
    BY <1>6, SendLastGoesOn DEF rw_handle_release, stack, LoopsGoOn
  <2> QED BY <1>0, <1>6, <2>1, WaitsKept DEF rw_handle_release
<1>7. ASSUME NEW t \in Textures, wgpuRemoteDeviceLoadTextureFromURL(t) PROVE WInv'
  BY <1>7, IssueKeepsWaits DEF wgpuRemoteDeviceLoadTextureFromURL, Handles, RequestTypes
<1>8. ASSUME NEW type, IssuePlain(type) PROVE WInv'
  BY <1>8, IssueKeepsWaits DEF IssuePlain, RequestTypes
<1>9. ASSUME wgpuSurfacePresent PROVE WInv'
  <2>1. LoopsGoOn
    BY <1>9, SendThenGoesOn DEF wgpuSurfacePresent, stack, LoopsGoOn
  <2> QED BY <1>0, <1>9, <2>1, WaitsKept DEF wgpuSurfacePresent
<1>10. ASSUME wgpuRemoteAdapterAbandonRequests PROVE WInv'
  BY <1>0, <1>10, PushGoesOn, WaitsKept DEF wgpuRemoteAdapterAbandonRequests
<1>11. ASSUME wgpuRemoteAdapterDisconnect PROVE WInv'
  BY <1>0, <1>11, PushGoesOn, WaitsKept DEF wgpuRemoteAdapterDisconnect
<1> QED
  BY <1>1, <1>2, <1>3, <1>4, <1>5, <1>6, <1>7, <1>8, <1>9, <1>10, <1>11,
     OnNextVsyncKeepsWaits
     DEF App, wgpuDevicePopErrorScope, wgpuQueueOnSubmittedWorkDone,
         wgpuShaderModuleGetCompilationInfo

LEMMA ReplyKeepsWaits ==
    ASSUME IInv, WInv, depth < MaxDepth, NEW id \in Ids, NEW type, Take(id, type),
           NEW f, Push(f)
    PROVE  WInv'
BY PushGoesOn, WaitsKept DEF Take, IInv, TypeOK

LEMMA ReceiveKeepsWaits ==
    ASSUME IInv, WInv, depth < MaxDepth, Receive
    PROVE  WInv'
<1>1. ASSUME NEW id \in Ids, NEW failed \in BOOLEAN, handle_map_buffer_data(id, failed)
      PROVE  WInv'
  BY <1>1, ReplyKeepsWaits DEF handle_map_buffer_data
<1>2. ASSUME NEW id \in Ids, NEW failed \in BOOLEAN, handle_texture_loaded(id, failed)
      PROVE  WInv'
  BY <1>2, ReplyKeepsWaits DEF handle_texture_loaded
<1>3. ASSUME NEW id \in Ids, NEW type \in PlainTypes, handle_plain_reply(id, type)
      PROVE  WInv'
  BY <1>3, ReplyKeepsWaits DEF handle_plain_reply
<1> QED BY <1>1, <1>2, <1>3, PresentDoneKeepsWaits DEF Receive

LEMMA CallbackReturnsKeepsWaits ==
    ASSUME IInv, WInv, NEW d \in Levels, CallbackReturns(d)
    PROVE  WInv'
<1> DEFINE resumed == [frame EXCEPT ![d] = [@ EXCEPT !.calling = FALSE, !.handle = None]]
<1>1. /\ UNCHANGED <<connected, next_future_id, vsync_waits, presents_sent,
                     presents_done, entry>>
      /\ frame' = resumed \/ /\ depth = d
                             /\ frame' = [resumed EXCEPT ![d + 1] = At("requests", requests)]
  BY DEF CallbackReturns
<1>2. frame \in [Levels -> Frame] /\ presents_sent \in Nat /\ d \in Nat
  BY DEF IInv, TypeOK, Levels
<1>3. \A e \in Levels : resumed[e].pc = frame[e].pc
  BY <1>2 DEF Frame
<1>4. CASE frame' = resumed
  <2>1. LoopsGoOn
    BY <1>3, <1>4 DEF LoopsGoOn
  <2> QED BY <1>1, <1>2, <2>1, WaitsKept
<1>5. CASE depth = d /\ frame' = [resumed EXCEPT ![d + 1] = At("requests", requests)]
  <2>1. \A e \in Levels : e # d + 1 => frame'[e] = resumed[e]
    BY <1>2, <1>5
  <2>2. ASSUME d + 1 \in Levels PROVE frame[d + 1].pc # "vsync"
    BY <1>2, <1>5, <2>2 DEF IInv, StackOK, Idle, At
  <2>3. LoopsGoOn
    BY <1>3, <2>1, <2>2 DEF LoopsGoOn
  <2> QED BY <1>1, <1>2, <2>3, WaitsKept
<1> QED BY <1>1, <1>4, <1>5

LEMMA LibraryKeepsWaits ==
    ASSUME IInv, WInv, Library
    PROVE  WInv'
<1>0. presents_sent \in Nat
  BY DEF IInv, TypeOK
<1> SUFFICES ASSUME NEW d \in Levels,
                    \/ AbandonRequest(d) \/ DetachWaits(d) \/ AbandonWait(d)
                    \/ FireVsync(d)
                    \/ FinishUnmap(d) \/ FinishPresent(d) \/ Finish(d)
             PROVE  WInv'
  BY DEF Library
<1>1. CASE AbandonRequest(d)
  <2>1. PICK id \in frame[d].list :
            /\ frame[d].pc = "requests"
            /\ frame' = [frame EXCEPT ![d] =
                            Calling("requests", frame[d].list \ {id}, entry[id].handle)]
            /\ UNCHANGED <<connected, next_future_id, vsync_waits, presents_sent,
                           presents_done, entry>>
    BY <1>1 DEF AbandonRequest, Running, adapter
  <2>2. LoopsGoOn
    BY <2>1, ChangeGoesOn DEF Calling
  <2> QED BY <1>0, <2>1, <2>2, WaitsKept
<1>2. CASE AbandonWait(d)
  <2>1. PICK id \in frame[d].list :
            /\ frame[d].pc = "waits"
            /\ frame' = [frame EXCEPT ![d] = Calling("waits", frame[d].list \ {id}, None)]
            /\ UNCHANGED <<connected, next_future_id, vsync_waits, presents_sent,
                           presents_done, entry>>
    BY <1>2 DEF AbandonWait, Running, adapter
  <2>2. LoopsGoOn
    BY <2>1, ChangeGoesOn DEF Calling
  <2> QED BY <1>0, <2>1, <2>2, WaitsKept
<1>3. CASE FinishUnmap(d)
  <2>1. LoopsGoOn
    BY <1>3, ReturnGoesOn DEF FinishUnmap, Running
  <2> QED BY <1>0, <1>3, <2>1, WaitsKept DEF FinishUnmap, adapter
<1>4. CASE FinishPresent(d)
  <2>1. LoopsGoOn
    BY <1>4, ReturnGoesOn DEF FinishPresent, Running
  <2> QED BY <1>0, <1>4, <2>1, WaitsKept DEF FinishPresent
<1> QED BY <1>1, <1>2, <1>3, <1>4, DetachKeepsWaits, FireVsyncKeepsWaits, FinishKeepsWaits

LEMMA InitWInv == Init => WInv
<1> SUFFICES ASSUME Init PROVE WInv
  OBVIOUS
<1>1. \A id \in Ids : entry[id].seq = 0
  BY DEF Init, Unissued
<1> QED BY <1>1 DEF Init, WInv, VsyncInOrder, WaitsSorted, NoOverdueWait

LEMMA NextWInv == IInv /\ WInv /\ [Next]_vars => WInv'
<1> SUFFICES ASSUME IInv, WInv, [Next]_vars PROVE WInv'
  OBVIOUS
<1>1. CASE depth < MaxDepth /\ App
  BY <1>1, AppKeepsWaits
<1>2. CASE depth < MaxDepth /\ Receive
  BY <1>2, ReceiveKeepsWaits
<1>3. CASE \E d \in Levels : CallbackReturns(d)
  BY <1>3, CallbackReturnsKeepsWaits
<1>4. CASE Library
  BY <1>4, LibraryKeepsWaits
<1>5. CASE UNCHANGED vars
  BY <1>5, WaitsKept DEF vars, adapter, stack, LoopsGoOn, IInv, TypeOK
<1> QED BY <1>1, <1>2, <1>3, <1>4, <1>5 DEF Next

\* The waits stay sorted, in order and in time in every behaviour.
LEMMA WaitsInvariant == Spec => []WInv
<1>1. Init => WInv
  BY InitWInv
<1>2. IInv /\ WInv /\ [Next]_vars => WInv'
  BY NextWInv
<1> QED BY <1>1, <1>2, Invariance, PTL DEF Spec

(* While an adapter is connected its waits leave the list from the head    *)
(* only, however many presents are under way and whatever the callbacks    *)
(* of waits and requests call.                                             *)
THEOREM WaitsInOrder == Spec => []VsyncInOrder
<1>1. WInv => VsyncInOrder
  BY DEF WInv
<1> QED BY <1>1, WaitsInvariant, PTL

(* Once the loops over acknowledged presents are done, no wait that is     *)
(* still queued is due, unless no acknowledgement came since it joined.    *)
THEOREM WaitsInTime == Spec => []NoOverdueWait
<1>1. WInv => NoOverdueWait
  BY DEF WInv
<1> QED BY <1>1, WaitsInvariant, PTL

-----------------------------------------------------------------------------
(* Handles.  Who holds a buffer or a texture, and when a buffer is         *)
(* Pending: the reply handlers and AbandonRequests release what a request  *)
(* holds at different moments, before or after its callback, and the       *)
(* callback may release, map, unmap or abort in between.                   *)
(*                                                                         *)
(* Two facts carry the proof.  An id is outstanding exactly while it is    *)
(* issued and not called (from ExactlyOnce), so where it is listed does    *)
(* not matter.  And an Unmap that is suspended in its send can be above no *)
(* map request of its buffer (UnmapAlone), so that its late assignment     *)
(* overwrites no Pending.                                                  *)

Refs(h) == {id \in Outstanding : entry[id].handle = h}
Maps(b) == {id \in Outstanding : entry[id].type = "MAP" /\ entry[id].handle = b}

\* What a request or a wait can hold.
Shapes ==
    /\ \A w \in vsync_waits : entry[w].type = "VSYNC"
    /\ \A d \in Levels : frame[d].pc = "waits" =>
          \A w \in frame[d].list : entry[w].type = "VSYNC"
    /\ \A id \in Ids :
          /\ entry[id].type \in PlainTypes \cup {"VSYNC"} => entry[id].handle = None
          /\ entry[id].type = "MAP" => entry[id].handle \in Buffers
          /\ entry[id].type = "TEXTURE_LOAD" => entry[id].handle \in Textures

\* A handle that was never created is held by nobody.
Unborn ==
    /\ \A h \in Handles \ created : refcount[h] = 0 /\ appRefs[h] = 0
    /\ \A b \in Buffers \ created : map_state[b] = "Unmapped"

Counted ==
    \A h \in Handles :
        refcount[h] = appRefs[h] + Cardinality(Refs(h)) + Cardinality(FrameRefs(h))

PendingMaps ==
    \A b \in Buffers :
        IF map_state[b] = "Pending" THEN \E id \in Maps(b) : Maps(b) = {id}
                                    ELSE Maps(b) = {}

\* No request of the buffer of a suspended Unmap is detached beneath it.
UnmapAlone ==
    \A d \in Levels : frame[d].pc = "unmap" =>
        /\ ~connected /\ ~frame[d].calling /\ frame[d].handle \in Buffers
        /\ \A e \in Levels : e < d => frame[e].list \cap Maps(frame[d].handle) = {}

\* Inductive together with IInv.
HInv == Shapes /\ Unborn /\ Counted /\ PendingMaps /\ UnmapAlone

-----------------------------------------------------------------------------
\* A step that issues and calls nothing.
LEMMA SameOutstanding ==
    ASSUME IInv, IInv', UNCHANGED <<next_future_id, calls>>
    PROVE  Outstanding' = Outstanding
BY OutstandingIs, OutstandingWillBe DEF Issued

\* A step that issues an id.
LEMMA MoreOutstanding ==
    ASSUME IInv, IInv', next_future_id \in Ids,
           next_future_id' = next_future_id + 1, calls' = calls
    PROVE  /\ Outstanding' = Outstanding \cup {next_future_id}
           /\ next_future_id \notin Outstanding
           /\ Outstanding \subseteq Ids
<1>1. /\ Issued' = Issued \cup {next_future_id}
      /\ next_future_id \notin Issued
  BY Bounds DEF IInv, TypeOK, Issued, Ids
<1>2. calls[next_future_id] = 0
  BY <1>1 DEF IInv, ExactlyOnce
<1> QED BY <1>1, <1>2, OutstandingIs, OutstandingWillBe

\* A step that calls the callback of an id.
LEMMA LessOutstanding ==
    ASSUME IInv, IInv', NEW id \in Outstanding,
           next_future_id' = next_future_id, calls' = Called(id)
    PROVE  Outstanding' = Outstanding \ {id}
<1>1. Issued' = Issued /\ id \in Ids /\ calls[id] = 0 /\ calls \in [Ids -> Nat]
  BY OutstandingIs DEF Issued, IInv, TypeOK
<1>2. \A other \in Issued : calls'[other] = 0 <=> calls[other] = 0 /\ other # id
  BY <1>1, OutstandingIs DEF Called
<1> QED BY <1>1, <1>2, OutstandingIs, OutstandingWillBe

LEMMA FiniteHolders ==
    ASSUME IInv
    PROVE  \A h : /\ IsFiniteSet(Refs(h)) /\ IsFiniteSet(FrameRefs(h))
                  /\ Cardinality(Refs(h)) \in Nat /\ Cardinality(FrameRefs(h)) \in Nat
<1> TAKE h
<1>1. IsFiniteSet(Ids) /\ IsFiniteSet(Levels)
  BY Bounds, FS_Interval DEF Ids, Levels
<1>2. Refs(h) \subseteq Ids /\ FrameRefs(h) \subseteq Levels
  BY OutstandingIs DEF Refs, FrameRefs
<1> QED BY <1>1, <1>2, FS_Subset, FS_CardinalityType

\* The ids the properties speak of are the outstanding ones.
LEMMA HoldersAre ==
    ASSUME IInv, Shapes
    PROVE  /\ \A h \in Handles : RequestRefs(h) = Refs(h)
           /\ \A b \in Buffers : Maps(b) = {id \in requests \cup Detached :
                                    entry[id].type = "MAP" /\ entry[id].handle = b}
<1>1. \A w \in vsync_waits : entry[w].type = "VSYNC" /\ entry[w].handle = None
  BY DEF Shapes, IInv, TypeOK
<1>2. None \notin Handles
  BY RemoteAdapterAssumption
<1> QED BY <1>1, <1>2 DEF RequestRefs, Refs, Maps, Outstanding

\* Only what was created is held.
LEMMA HeldIsCreated ==
    ASSUME IInv, HInv, NEW h \in Handles
    PROVE  /\ Refs(h) # {} => h \in created
           /\ FrameRefs(h) # {} => h \in created
           /\ h \notin created => Refs(h) = {} /\ FrameRefs(h) = {}
<1> SUFFICES ASSUME h \notin created PROVE Refs(h) = {} /\ FrameRefs(h) = {}
  OBVIOUS
<1>1. /\ refcount[h] = 0 /\ appRefs[h] = 0
      /\ refcount[h] = appRefs[h] + Cardinality(Refs(h)) + Cardinality(FrameRefs(h))
  BY DEF HInv, Unborn, Counted
<1>2. Cardinality(Refs(h)) \in Nat /\ Cardinality(FrameRefs(h)) \in Nat
  BY FiniteHolders
<1>3. Cardinality(Refs(h)) = 0 /\ Cardinality(FrameRefs(h)) = 0
  BY <1>1, <1>2
<1> QED BY <1>3, FiniteHolders, FS_EmptySet

-----------------------------------------------------------------------------
\* The stack.

\* No call starts or ends that owes a release.
OwesSame ==
    \A d \in Levels, h \in Handles :
        (frame'[d].calling /\ frame'[d].handle = h) <=> (frame[d].calling /\ frame[d].handle = h)

\* No Unmap is suspended anew, and below one that was, lists lose ids only.
UnmapsStay ==
    /\ connected' => connected
    /\ \A d \in Levels : frame'[d].pc = "unmap" =>
          /\ frame'[d] = frame[d]
          /\ \A e \in Levels : e < d => frame'[e].list \subseteq frame[e].list

\* Only waits are put on a list of waits.
WaitListsStay ==
    \A d \in Levels : frame'[d].pc = "waits" =>
        \/ frame'[d].list \subseteq vsync_waits
        \/ frame[d].pc = "waits" /\ frame'[d].list \subseteq frame[d].list

LEMMA PushStack ==
    ASSUME IInv, depth < MaxDepth, NEW f, Push(f), f.pc \notin {"unmap", "waits"},
           connected' => connected
    PROVE  /\ UnmapsStay /\ WaitListsStay
           /\ ~f.calling \/ f.handle = None => OwesSame
           /\ depth + 1 \in Levels /\ frame[depth + 1] = Idle
           /\ \A d \in Levels : d # depth + 1 => frame'[d] = frame[d]
           /\ frame'[depth + 1] = f
<1>1. /\ depth + 1 \in Levels /\ frame[depth + 1] = Idle /\ depth \in Nat
      /\ frame \in [Levels -> Frame]
  BY Room DEF IInv, TypeOK
<1>2. /\ \A d \in Levels : d # depth + 1 => frame'[d] = frame[d]
      /\ frame'[depth + 1] = f
  BY <1>1 DEF Push
<1>3. None \notin Handles /\ ~Idle.calling
  BY RemoteAdapterAssumption DEF Idle, At
<1>4. ~f.calling \/ f.handle = None => OwesSame
  BY <1>1, <1>2, <1>3 DEF OwesSame
<1>5. UnmapsStay
  <2> SUFFICES ASSUME NEW d \in Levels, frame'[d].pc = "unmap", NEW e \in Levels, e < d
               PROVE  frame'[d] = frame[d] /\ frame'[e].list \subseteq frame[e].list
    BY <1>2 DEF UnmapsStay
  <2>1. d # depth + 1 /\ frame'[d] = frame[d]
    BY <1>2
  <2>2. ~(d > depth)
    BY <2>1 DEF IInv, StackOK, Idle, At
  <2>3. e # depth + 1
    BY <1>1, <2>2 DEF Levels
  <2> QED BY <1>2, <2>1, <2>3
<1>6. WaitListsStay
  BY <1>2 DEF WaitListsStay
<1> QED BY <1>1, <1>2, <1>4, <1>5, <1>6

LEMMA SendLastStack ==
    ASSUME IInv, depth < MaxDepth, NEW reqs, SendLast(reqs), connected' => connected
    PROVE  OwesSame /\ UnmapsStay /\ WaitListsStay
<1>1. CASE SendAbandons(reqs)
  <2>1. /\ ~At("requests", reqs).calling
        /\ At("requests", reqs).pc \notin {"unmap", "waits"}
    BY DEF At
  <2> QED BY <1>1, <2>1, PushStack DEF SendLast
<1>2. CASE ~SendAbandons(reqs)
  BY <1>2 DEF SendLast, stack, OwesSame, UnmapsStay, WaitListsStay
<1> QED BY <1>1, <1>2

\* A call f and the AbandonRequests of its send, which is above it.
LEMMA SendThenStack ==
    ASSUME IInv, depth < MaxDepth, NEW f, SendThen(f), ~f.calling, f.pc # "waits",
           connected' => connected
    PROVE  /\ OwesSame /\ WaitListsStay
           /\ f.pc # "unmap" => UnmapsStay
           /\ depth + 1 \in Levels /\ frame'[depth + 1] = f
           /\ \A e \in Levels : e < depth + 1 => frame'[e] = frame[e]
           /\ \A e \in Levels : e # depth + 1 /\ frame'[e].pc = "unmap" =>
                  frame'[e] = frame[e] /\ e < depth + 1
<1>1. /\ depth \in Nat /\ depth + 1 \in Levels /\ depth + 2 \in Levels
      /\ depth + 1 > depth /\ depth + 2 > depth /\ depth + 1 # depth + 2
  BY Bounds DEF IInv, TypeOK, Levels
<1>2. /\ frame[depth + 1] = Idle /\ frame[depth + 2] = Idle
      /\ frame \in [Levels -> Frame]
  BY <1>1 DEF IInv, StackOK, TypeOK
<1>3. ~Idle.calling /\ Idle.pc # "unmap"
  BY DEF Idle, At
<1>4. /\ \A d \in Levels : d # depth + 1 /\ d # depth + 2 => frame'[d] = frame[d]
      /\ frame'[depth + 1] = f
      /\ frame'[depth + 2] = At("requests", requests)
  BY <1>1, <1>2 DEF SendThen
<1>5. /\ ~At("requests", requests).calling
      /\ At("requests", requests).pc \notin {"unmap", "waits"}
  BY DEF At
<1>6. OwesSame
  BY <1>2, <1>3, <1>4, <1>5 DEF OwesSame
<1>7. \A e \in Levels : e < depth + 1 => frame'[e] = frame[e]
  BY <1>1, <1>4 DEF Levels
<1>8. \A e \in Levels : e # depth + 1 /\ frame'[e].pc = "unmap" =>
                  frame'[e] = frame[e] /\ e < depth + 1
  <2> SUFFICES ASSUME NEW e \in Levels, e # depth + 1, frame'[e].pc = "unmap"
               PROVE  frame'[e] = frame[e] /\ e < depth + 1
    OBVIOUS
  <2>1. e # depth + 2 /\ frame'[e] = frame[e]
    BY <1>4, <1>5
  <2>2. ~(e > depth)
    BY <1>3, <2>1 DEF IInv, StackOK
  <2> QED BY <1>1, <2>1, <2>2 DEF Levels
<1>9. ASSUME f.pc # "unmap" PROVE UnmapsStay
  <2> SUFFICES ASSUME NEW d \in Levels, frame'[d].pc = "unmap", NEW e \in Levels, e < d
               PROVE  frame'[d] = frame[d] /\ frame'[e].list \subseteq frame[e].list
    BY <1>4, <1>8, <1>9 DEF UnmapsStay
  <2>1. d # depth + 1
    BY <1>4, <1>9
  <2>2. e < depth + 1
    BY <1>1, <1>8, <2>1 DEF Levels
  <2> QED BY <1>7, <1>8, <2>1, <2>2
<1>10. WaitListsStay
  BY <1>4, <1>5 DEF WaitListsStay
<1> QED BY <1>1, <1>4, <1>6, <1>7, <1>8, <1>9, <1>10

\* A call returns that owes no release.
LEMMA ReturnStack ==
    ASSUME IInv, NEW d \in Levels, ~frame[d].calling, Return(d),
           connected' => connected
    PROVE  OwesSame /\ UnmapsStay /\ WaitListsStay
<1>1. frame \in [Levels -> Frame]
  BY DEF IInv, TypeOK
<1>2. frame'[d] = Idle /\ \A e \in Levels : e # d => frame'[e] = frame[e]
  BY <1>1 DEF Return
<1>3. ~Idle.calling /\ Idle.pc \notin {"unmap", "waits"} /\ Idle.list = {}
  BY DEF Idle, At
<1> QED BY <1>2, <1>3 DEF OwesSame, UnmapsStay, WaitListsStay

\* The innermost call, which is no Unmap, moves on where it is.
LEMMA ChangeStack ==
    ASSUME IInv, NEW d \in Levels, d = depth, NEW f,
           frame' = [frame EXCEPT ![d] = f], f.pc # "unmap",
           f.pc = "waits" => \/ f.list \subseteq vsync_waits
                             \/ frame[d].pc = "waits" /\ f.list \subseteq frame[d].list,
           connected' => connected
    PROVE  /\ UnmapsStay /\ WaitListsStay
           /\ frame'[d] = f
           /\ \A e \in Levels : e # d => frame'[e] = frame[e]
           /\ ~frame[d].calling /\ (~f.calling \/ f.handle = None) => OwesSame
<1>1. frame \in [Levels -> Frame] /\ None \notin Handles
  BY RemoteAdapterAssumption DEF IInv, TypeOK
<1>2. frame'[d] = f /\ \A e \in Levels : e # d => frame'[e] = frame[e]
  BY <1>1
<1>3. ~frame[d].calling /\ (~f.calling \/ f.handle = None) => OwesSame
  BY <1>1, <1>2 DEF OwesSame
<1>4. UnmapsStay
  <2> SUFFICES ASSUME NEW e \in Levels, frame'[e].pc = "unmap", NEW g \in Levels, g < e
               PROVE  frame'[e] = frame[e] /\ frame'[g].list \subseteq frame[g].list
    BY <1>2 DEF UnmapsStay
  <2>1. e # d /\ frame'[e] = frame[e]
    BY <1>2
  <2>2. ~(e > depth)
    BY <2>1 DEF IInv, StackOK, Idle, At
  <2>3. g # d
    BY <2>2 DEF Levels
  <2> QED BY <1>2, <2>1, <2>3
<1>5. WaitListsStay
  BY <1>2 DEF WaitListsStay
<1> QED BY <1>2, <1>3, <1>4, <1>5

\* The releases suspended calls owe, when one call changes.
LEMMA FrameRefsChange ==
    ASSUME NEW d \in Levels, \A e \in Levels : e # d => frame'[e] = frame[e],
           NEW h
    PROVE  FrameRefs(h)' = IF frame'[d].calling /\ frame'[d].handle = h
                           THEN FrameRefs(h) \cup {d} ELSE FrameRefs(h) \ {d}
BY DEF FrameRefs

LEMMA FrameRefsSame ==
    ASSUME OwesSame, NEW h \in Handles
    PROVE  FrameRefs(h)' = FrameRefs(h)
BY DEF FrameRefs, OwesSame

-----------------------------------------------------------------------------
\* What is held and what is outstanding, by kind of step.

\* A suspended Unmap stays alone if no new id is put on a list beneath it.
LEMMA UnmapAloneKept ==
    ASSUME IInv, HInv, UnmapsStay,
           \A id \in Outstanding : entry'[id] = entry[id]
    PROVE  UnmapAlone'
<1> SUFFICES ASSUME NEW d \in Levels, frame'[d].pc = "unmap",
                    NEW e \in Levels, e < d,
                    NEW id \in frame'[e].list, id \in Maps(frame[d].handle)'
             PROVE  FALSE
  BY DEF UnmapAlone, UnmapsStay, HInv
<1>1. /\ frame'[d] = frame[d] /\ frame[d].pc = "unmap"
      /\ id \in frame[e].list
  BY DEF UnmapsStay
<1>2. id \in Outstanding
  BY <1>1 DEF Outstanding, Detached
<1>3. id \in Maps(frame[d].handle)
  BY <1>1, <1>2 DEF Maps
<1> QED BY <1>1, <1>3 DEF HInv, UnmapAlone

\* Entries of outstanding ids do not change, so neither does what they hold.
LEMMA WaitListsShaped ==
    ASSUME IInv, HInv, WaitListsStay,
           \A id \in Outstanding : entry'[id] = entry[id]
    PROVE  \A d \in Levels : frame'[d].pc = "waits" =>
               \A w \in frame'[d].list : entry'[w].type = "VSYNC"
<1> SUFFICES ASSUME NEW d \in Levels, frame'[d].pc = "waits", NEW w \in frame'[d].list
             PROVE  entry'[w].type = "VSYNC"
  OBVIOUS
<1>1. CASE w \in vsync_waits
  BY <1>1 DEF Outstanding, HInv, Shapes
<1>2. CASE frame[d].pc = "waits" /\ w \in frame[d].list
  BY <1>2 DEF Outstanding, Detached, HInv, Shapes
<1> QED BY <1>1, <1>2 DEF WaitListsStay

\* No id is issued or called.
LEMMA StepOfNone ==
    ASSUME IInv, IInv', HInv, OwesSame, UnmapsStay, WaitListsStay,
           UNCHANGED <<next_future_id, entry, calls>>,
           vsync_waits' \subseteq vsync_waits
    PROVE  /\ Shapes' /\ UnmapAlone'
           /\ \A h \in Handles : Refs(h)' = Refs(h) /\ FrameRefs(h)' = FrameRefs(h)
           /\ \A b \in Buffers : Maps(b)' = Maps(b)
<1>1. Outstanding' = Outstanding
  BY SameOutstanding
<1>2. /\ \A h : Refs(h)' = Refs(h)
      /\ \A b : Maps(b)' = Maps(b)
  BY <1>1 DEF Refs, Maps
<1>3. Shapes'
  BY WaitListsShaped DEF HInv, Shapes
<1> QED BY <1>2, <1>3, UnmapAloneKept, FrameRefsSame

\* ... and no handle changes either.
LEMMA StepOfNoHandle ==
    ASSUME IInv, IInv', HInv, OwesSame, UnmapsStay, WaitListsStay,
           UNCHANGED <<next_future_id, entry, calls, handles>>,
           vsync_waits' \subseteq vsync_waits
    PROVE  HInv'
<1>1. UNCHANGED <<map_state, refcount, created, appRefs>>
  BY DEF handles
<1>2. /\ Shapes' /\ UnmapAlone'
      /\ \A h \in Handles : Refs(h)' = Refs(h) /\ FrameRefs(h)' = FrameRefs(h)
      /\ \A b \in Buffers : Maps(b)' = Maps(b)
  BY StepOfNone
<1>3. Unborn'
  BY <1>1 DEF HInv, Unborn
<1>4. Counted'
  BY <1>1, <1>2 DEF HInv, Counted
<1>5. PendingMaps'
  BY <1>1, <1>2 DEF HInv, PendingMaps
<1> QED BY <1>2, <1>3, <1>4, <1>5 DEF HInv

\* An id is issued.
LEMMA StepOfNew ==
    ASSUME IInv, IInv', HInv, OwesSame, UnmapsStay, WaitListsStay, NEW new \in Entry,
           next_future_id \in Ids, next_future_id' = next_future_id + 1,
           entry' = [entry EXCEPT ![next_future_id] = new],
           calls' = calls,
           vsync_waits' \subseteq vsync_waits \cup {next_future_id},
           next_future_id \in vsync_waits' => new.type = "VSYNC",
           new.type \in PlainTypes \cup {"VSYNC"} => new.handle = None,
           new.type = "MAP" => new.handle \in Buffers,
           new.type = "TEXTURE_LOAD" => new.handle \in Textures
    PROVE  /\ Shapes' /\ UnmapAlone'
           /\ \A h \in Handles :
                 /\ Refs(h)' = IF new.handle = h THEN Refs(h) \cup {next_future_id}
                                                ELSE Refs(h)
                 /\ FrameRefs(h)' = FrameRefs(h)
                 /\ next_future_id \notin Refs(h)
           /\ \A b \in Buffers :
                 Maps(b)' = IF new.type = "MAP" /\ new.handle = b
                            THEN Maps(b) \cup {next_future_id} ELSE Maps(b)
<1> DEFINE id == next_future_id
<1>1. Outstanding' = Outstanding \cup {id} /\ id \notin Outstanding /\ Outstanding \subseteq Ids
  BY MoreOutstanding
<1>2. entry'[id] = new /\ \A other \in Ids : other # id => entry'[other] = entry[other]
  BY DEF IInv, TypeOK
<1>3. \A h : /\ Refs(h)' = IF new.handle = h THEN Refs(h) \cup {id} ELSE Refs(h)
             /\ id \notin Refs(h)
  BY <1>1, <1>2 DEF Refs
<1>4. \A b : Maps(b)' = IF new.type = "MAP" /\ new.handle = b
                        THEN Maps(b) \cup {id} ELSE Maps(b)
  BY <1>1, <1>2 DEF Maps
<1>5. Shapes'
  <2>1. vsync_waits \subseteq Ids \ {id}
    BY <1>1 DEF IInv, TypeOK, Outstanding
  <2>2. \A w \in vsync_waits' : entry'[w].type = "VSYNC"
    BY <1>2, <2>1 DEF HInv, Shapes
  <2>3. \A other \in Ids :
          /\ entry'[other].type \in PlainTypes \cup {"VSYNC"} => entry'[other].handle = None
          /\ entry'[other].type = "MAP" => entry'[other].handle \in Buffers
          /\ entry'[other].type = "TEXTURE_LOAD" => entry'[other].handle \in Textures
    BY <1>2 DEF HInv, Shapes
  <2>4. \A other \in Outstanding : entry'[other] = entry[other]
    BY <1>1, <1>2
  <2> QED BY <2>2, <2>3, <2>4, WaitListsShaped DEF Shapes
<1>6. UnmapAlone'
  BY <1>1, <1>2, UnmapAloneKept
<1> QED BY <1>3, <1>4, <1>5, <1>6, FrameRefsSame

\* The callback of an id is called.
LEMMA StepOfCall ==
    ASSUME IInv, IInv', HInv, UnmapsStay, WaitListsStay, NEW id \in Outstanding,
           UNCHANGED <<next_future_id, entry>>, calls' = Called(id),
           vsync_waits' \subseteq vsync_waits
    PROVE  /\ Shapes' /\ UnmapAlone'
           /\ \A h : Refs(h)' = Refs(h) \ {id}
           /\ \A b : Maps(b)' = Maps(b) \ {id}
<1>1. Outstanding' = Outstanding \ {id}
  BY LessOutstanding
<1>2. /\ \A h : Refs(h)' = Refs(h) \ {id}
      /\ \A b : Maps(b)' = Maps(b) \ {id}
  BY <1>1 DEF Refs, Maps
<1>3. Shapes'
  BY WaitListsShaped DEF HInv, Shapes
<1> QED BY <1>2, <1>3, UnmapAloneKept

\* Sizes of the sets of holders when one joins or leaves.
LEMMA OneRefMore ==
    ASSUME IInv, NEW h, NEW id, id \notin Refs(h)
    PROVE  Cardinality(Refs(h) \cup {id}) = Cardinality(Refs(h)) + 1
BY FiniteHolders, FS_AddElement

LEMMA OneRefLess ==
    ASSUME IInv, NEW h, NEW id \in Refs(h)
    PROVE  Cardinality(Refs(h) \ {id}) = Cardinality(Refs(h)) - 1
BY FiniteHolders, FS_RemoveElement

LEMMA OneFrameMore ==
    ASSUME IInv, NEW h, NEW d, d \notin FrameRefs(h)
    PROVE  Cardinality(FrameRefs(h) \cup {d}) = Cardinality(FrameRefs(h)) + 1
BY FiniteHolders, FS_AddElement

LEMMA OneFrameLess ==
    ASSUME IInv, NEW h, NEW d \in FrameRefs(h)
    PROVE  Cardinality(FrameRefs(h) \ {d}) = Cardinality(FrameRefs(h)) - 1
BY FiniteHolders, FS_RemoveElement

LEMMA Kinds ==
    /\ Buffers \subseteq Handles /\ Textures \subseteq Handles
    /\ None \notin Handles /\ Buffers \cap Textures = {}
    /\ {"MAP", "TEXTURE_LOAD"} \subseteq RequestTypes
    /\ "VSYNC" \notin RequestTypes
    /\ "MAP" \notin PlainTypes /\ "TEXTURE_LOAD" \notin PlainTypes
    /\ PlainTypes \subseteq RequestTypes
    /\ RequestTypes \subseteq EntryTypes
BY RemoteAdapterAssumption DEF Handles, RequestTypes, EntryTypes

-----------------------------------------------------------------------------
\* The calls of the application.

LEMMA CreateBufferHandles ==
    ASSUME IInv, IInv', HInv, depth < MaxDepth, NEW b \in Buffers,
           NEW mapped \in BOOLEAN, wgpuDeviceCreateBuffer(b, mapped)
    PROVE  HInv'
<1>1. /\ b \notin created /\ created' = created \cup {b}
      /\ refcount' = [refcount EXCEPT ![b] = 1]
      /\ appRefs' = [appRefs EXCEPT ![b] = 1]
      /\ \E s \in {"Mapped", "Unmapped"} : map_state' = [map_state EXCEPT ![b] = s]
      /\ SendLast(requests)
      /\ UNCHANGED <<connected, next_future_id, vsync_waits, entry, calls>>
  BY DEF wgpuDeviceCreateBuffer
<1>2. b \in Handles
  BY Kinds
<1>3. /\ Shapes' /\ UnmapAlone'
      /\ \A h \in Handles : Refs(h)' = Refs(h) /\ FrameRefs(h)' = FrameRefs(h)
      /\ \A c \in Buffers : Maps(c)' = Maps(c)
  BY <1>1, SendLastStack, StepOfNone
<1>4. /\ refcount \in [Handles -> Int] /\ appRefs \in [Handles -> Nat]
      /\ map_state \in [Buffers -> {"Unmapped", "Pending", "Mapped"}]
  BY DEF IInv, TypeOK
<1>5. Unborn'
  BY <1>1, <1>4 DEF HInv, Unborn
<1>6. Counted'
  <2> SUFFICES ASSUME NEW h \in Handles
               PROVE  refcount'[h] = appRefs'[h] + Cardinality(Refs(h))
                                               + Cardinality(FrameRefs(h))
    BY <1>3 DEF Counted
  <2>1. CASE h = b
    <3>1. Refs(b) = {} /\ FrameRefs(b) = {}
      BY <1>1, <1>2, HeldIsCreated
    <3>2. Cardinality(Refs(b)) = 0 /\ Cardinality(FrameRefs(b)) = 0
      BY <3>1, FS_EmptySet
    <3> QED BY <1>1, <1>2, <1>4, <2>1, <3>2
  <2>2. CASE h # b
    BY <1>1, <1>4, <2>2 DEF HInv, Counted
  <2> QED BY <2>1, <2>2
<1>7. PendingMaps'
  <2> SUFFICES ASSUME NEW c \in Buffers
               PROVE  IF map_state'[c] = "Pending" THEN \E id \in Maps(c) : Maps(c) = {id}
                                                   ELSE Maps(c) = {}
    BY <1>3 DEF PendingMaps
  <2>1. CASE c = b
    BY <1>1, <1>4, <2>1 DEF HInv, PendingMaps, Unborn
  <2>2. CASE c # b
    BY <1>1, <1>4, <2>2 DEF HInv, PendingMaps
  <2> QED BY <2>1, <2>2
<1> QED BY <1>3, <1>5, <1>6, <1>7 DEF HInv

\* The application takes or gives up a reference of its own.
LEMMA AppRefHandles ==
    ASSUME IInv, IInv', HInv, NEW h \in Handles, appRefs[h] > 0,
           NEW by \in {1, -1},
           refcount' = [refcount EXCEPT ![h] = @ + by],
           appRefs' = [appRefs EXCEPT ![h] = @ + by],
           OwesSame, UnmapsStay, WaitListsStay,
           UNCHANGED <<next_future_id, vsync_waits, entry, map_state, created, calls>>
    PROVE  HInv'
<1>1. /\ Shapes' /\ UnmapAlone'
      /\ \A g \in Handles : Refs(g)' = Refs(g) /\ FrameRefs(g)' = FrameRefs(g)
      /\ \A c \in Buffers : Maps(c)' = Maps(c)
  BY StepOfNone
<1>2. /\ refcount \in [Handles -> Int] /\ appRefs \in [Handles -> Nat]
  BY DEF IInv, TypeOK
<1>3. Unborn'
  BY <1>2 DEF HInv, Unborn
<1>4. Counted'
  <2> SUFFICES ASSUME NEW g \in Handles
               PROVE  refcount'[g] = appRefs'[g] + Cardinality(Refs(g))
                                               + Cardinality(FrameRefs(g))
    BY <1>1 DEF Counted
  <2>1. Cardinality(Refs(g)) \in Nat /\ Cardinality(FrameRefs(g)) \in Nat
    BY FiniteHolders
  <2>2. refcount[g] = appRefs[g] + Cardinality(Refs(g)) + Cardinality(FrameRefs(g))
    BY DEF HInv, Counted
  <2> QED BY <1>2, <2>1, <2>2
<1>5. PendingMaps'
  BY <1>1 DEF HInv, PendingMaps
<1> QED BY <1>1, <1>3, <1>4, <1>5 DEF HInv

\* The result of a command that is queued, before its handle is looked at.
LEMMA IssueHandles ==
    ASSUME IInv, IInv', HInv, depth < MaxDepth, NEW type \in RequestTypes,
           NEW h \in Handles \cup {None}, Issue(type, h),
           type = "MAP" => h \in Buffers, type = "TEXTURE_LOAD" => h \in Textures,
           type \in PlainTypes => h = None
    PROVE  /\ Shapes' /\ UnmapAlone'
           /\ \A g \in Handles :
                 /\ Refs(g)' = IF h = g THEN Refs(g) \cup {next_future_id} ELSE Refs(g)
                 /\ FrameRefs(g)' = FrameRefs(g)
                 /\ next_future_id \notin Refs(g)
           /\ \A b \in Buffers :
                 Maps(b)' = IF type = "MAP" /\ h = b
                            THEN Maps(b) \cup {next_future_id} ELSE Maps(b)
<1>1. PICK new : new = Request(type, h)
  OBVIOUS
<1>2. new \in Entry /\ new.type = type /\ new.handle = h /\ new.type # "VSYNC"
  BY <1>1, Kinds DEF Request, Entry
<1>3. /\ next_future_id \in Ids /\ next_future_id' = next_future_id + 1
      /\ entry' = [entry EXCEPT ![next_future_id] = new]
      /\ UNCHANGED <<connected, vsync_waits, calls>>
  BY <1>1 DEF Issue
<1>4. OwesSame /\ UnmapsStay /\ WaitListsStay
  BY <1>3, SendLastStack DEF Issue
<1>5. next_future_id \notin vsync_waits'
  BY <1>3, MoreOutstanding DEF Outstanding
<1> QED BY <1>2, <1>3, <1>4, <1>5, StepOfNew

LEMMA MapAsyncHandles ==
    ASSUME IInv, IInv', HInv, depth < MaxDepth, NEW b \in Buffers, wgpuBufferMapAsync(b)
    PROVE  HInv'
<1>1. /\ appRefs[b] > 0 /\ map_state[b] = "Unmapped"
      /\ refcount' = [refcount EXCEPT ![b] = @ + 1]
      /\ map_state' = [map_state EXCEPT ![b] = "Pending"]
      /\ Issue("MAP", b)
      /\ UNCHANGED <<created, appRefs>>
  BY DEF wgpuBufferMapAsync
<1>2. b \in Handles /\ "MAP" \in RequestTypes /\ "MAP" \notin PlainTypes
  BY Kinds
<1>3. /\ Shapes' /\ UnmapAlone'
      /\ \A g \in Handles :
            /\ Refs(g)' = IF b = g THEN Refs(g) \cup {next_future_id} ELSE Refs(g)
            /\ FrameRefs(g)' = FrameRefs(g)
            /\ next_future_id \notin Refs(g)
      /\ \A c \in Buffers : Maps(c)' = IF b = c THEN Maps(c) \cup {next_future_id} ELSE Maps(c)
  BY <1>1, <1>2, IssueHandles
<1>4. /\ refcount \in [Handles -> Int] /\ appRefs \in [Handles -> Nat]
      /\ map_state \in [Buffers -> {"Unmapped", "Pending", "Mapped"}]
  BY DEF IInv, TypeOK
<1>5. Unborn'
  BY <1>1, <1>2, <1>4 DEF HInv, Unborn
<1>6. Counted'
  <2> SUFFICES ASSUME NEW g \in Handles
               PROVE  refcount'[g] = appRefs[g] + Cardinality(Refs(g)')
                                              + Cardinality(FrameRefs(g))
    BY <1>1, <1>3 DEF Counted
  <2>1. Cardinality(Refs(g)) \in Nat /\ Cardinality(FrameRefs(g)) \in Nat
    BY FiniteHolders
  <2>2. refcount[g] = appRefs[g] + Cardinality(Refs(g)) + Cardinality(FrameRefs(g))
    BY DEF HInv, Counted
  <2>3. CASE g = b
    <3>1. Cardinality(Refs(g)') = Cardinality(Refs(g)) + 1
      BY <1>3, <2>3, OneRefMore
    <3> QED BY <1>1, <1>4, <2>1, <2>2, <2>3, <3>1
  <2>4. CASE g # b
    BY <1>1, <1>3, <1>4, <2>2, <2>4
  <2> QED BY <2>3, <2>4
<1>7. PendingMaps'
  <2> SUFFICES ASSUME NEW c \in Buffers
               PROVE  IF map_state'[c] = "Pending" THEN \E id \in Maps(c)' : Maps(c)' = {id}
                                                   ELSE Maps(c)' = {}
    BY DEF PendingMaps
  <2>1. CASE c = b
    <3>1. Maps(c) = {}
      BY <1>1, <2>1 DEF HInv, PendingMaps
    <3> QED BY <1>1, <1>3, <1>4, <2>1, <3>1
  <2>2. CASE c # b
    BY <1>1, <1>3, <1>4, <2>2 DEF HInv, PendingMaps
  <2> QED BY <2>1, <2>2
<1> QED BY <1>3, <1>5, <1>6, <1>7 DEF HInv

\* A new texture is held by its request alone.
LEMMA LoadTextureHandles ==
    ASSUME IInv, IInv', HInv, depth < MaxDepth, NEW t \in Textures,
           wgpuRemoteDeviceLoadTextureFromURL(t)
    PROVE  HInv'
<1>1. /\ t \notin created /\ created' = created \cup {t}
      /\ refcount' = [refcount EXCEPT ![t] = 1]
      /\ Issue("TEXTURE_LOAD", t)
      /\ UNCHANGED <<map_state, appRefs>>
  BY DEF wgpuRemoteDeviceLoadTextureFromURL
<1>2. /\ t \in Handles /\ t \notin Buffers
      /\ "TEXTURE_LOAD" \in RequestTypes /\ "TEXTURE_LOAD" \notin PlainTypes
  BY Kinds
<1>3. /\ Shapes' /\ UnmapAlone'
      /\ \A g \in Handles :
            /\ Refs(g)' = IF t = g THEN Refs(g) \cup {next_future_id} ELSE Refs(g)
            /\ FrameRefs(g)' = FrameRefs(g)
            /\ next_future_id \notin Refs(g)
      /\ \A c \in Buffers : Maps(c)' = Maps(c)
  BY <1>1, <1>2, IssueHandles
<1>4. /\ refcount \in [Handles -> Int] /\ appRefs \in [Handles -> Nat]
  BY DEF IInv, TypeOK
<1>5. Unborn'
  BY <1>1, <1>2, <1>4 DEF HInv, Unborn
<1>6. Counted'
  <2> SUFFICES ASSUME NEW g \in Handles
               PROVE  refcount'[g] = appRefs[g] + Cardinality(Refs(g)')
                                              + Cardinality(FrameRefs(g))
    BY <1>1, <1>3 DEF Counted
  <2>1. CASE g = t
    <3>1. Refs(t) = {} /\ FrameRefs(t) = {} /\ appRefs[t] = 0
      BY <1>1, <1>2, HeldIsCreated DEF HInv, Unborn
    <3>2. Refs(t)' = {next_future_id}
      BY <1>2, <1>3, <3>1
    <3>3. Cardinality({next_future_id}) = 1 /\ Cardinality({}) = 0
      BY FS_EmptySet, FS_Singleton, Zenon
    <3>4. Cardinality(Refs(t)') = 1 /\ Cardinality(FrameRefs(t)) = 0
      BY <3>1, <3>2, <3>3
    <3> QED BY <1>1, <1>4, <2>1, <3>1, <3>4
  <2>2. CASE g # t
    BY <1>1, <1>3, <1>4, <2>2 DEF HInv, Counted
  <2> QED BY <2>1, <2>2
<1>7. PendingMaps'
  BY <1>1, <1>3 DEF HInv, PendingMaps
<1> QED BY <1>3, <1>5, <1>6, <1>7 DEF HInv

LEMMA IssuePlainHandles ==
    ASSUME IInv, IInv', HInv, depth < MaxDepth, NEW type, IssuePlain(type)
    PROVE  HInv'
<1>1. /\ type \in PlainTypes /\ Issue(type, None)
      /\ UNCHANGED <<map_state, refcount, created, appRefs>>
  BY DEF IssuePlain, handles
<1>2. type \in RequestTypes /\ type # "MAP" /\ type # "TEXTURE_LOAD" /\ None \notin Handles
  BY <1>1, Kinds
<1>3. /\ Shapes' /\ UnmapAlone'
      /\ \A g \in Handles : Refs(g)' = Refs(g) /\ FrameRefs(g)' = FrameRefs(g)
      /\ \A c \in Buffers : Maps(c)' = Maps(c)
  <2>1. /\ Shapes' /\ UnmapAlone'
        /\ \A g \in Handles :
              /\ Refs(g)' = IF None = g THEN Refs(g) \cup {next_future_id} ELSE Refs(g)
              /\ FrameRefs(g)' = FrameRefs(g)
        /\ \A c \in Buffers :
              Maps(c)' = IF type = "MAP" /\ None = c
                         THEN Maps(c) \cup {next_future_id} ELSE Maps(c)
    BY <1>1, <1>2, IssueHandles
  <2> QED BY <1>2, <2>1
<1>4. Unborn' /\ Counted' /\ PendingMaps'
  BY <1>1, <1>3 DEF HInv, Unborn, Counted, PendingMaps
<1> QED BY <1>3, <1>4 DEF HInv

\* The send of an Unmap that abandons goes on above it; map_state waits.
LEMMA UnmapHandles ==
    ASSUME IInv, IInv', HInv, depth < MaxDepth, NEW b \in Buffers, wgpuBufferUnmap(b)
    PROVE  HInv'
<1>1. /\ map_state[b] = "Mapped"
      /\ UNCHANGED <<connected, next_future_id, vsync_waits, entry, refcount,
                     created, appRefs, calls>>
  BY DEF wgpuBufferUnmap
<1>2. Maps(b) = {} /\ map_state \in [Buffers -> {"Unmapped", "Pending", "Mapped"}]
  BY <1>1 DEF HInv, PendingMaps, IInv, TypeOK
<1>3. CASE SendAbandons(requests)
  <2>1. ~connected /\ SendThen(Unmapping(b)) /\ UNCHANGED map_state
    BY <1>3 DEF wgpuBufferUnmap, SendAbandons
  <2>2. PICK f : f = Unmapping(b)
    OBVIOUS
  <2>3. f.pc = "unmap" /\ f.pc # "waits" /\ ~f.calling /\ f.handle = b
    BY <2>2 DEF Unmapping
  <2>4. /\ OwesSame /\ WaitListsStay
        /\ depth + 1 \in Levels /\ frame'[depth + 1] = f
        /\ \A e \in Levels : e < depth + 1 => frame'[e] = frame[e]
        /\ \A e \in Levels : e # depth + 1 /\ frame'[e].pc = "unmap" =>
               frame'[e] = frame[e] /\ e < depth + 1
    BY <1>1, <2>1, <2>2, <2>3, SendThenStack
  <2>5. Outstanding' = Outstanding
    BY <1>1, SameOutstanding
  <2>6. /\ \A h : Refs(h)' = Refs(h)
        /\ \A c : Maps(c)' = Maps(c)
    BY <1>1, <2>5 DEF Refs, Maps
  <2>7. Shapes'
    BY <1>1, <2>4, WaitListsShaped DEF HInv, Shapes
  <2>8. UnmapAlone'
    <3> SUFFICES ASSUME NEW d \in Levels, frame'[d].pc = "unmap"
                 PROVE  /\ ~connected' /\ ~frame'[d].calling /\ frame'[d].handle \in Buffers
                        /\ \A e \in Levels : e < d =>
                               frame'[e].list \cap Maps(frame[d].handle)' = {}
      BY DEF UnmapAlone
    <3>1. CASE d = depth + 1
      <4>1. Maps(frame[d].handle)' = {}
        BY <1>2, <2>3, <2>4, <2>6, <3>1
      <4> QED BY <1>1, <2>1, <2>3, <2>4, <3>1, <4>1
    <3>2. CASE d # depth + 1
      <4>1. frame'[d] = frame[d] /\ d < depth + 1
        BY <2>4, <3>2
      <4>2. \A e \in Levels : e < d => frame'[e] = frame[e]
        <5>1. depth \in Nat
          BY DEF IInv, TypeOK
        <5> QED BY <2>4, <4>1, <5>1 DEF Levels
      <4>3. Maps(frame[d].handle)' = Maps(frame[d].handle)
        BY <2>6, <4>1 DEF Maps
      <4> QED BY <1>1, <4>1, <4>2, <4>3 DEF HInv, UnmapAlone
    <3> QED BY <3>1, <3>2
  <2>9. Unborn' /\ PendingMaps'
    BY <1>1, <2>1, <2>6 DEF HInv, Unborn, PendingMaps
  <2>10. Counted'
    <3>1. \A h \in Handles : FrameRefs(h)' = FrameRefs(h)
      BY <2>4, FrameRefsSame
    <3> QED BY <1>1, <2>6, <3>1 DEF HInv, Counted
  <2> QED BY <2>7, <2>8, <2>9, <2>10 DEF HInv
<1>4. CASE ~SendAbandons(requests)
  <2>1. /\ map_state' = [map_state EXCEPT ![b] = "Unmapped"]
        /\ OwesSame /\ UnmapsStay /\ WaitListsStay
    BY <1>1, <1>4 DEF wgpuBufferUnmap, stack, OwesSame, UnmapsStay, WaitListsStay
  <2>2. /\ Shapes' /\ UnmapAlone'
        /\ \A h \in Handles : Refs(h)' = Refs(h) /\ FrameRefs(h)' = FrameRefs(h)
        /\ \A c \in Buffers : Maps(c)' = Maps(c)
    BY <1>1, <2>1, StepOfNone
  <2>3. Unborn' /\ Counted'
    BY <1>1, <1>2, <2>1, <2>2 DEF HInv, Unborn, Counted
  <2>4. PendingMaps'
    BY <1>2, <2>1, <2>2 DEF HInv, PendingMaps
  <2> QED BY <2>2, <2>3, <2>4 DEF HInv
<1> QED BY <1>3, <1>4

\* A wait holds nothing, queued or called on the spot.
LEMMA OnNextVsyncHandles ==
    ASSUME IInv, IInv', HInv, depth < MaxDepth, wgpuRemoteSurfaceOnNextVsync
    PROVE  HInv'
<1> DEFINE id == next_future_id
<1>1. PICK new : new = VsyncWait(presents_sent, presents_done)
  OBVIOUS
<1>2. new \in Entry /\ new.type = "VSYNC" /\ new.handle = None /\ None \notin Handles
  BY <1>1, Kinds DEF VsyncWait, Entry, EntryTypes, IInv, TypeOK
<1>3. /\ id \in Ids /\ next_future_id' = id + 1
      /\ entry' = [entry EXCEPT ![id] = new]
      /\ UNCHANGED <<connected, map_state, refcount, created, appRefs>>
  BY <1>1 DEF wgpuRemoteSurfaceOnNextVsync, handles
<1>4. /\ Shapes' /\ UnmapAlone'
      /\ \A h \in Handles : Refs(h)' = Refs(h) /\ FrameRefs(h)' = FrameRefs(h)
      /\ \A c \in Buffers : Maps(c)' = Maps(c)
  <2>1. CASE connected
    <3>1. /\ vsync_waits' = vsync_waits \cup {id} /\ calls' = calls
          /\ OwesSame /\ UnmapsStay /\ WaitListsStay
      BY <1>3, <2>1 DEF wgpuRemoteSurfaceOnNextVsync, stack, OwesSame, UnmapsStay, WaitListsStay
    <3>2. /\ Shapes' /\ UnmapAlone'
          /\ \A g \in Handles :
                /\ Refs(g)' = IF new.handle = g THEN Refs(g) \cup {id} ELSE Refs(g)
                /\ FrameRefs(g)' = FrameRefs(g)
          /\ \A b \in Buffers :
                Maps(b)' = IF new.type = "MAP" /\ new.handle = b
                           THEN Maps(b) \cup {id} ELSE Maps(b)
      BY <1>2, <1>3, <3>1, StepOfNew
    <3> QED BY <1>2, <3>2
  <2>2. CASE ~connected
    <3>1. vsync_waits' = vsync_waits /\ calls' = Called(id)
      BY <2>2 DEF wgpuRemoteSurfaceOnNextVsync
    <3>2. OwesSame /\ UnmapsStay /\ WaitListsStay
      <4>1. PICK f : f = Calling("end", {}, None)
        OBVIOUS
      <4>2. Push(f) /\ f.pc \notin {"unmap", "waits"} /\ f.handle = None
        BY <2>2, <4>1 DEF wgpuRemoteSurfaceOnNextVsync, Calling
      <4> QED BY <1>3, <4>2, PushStack
    <3>3. Issued' = Issued \cup {id} /\ id \notin Issued
      BY <1>3, Bounds DEF IInv, TypeOK, Issued, Ids
    <3>4. Outstanding' = Outstanding
      <4>1. calls[id] = 0 /\ calls \in [Ids -> Nat]
        BY <1>3, <3>3 DEF IInv, ExactlyOnce, TypeOK
      <4>2. calls'[id] = 1 /\ \A other \in Ids \ {id} : calls'[other] = calls[other]
        BY <1>3, <3>1, <4>1 DEF Called
      <4> QED BY <3>3, <4>2, OutstandingIs, OutstandingWillBe
    <3>5. \A other \in Outstanding : other \in Ids /\ entry'[other] = entry[other]
      BY <1>3, <3>3, OutstandingIs DEF IInv, TypeOK
    <3>6. /\ \A h : Refs(h)' = Refs(h)
          /\ \A c : Maps(c)' = Maps(c)
      BY <3>4, <3>5 DEF Refs, Maps
    <3>7. Shapes'
      <4>1. \A w \in vsync_waits : entry'[w].type = "VSYNC"
        BY <3>5 DEF Outstanding, HInv, Shapes
      <4>2. \A other \in Ids : entry'[other] = IF other = id THEN new ELSE entry[other]
        BY <1>3 DEF IInv, TypeOK
      <4> QED BY <1>2, <3>1, <3>2, <3>5, <4>1, <4>2, WaitListsShaped DEF HInv, Shapes
    <3> QED BY <3>2, <3>5, <3>6, <3>7, UnmapAloneKept, FrameRefsSame
  <2> QED BY <2>1, <2>2
<1>5. Unborn' /\ Counted' /\ PendingMaps'
  BY <1>3, <1>4 DEF HInv, Unborn, Counted, PendingMaps
<1> QED BY <1>4, <1>5 DEF HInv

LEMMA AppHandles ==
    ASSUME IInv, IInv', HInv, depth < MaxDepth, App
    PROVE  HInv'
<1>1. ASSUME NEW b \in Buffers, NEW mapped \in BOOLEAN, wgpuDeviceCreateBuffer(b, mapped)
      PROVE  HInv'
  BY <1>1, CreateBufferHandles
<1>2. ASSUME NEW b \in Buffers, MapAsyncRefused(b) PROVE HInv'
  <2>1. PICK f : f = Calling("end", {}, None)
    OBVIOUS
  <2>2. /\ Push(f) /\ f.pc \notin {"unmap", "waits"} /\ f.handle = None
        /\ UNCHANGED <<connected, next_future_id, vsync_waits, entry, calls, handles>>
    BY <1>2, <2>1 DEF MapAsyncRefused, Calling, adapter
  <2> QED BY <2>2, PushStack, StepOfNoHandle
<1>3. ASSUME NEW b \in Buffers, wgpuBufferMapAsync(b) PROVE HInv'
  BY <1>3, MapAsyncHandles
<1>4. ASSUME NEW b \in Buffers, wgpuBufferUnmap(b) PROVE HInv'
  BY <1>4, UnmapHandles
<1>5. ASSUME NEW h \in Handles, rw_handle_addref(h) PROVE HInv'
  <2>1. /\ appRefs[h] > 0
        /\ refcount' = [refcount EXCEPT ![h] = @ + 1]
        /\ appRefs' = [appRefs EXCEPT ![h] = @ + 1]
        /\ UNCHANGED <<next_future_id, vsync_waits, entry, map_state, created, calls>>
        /\ OwesSame /\ UnmapsStay /\ WaitListsStay
    BY <1>5 DEF rw_handle_addref, adapter, stack, OwesSame, UnmapsStay, WaitListsStay
  <2> QED BY <2>1, AppRefHandles
<1>6. ASSUME NEW h \in Handles, rw_handle_release(h) PROVE HInv'
  <2>1. /\ appRefs[h] > 0
        /\ refcount' = [refcount EXCEPT ![h] = @ + (-1)]
        /\ appRefs' = [appRefs EXCEPT ![h] = @ + (-1)]
        /\ UNCHANGED <<connected, next_future_id, vsync_waits, entry, map_state, created, calls>>
    <3>1. h # None
      BY Kinds
    <3>2. \A n \in Int : n - 1 = n + (-1)
      OBVIOUS
    <3>3. refcount[h] \in Int /\ appRefs[h] \in Int
      BY DEF IInv, TypeOK
    <3> QED BY <1>6, <3>1, <3>2, <3>3 DEF rw_handle_release, Released
  <2>2. OwesSame /\ UnmapsStay /\ WaitListsStay
    <3>1. CASE refcount[h] = 1
      BY <1>6, <2>1, <3>1, SendLastStack DEF rw_handle_release
    <3>2. CASE refcount[h] # 1
      BY <1>6, <2>1, <3>2 DEF rw_handle_release, stack, OwesSame, UnmapsStay, WaitListsStay
    <3> QED BY <3>1, <3>2
  <2> QED BY <2>1, <2>2, AppRefHandles
<1>7. ASSUME NEW t \in Textures, wgpuRemoteDeviceLoadTextureFromURL(t) PROVE HInv'
  BY <1>7, LoadTextureHandles
<1>8. ASSUME NEW type, IssuePlain(type) PROVE HInv'
  BY <1>8, IssuePlainHandles
<1>9. ASSUME wgpuSurfacePresent PROVE HInv'
  <2>1. UNCHANGED <<connected, next_future_id, vsync_waits, entry, calls, handles>>
    BY <1>9 DEF wgpuSurfacePresent
  <2>2. CASE SendAbandons(requests)
    <3>1. PICK f : f = At("present", {})
      OBVIOUS
    <3>2. SendThen(f) /\ ~f.calling /\ f.pc \notin {"unmap", "waits"}
      BY <1>9, <2>2, <3>1 DEF wgpuSurfacePresent, At
    <3> QED BY <2>1, <3>2, SendThenStack, StepOfNoHandle
  <2>3. CASE ~SendAbandons(requests)
    <3>1. OwesSame /\ UnmapsStay /\ WaitListsStay
      BY <1>9, <2>1, <2>3 DEF wgpuSurfacePresent, stack, OwesSame, UnmapsStay, WaitListsStay
    <3> QED BY <2>1, <3>1, StepOfNoHandle
  <2> QED BY <2>2, <2>3
<1>10. ASSUME wgpuRemoteAdapterAbandonRequests \/ wgpuRemoteAdapterDisconnect PROVE HInv'
  <2>1. PICK f : f = At("requests", requests)
    OBVIOUS
  <2>2. /\ Push(f) /\ f.pc \notin {"unmap", "waits"} /\ ~f.calling
        /\ connected' => connected
        /\ UNCHANGED <<next_future_id, vsync_waits, entry, calls, handles>>
    BY <1>10, <2>1 DEF wgpuRemoteAdapterAbandonRequests, wgpuRemoteAdapterDisconnect, At
  <2> QED BY <2>2, PushStack, StepOfNoHandle
<1> QED
  BY <1>1, <1>2, <1>3, <1>4, <1>5, <1>6, <1>7, <1>8, <1>9, <1>10, OnNextVsyncHandles
     DEF App, wgpuDevicePopErrorScope, wgpuQueueOnSubmittedWorkDone,
         wgpuShaderModuleGetCompilationInfo

-----------------------------------------------------------------------------
\* The replies of the client.

\* What an outstanding id of a buffer or a texture says of it.
LEMMA OutstandingHandle ==
    ASSUME IInv, HInv, NEW id \in Outstanding, entry[id].handle \in Handles
    PROVE  /\ id \in Refs(entry[id].handle)
           /\ entry[id].handle \in created
<1>1. id \in Refs(entry[id].handle)
  BY DEF Refs
<1> QED BY <1>1, HeldIsCreated

LEMMA MapReplyHandles ==
    ASSUME IInv, IInv', HInv, depth < MaxDepth, NEW id \in Ids, NEW failed \in BOOLEAN,
           handle_map_buffer_data(id, failed)
    PROVE  HInv'
<1> DEFINE h == entry[id].handle
<1>1. /\ id \in requests /\ entry[id].type = "MAP"
      /\ UNCHANGED <<connected, next_future_id, vsync_waits, entry, refcount,
                     created, appRefs>>
      /\ calls' = Called(id)
      /\ Push(Calling("end", {}, h))
      /\ \E s \in {"Unmapped", "Mapped"} : map_state' = [map_state EXCEPT ![h] = s]
  BY DEF handle_map_buffer_data, Take
<1>2. id \in Outstanding /\ h \in Buffers /\ h \in Handles
  BY <1>1, Kinds DEF Outstanding, HInv, Shapes
<1> HIDE DEF h
<1>3. PICK f : f = Calling("end", {}, h)
  OBVIOUS
<1>4. f.pc \notin {"unmap", "waits"} /\ f.calling /\ f.handle = h
  BY <1>3 DEF Calling
<1>5. /\ UnmapsStay /\ WaitListsStay
      /\ depth + 1 \in Levels /\ ~frame[depth + 1].calling
      /\ \A d \in Levels : d # depth + 1 => frame'[d] = frame[d]
      /\ frame'[depth + 1] = f
  BY <1>1, <1>3, <1>4, PushStack DEF Idle, At
<1>6. /\ Shapes' /\ UnmapAlone'
      /\ \A g : Refs(g)' = Refs(g) \ {id}
      /\ \A b : Maps(b)' = Maps(b) \ {id}
  BY <1>1, <1>2, <1>5, StepOfCall
<1>7. \A g \in Handles : /\ depth + 1 \notin FrameRefs(g)
                         /\ FrameRefs(g)' = IF g = h THEN FrameRefs(g) \cup {depth + 1}
                                                     ELSE FrameRefs(g)
  <2> TAKE g \in Handles
  <2>1. depth + 1 \notin FrameRefs(g)
    BY <1>5 DEF FrameRefs
  <2>2. FrameRefs(g)' = IF f.calling /\ f.handle = g
                        THEN FrameRefs(g) \cup {depth + 1} ELSE FrameRefs(g) \ {depth + 1}
    BY <1>5, FrameRefsChange
  <2> QED BY <1>4, <2>1, <2>2
<1>8. id \in Refs(h) /\ h \in created
  BY <1>2, OutstandingHandle DEF h
<1>9. /\ refcount \in [Handles -> Int] /\ appRefs \in [Handles -> Nat]
      /\ map_state \in [Buffers -> {"Unmapped", "Pending", "Mapped"}]
  BY DEF IInv, TypeOK
<1>10. Unborn'
  BY <1>1, <1>2, <1>8, <1>9 DEF HInv, Unborn
<1>11. Counted'
  <2> SUFFICES ASSUME NEW g \in Handles
               PROVE  refcount[g] = appRefs[g] + Cardinality(Refs(g)')
                                               + Cardinality(FrameRefs(g)')
    BY <1>1 DEF Counted
  <2>1. Cardinality(Refs(g)) \in Nat /\ Cardinality(FrameRefs(g)) \in Nat
    BY FiniteHolders
  <2>2. refcount[g] = appRefs[g] + Cardinality(Refs(g)) + Cardinality(FrameRefs(g))
    BY DEF HInv, Counted
  <2>3. CASE g = h
    <3>1. Cardinality(Refs(g)') = Cardinality(Refs(g)) - 1
      BY <1>6, <1>8, <2>3, OneRefLess
    <3>2. Cardinality(FrameRefs(g)') = Cardinality(FrameRefs(g)) + 1
      BY <1>7, <2>3, OneFrameMore
    <3> QED BY <1>9, <2>1, <2>2, <3>1, <3>2
  <2>4. CASE g # h
    <3>1. Refs(g)' = Refs(g) /\ FrameRefs(g)' = FrameRefs(g)
      BY <1>6, <1>7, <2>4 DEF Refs, h
    <3> QED BY <2>2, <3>1
  <2> QED BY <2>3, <2>4
<1>12. PendingMaps'
  <2> SUFFICES ASSUME NEW c \in Buffers
               PROVE  IF map_state'[c] = "Pending" THEN \E m \in Maps(c)' : Maps(c)' = {m}
                                                   ELSE Maps(c)' = {}
    BY DEF PendingMaps
  <2>1. CASE c = h
    <3>1. id \in Maps(h)
      BY <1>1, <1>2 DEF Maps, h
    <3>2. Maps(h) = {id}
      BY <1>2, <3>1 DEF HInv, PendingMaps
    <3> QED BY <1>1, <1>6, <1>9, <2>1, <3>2
  <2>2. CASE c # h
    <3>1. id \notin Maps(c)
      BY <2>2 DEF Maps, h
    <3>2. Maps(c)' = Maps(c) /\ map_state'[c] = map_state[c]
      BY <1>1, <1>6, <1>9, <2>2, <3>1
    <3> QED BY <3>2 DEF HInv, PendingMaps
  <2> QED BY <2>1, <2>2
<1> QED BY <1>6, <1>10, <1>11, <1>12 DEF HInv

\* A callback that takes over no release of what its id held.
LEMMA CallOfNothingHandles ==
    ASSUME IInv, IInv', HInv, NEW id \in Outstanding, entry[id].handle = None,
           OwesSame, UnmapsStay, WaitListsStay,
           UNCHANGED <<next_future_id, entry, handles>>, calls' = Called(id),
           vsync_waits' \subseteq vsync_waits
    PROVE  HInv'
<1>1. /\ Shapes' /\ UnmapAlone'
      /\ \A h : Refs(h)' = Refs(h) \ {id}
      /\ \A b : Maps(b)' = Maps(b) \ {id}
  BY StepOfCall
<1>2. \A h \in Handles : /\ Refs(h)' = Refs(h) /\ FrameRefs(h)' = FrameRefs(h)
                         /\ h \in Buffers => Maps(h)' = Maps(h)
  BY <1>1, Kinds, FrameRefsSame DEF Refs, Maps
<1>3. UNCHANGED <<map_state, refcount, created, appRefs>>
  BY DEF handles
<1>4. Unborn' /\ Counted'
  BY <1>2, <1>3 DEF HInv, Unborn, Counted
<1>5. PendingMaps'
  BY <1>2, <1>3, Kinds DEF HInv, PendingMaps
<1> QED BY <1>1, <1>4, <1>5 DEF HInv

LEMMA PlainReplyHandles ==
    ASSUME IInv, IInv', HInv, depth < MaxDepth, NEW id \in Ids, NEW type \in PlainTypes,
           handle_plain_reply(id, type)
    PROVE  HInv'
<1>1. PICK f : f = Calling("end", {}, None)
  OBVIOUS
<1>2. /\ id \in requests /\ entry[id].type = type
      /\ UNCHANGED <<connected, next_future_id, vsync_waits, entry, handles>>
      /\ calls' = Called(id)
      /\ Push(f) /\ f.pc \notin {"unmap", "waits"} /\ f.handle = None
  BY <1>1 DEF handle_plain_reply, Take, Calling
<1>3. id \in Outstanding /\ entry[id].handle = None
  BY <1>2 DEF Outstanding, HInv, Shapes
<1> QED BY <1>2, <1>3, PushStack, CallOfNothingHandles

LEMMA TextureReplyHandles ==
    ASSUME IInv, IInv', HInv, depth < MaxDepth, NEW id \in Ids, NEW failed \in BOOLEAN,
           handle_texture_loaded(id, failed)
    PROVE  HInv'
<1> DEFINE h == entry[id].handle
<1>1. PICK f : f = Calling("end", {}, None)
  OBVIOUS
<1>2. /\ id \in requests /\ entry[id].type = "TEXTURE_LOAD"
      /\ UNCHANGED <<connected, next_future_id, vsync_waits, entry, map_state, created>>
      /\ calls' = Called(id)
      /\ Push(f) /\ f.pc \notin {"unmap", "waits"} /\ f.handle = None
      /\ \/ refcount' = Released(h) /\ UNCHANGED appRefs
         \/ appRefs' = [appRefs EXCEPT ![h] = @ + 1] /\ UNCHANGED refcount
  BY <1>1 DEF handle_texture_loaded, Take, Calling
<1>3. /\ id \in Outstanding /\ h \in Textures /\ h \in Handles /\ h # None
      /\ h \notin Buffers
  BY <1>2, Kinds DEF Outstanding, HInv, Shapes
<1>4. id \in Refs(h) /\ h \in created
  BY <1>3, OutstandingHandle
<1>5. \A c \in Buffers : id \notin Maps(c)
  BY <1>2 DEF Maps
<1>6. \A g : g # h => id \notin Refs(g)
  BY DEF Refs
<1>7. \/ refcount' = [refcount EXCEPT ![h] = @ - 1] /\ UNCHANGED appRefs
      \/ appRefs' = [appRefs EXCEPT ![h] = @ + 1] /\ UNCHANGED refcount
  BY <1>2, <1>3 DEF Released
<1> HIDE DEF h
<1>8. OwesSame /\ UnmapsStay /\ WaitListsStay
  BY <1>2, PushStack
<1>9. /\ Shapes' /\ UnmapAlone'
      /\ \A g : Refs(g)' = Refs(g) \ {id}
      /\ \A b : Maps(b)' = Maps(b) \ {id}
      /\ \A g \in Handles : FrameRefs(g)' = FrameRefs(g)
  BY <1>2, <1>3, <1>8, StepOfCall, FrameRefsSame
<1>10. refcount \in [Handles -> Int] /\ appRefs \in [Handles -> Nat]
  BY DEF IInv, TypeOK
<1>11. Unborn'
  BY <1>2, <1>4, <1>7, <1>10 DEF HInv, Unborn
<1>12. Counted'
  <2> SUFFICES ASSUME NEW g \in Handles
               PROVE  refcount'[g] = appRefs'[g] + Cardinality(Refs(g)')
                                                 + Cardinality(FrameRefs(g))
    BY <1>9 DEF Counted
  <2>1. Cardinality(Refs(g)) \in Nat /\ Cardinality(FrameRefs(g)) \in Nat
    BY FiniteHolders
  <2>2. refcount[g] = appRefs[g] + Cardinality(Refs(g)) + Cardinality(FrameRefs(g))
    BY DEF HInv, Counted
  <2>3. CASE g = h
    <3>1. Cardinality(Refs(g)') = Cardinality(Refs(g)) - 1
      BY <1>4, <1>9, <2>3, OneRefLess
    <3> QED BY <1>7, <1>10, <2>1, <2>2, <2>3, <3>1
  <2>4. CASE g # h
    <3>1. Refs(g)' = Refs(g)
      BY <1>6, <1>9, <2>4
    <3> QED BY <1>7, <1>10, <2>2, <2>4, <3>1
  <2> QED BY <2>3, <2>4
<1>13. PendingMaps'
  BY <1>2, <1>5, <1>9 DEF HInv, PendingMaps
<1> QED BY <1>9, <1>11, <1>12, <1>13 DEF HInv

LEMMA ReceiveHandles ==
    ASSUME IInv, IInv', HInv, depth < MaxDepth, Receive
    PROVE  HInv'
<1>1. ASSUME handle_present_done PROVE HInv'
  <2>1. PICK f : f = At("vsync", {})
    OBVIOUS
  <2>2. /\ Push(f) /\ f.pc \notin {"unmap", "waits"} /\ ~f.calling
        /\ UNCHANGED <<connected, next_future_id, vsync_waits, entry, calls, handles>>
    BY <1>1, <2>1 DEF handle_present_done, At
  <2> QED BY <2>2, PushStack, StepOfNoHandle
<1> QED BY <1>1, MapReplyHandles, TextureReplyHandles, PlainReplyHandles DEF Receive

-----------------------------------------------------------------------------
\* The library's turn.

\* A call does the release it owes.
LEMMA CallbackReturnsHandles ==
    ASSUME IInv, IInv', HInv, NEW d \in Levels, CallbackReturns(d)
    PROVE  HInv'
<1> DEFINE h == frame[d].handle
           resumed == [frame EXCEPT ![d] = [@ EXCEPT !.calling = FALSE, !.handle = None]]
<1>1. /\ d = depth /\ frame[d].calling
      /\ refcount' = Released(h)
      /\ UNCHANGED <<connected, next_future_id, vsync_waits, entry, map_state,
                     created, appRefs, calls>>
      /\ \/ frame' = resumed
         \/ frame' = [resumed EXCEPT ![d + 1] = At("requests", requests)]
  BY DEF CallbackReturns
<1>2. /\ frame \in [Levels -> Frame] /\ d \in Nat /\ None \notin Handles
      /\ refcount \in [Handles -> Int] /\ appRefs \in [Handles -> Nat]
      /\ h \in Handles \cup {None}
  BY Kinds DEF IInv, TypeOK, Levels, Frame
<1>3. /\ \A e \in Levels : e # d => resumed[e] = frame[e]
      /\ ~resumed[d].calling /\ resumed[d].pc = frame[d].pc
      /\ resumed[d].list = frame[d].list
  BY <1>2 DEF Frame
<1>4. frame[d].pc # "unmap"
  BY <1>1 DEF HInv, UnmapAlone
<1>5. /\ d + 1 \in Levels => frame[d + 1] = Idle
      /\ ~Idle.calling
  <2>1. d + 1 \in Levels => frame[d + 1] = Idle
    BY <1>1, <1>2 DEF IInv, StackOK
  <2>2. ~Idle.calling
    BY DEF Idle, At
  <2> QED BY <2>1, <2>2
<1>6. /\ \A e \in Levels : e # d /\ e # d + 1 => frame'[e] = frame[e]
      /\ ~frame'[d].calling /\ frame'[d].pc = frame[d].pc
      /\ frame'[d].list = frame[d].list
      /\ d + 1 \in Levels => ~frame'[d + 1].calling
      /\ d + 1 \in Levels => frame'[d + 1].pc \notin {"unmap", "waits"}
  <2>1. CASE frame' = resumed
    <3>1. d + 1 \in Levels => frame'[d + 1] = Idle /\ Idle.pc \notin {"unmap", "waits"}
      BY <1>2, <1>3, <1>5, <2>1 DEF Idle, At
    <3> QED BY <1>3, <1>5, <2>1, <3>1
  <2>2. CASE frame' = [resumed EXCEPT ![d + 1] = At("requests", requests)]
    <3>1. \A e \in Levels : e # d + 1 => frame'[e] = resumed[e]
      BY <1>2, <2>2
    <3>2. d + 1 \in Levels => frame'[d + 1] = At("requests", requests)
      BY <1>2, <2>2
    <3>3. /\ ~At("requests", requests).calling
          /\ At("requests", requests).pc \notin {"unmap", "waits"}
      BY DEF At
    <3>4. d # d + 1
      BY <1>2
    <3> QED BY <1>3, <3>1, <3>2, <3>3, <3>4
  <2> QED BY <1>1, <2>1, <2>2
<1>7. UnmapsStay /\ WaitListsStay
  <2>1. WaitListsStay
    BY <1>6 DEF WaitListsStay
  <2>2. UnmapsStay
    <3> SUFFICES ASSUME NEW e \in Levels, frame'[e].pc = "unmap"
                 PROVE  /\ frame'[e] = frame[e]
                        /\ \A g \in Levels : g < e => frame'[g].list \subseteq frame[g].list
      BY <1>1 DEF UnmapsStay
    <3>1. e # d /\ e # d + 1 /\ frame'[e] = frame[e]
      BY <1>4, <1>6
    <3>2. ~(e > depth)
      BY <3>1 DEF IInv, StackOK, Idle, At
    <3>3. \A g \in Levels : g < e => g # d + 1
      BY <1>1, <1>2, <3>2 DEF Levels
    <3> QED BY <1>6, <3>1, <3>3
  <2> QED BY <2>1, <2>2
<1>8. Outstanding' = Outstanding
  BY <1>1, SameOutstanding
<1>9. /\ \A g : Refs(g)' = Refs(g)
      /\ \A b : Maps(b)' = Maps(b)
  BY <1>1, <1>8 DEF Refs, Maps
<1>10. Shapes' /\ UnmapAlone'
  BY <1>1, <1>7, WaitListsShaped, UnmapAloneKept DEF HInv, Shapes
<1>11. \A g : FrameRefs(g)' = FrameRefs(g) \ {d}
  <2> TAKE g
  <2>1. ASSUME NEW e \in Levels
        PROVE  (frame'[e].calling /\ frame'[e].handle = g)
                   <=> (e # d /\ frame[e].calling /\ frame[e].handle = g)
    <3>1. CASE e = d
      BY <1>6, <3>1
    <3>2. CASE e = d + 1
      BY <1>2, <1>5, <1>6, <3>2
    <3>3. CASE e # d /\ e # d + 1
      BY <1>6, <3>3
    <3> QED BY <3>1, <3>2, <3>3
  <2> QED BY <2>1 DEF FrameRefs
<1>12. \A g : d \in FrameRefs(g) <=> g = h
  BY <1>1 DEF FrameRefs
<1>13. \A g \in Handles : refcount'[g] = IF g = h THEN refcount[g] - 1 ELSE refcount[g]
  BY <1>1, <1>2 DEF Released
<1> HIDE DEF h
<1>14. Unborn'
  <2>1. \A g \in Handles \ created : g # h
    BY <1>12, HeldIsCreated
  <2> QED BY <1>1, <1>13, <2>1 DEF HInv, Unborn
<1>15. Counted'
  <2> SUFFICES ASSUME NEW g \in Handles
               PROVE  refcount'[g] = appRefs[g] + Cardinality(Refs(g))
                                                + Cardinality(FrameRefs(g)')
    BY <1>1, <1>9 DEF Counted
  <2>1. Cardinality(Refs(g)) \in Nat /\ Cardinality(FrameRefs(g)) \in Nat
    BY FiniteHolders
  <2>2. refcount[g] = appRefs[g] + Cardinality(Refs(g)) + Cardinality(FrameRefs(g))
    BY DEF HInv, Counted
  <2>3. CASE g = h
    <3>1. Cardinality(FrameRefs(g)') = Cardinality(FrameRefs(g)) - 1
      BY <1>11, <1>12, <2>3, OneFrameLess
    <3> QED BY <1>2, <1>13, <2>1, <2>2, <2>3, <3>1
  <2>4. CASE g # h
    <3>1. FrameRefs(g)' = FrameRefs(g)
      BY <1>11, <1>12, <2>4
    <3> QED BY <1>13, <2>2, <2>4, <3>1
  <2> QED BY <2>3, <2>4
<1>16. PendingMaps'
  BY <1>1, <1>9 DEF HInv, PendingMaps
<1> QED BY <1>10, <1>14, <1>15, <1>16 DEF HInv

\* A detached request fails: the call now owes the release it held.
LEMMA AbandonRequestHandles ==
    ASSUME IInv, IInv', HInv, NEW d \in Levels, AbandonRequest(d)
    PROVE  HInv'
<1>1. PICK id \in frame[d].list :
          /\ d = depth /\ frame[d].pc = "requests" /\ ~frame[d].calling
          /\ calls' = Called(id)
          /\ map_state' = IF entry[id].type = "MAP"
                          THEN [map_state EXCEPT ![entry[id].handle] = "Unmapped"]
                          ELSE map_state
          /\ frame' = [frame EXCEPT ![d] =
                          Calling("requests", frame[d].list \ {id}, entry[id].handle)]
          /\ UNCHANGED <<connected, next_future_id, vsync_waits, entry, refcount,
                         created, appRefs>>
  BY DEF AbandonRequest, Running, adapter
<1> DEFINE h == entry[id].handle
<1>2. PICK f : f = Calling("requests", frame[d].list \ {id}, h)
  OBVIOUS
<1>3. f.pc \notin {"unmap", "waits"} /\ f.calling /\ f.handle = h
  BY <1>2 DEF Calling
<1>4. id \in Outstanding /\ id \in Ids
  BY OutstandingIs DEF Outstanding, Detached
<1>5. entry[id].type = "MAP" => h \in Buffers
  BY <1>4 DEF HInv, Shapes
<1>6. /\ \A g : g # h => id \notin Refs(g)
      /\ id \in Refs(h)
      /\ \A c : id \in Maps(c) <=> entry[id].type = "MAP" /\ c = h
  BY <1>4 DEF Refs, Maps
<1> HIDE DEF h
<1>7. /\ UnmapsStay /\ WaitListsStay /\ frame'[d] = f
      /\ \A e \in Levels : e # d => frame'[e] = frame[e]
  BY <1>1, <1>2, <1>3, ChangeStack DEF h
<1>8. /\ Shapes' /\ UnmapAlone'
      /\ \A g : Refs(g)' = Refs(g) \ {id}
      /\ \A b : Maps(b)' = Maps(b) \ {id}
  BY <1>1, <1>4, <1>7, StepOfCall
<1>9. \A g : /\ d \notin FrameRefs(g)
             /\ FrameRefs(g)' = IF g = h THEN FrameRefs(g) \cup {d} ELSE FrameRefs(g)
  <2> TAKE g
  <2>1. d \notin FrameRefs(g)
    BY <1>1 DEF FrameRefs
  <2>2. FrameRefs(g)' = IF f.calling /\ f.handle = g THEN FrameRefs(g) \cup {d}
                                                     ELSE FrameRefs(g) \ {d}
    BY <1>7, FrameRefsChange
  <2> QED BY <1>3, <2>1, <2>2
<1>10. /\ refcount \in [Handles -> Int] /\ appRefs \in [Handles -> Nat]
       /\ map_state \in [Buffers -> {"Unmapped", "Pending", "Mapped"}]
  BY DEF IInv, TypeOK
<1>11. Unborn'
  BY <1>1, <1>10 DEF HInv, Unborn, h
<1>12. Counted'
  <2> SUFFICES ASSUME NEW g \in Handles
               PROVE  refcount[g] = appRefs[g] + Cardinality(Refs(g)')
                                               + Cardinality(FrameRefs(g)')
    BY <1>1 DEF Counted
  <2>1. Cardinality(Refs(g)) \in Nat /\ Cardinality(FrameRefs(g)) \in Nat
    BY FiniteHolders
  <2>2. refcount[g] = appRefs[g] + Cardinality(Refs(g)) + Cardinality(FrameRefs(g))
    BY DEF HInv, Counted
  <2>3. CASE g = h
    <3>1. Cardinality(Refs(g)') = Cardinality(Refs(g)) - 1
      BY <1>6, <1>8, <2>3, OneRefLess
    <3>2. Cardinality(FrameRefs(g)') = Cardinality(FrameRefs(g)) + 1
      BY <1>9, <2>3, OneFrameMore
    <3> QED BY <1>10, <2>1, <2>2, <3>1, <3>2
  <2>4. CASE g # h
    <3>1. Refs(g)' = Refs(g) /\ FrameRefs(g)' = FrameRefs(g)
      BY <1>6, <1>8, <1>9, <2>4
    <3> QED BY <2>2, <3>1
  <2> QED BY <2>3, <2>4
<1>13. PendingMaps'
  <2> SUFFICES ASSUME NEW c \in Buffers
               PROVE  IF map_state'[c] = "Pending" THEN \E m \in Maps(c)' : Maps(c)' = {m}
                                                   ELSE Maps(c)' = {}
    BY DEF PendingMaps
  <2>1. CASE entry[id].type = "MAP" /\ c = h
    <3>1. id \in Maps(c) /\ map_state'[c] = "Unmapped"
      BY <1>1, <1>6, <1>10, <2>1 DEF h
    <3>2. Maps(c) = {id}
      BY <3>1 DEF HInv, PendingMaps
    <3> QED BY <1>8, <3>1, <3>2
  <2>2. CASE ~(entry[id].type = "MAP" /\ c = h)
    <3>1. Maps(c)' = Maps(c) /\ map_state'[c] = map_state[c]
      BY <1>1, <1>6, <1>8, <1>10, <2>2 DEF h
    <3> QED BY <3>1 DEF HInv, PendingMaps
  <2> QED BY <2>1, <2>2
<1> QED BY <1>8, <1>11, <1>12, <1>13 DEF HInv

LEMMA DetachWaitsHandles ==
    ASSUME IInv, IInv', HInv, NEW d \in Levels, DetachWaits(d)
    PROVE  HInv'
<1>1. PICK f : f = At("waits", vsync_waits)
  OBVIOUS
<1>2. /\ d = depth /\ ~frame[d].calling
      /\ frame' = [frame EXCEPT ![d] = f]
      /\ f.pc = "waits" /\ f.list = vsync_waits /\ ~f.calling
      /\ UNCHANGED <<connected, next_future_id, entry, calls, handles>>
      /\ vsync_waits' \subseteq vsync_waits
  BY <1>1 DEF DetachWaits, Running, At
<1>3. OwesSame /\ UnmapsStay /\ WaitListsStay
  BY <1>2, ChangeStack
<1> QED BY <1>2, <1>3, StepOfNoHandle

LEMMA WaitCalledHandles ==
    ASSUME IInv, IInv', HInv, NEW d \in Levels, AbandonWait(d) \/ FireVsync(d)
    PROVE  HInv'
<1>1. PICK id, f :
          /\ id \in Ids /\ id \in Outstanding /\ entry[id].type = "VSYNC"
          /\ d = depth /\ ~frame[d].calling
          /\ frame' = [frame EXCEPT ![d] = f]
          /\ f.pc # "unmap" /\ f.handle = None
          /\ f.pc = "waits" => frame[d].pc = "waits" /\ f.list \subseteq frame[d].list
          /\ calls' = Called(id)
          /\ UNCHANGED <<connected, next_future_id, entry, handles>>
          /\ vsync_waits' \subseteq vsync_waits
  <2>1. CASE AbandonWait(d)
    <3>1. PICK id \in frame[d].list :
              /\ Running(d, "waits")
              /\ calls' = Called(id)
              /\ frame' = [frame EXCEPT ![d] = Calling("waits", frame[d].list \ {id}, None)]
              /\ UNCHANGED <<connected, next_future_id, vsync_waits, entry, handles>>
      BY <2>1 DEF AbandonWait, adapter
    <3>2. PICK f : f = Calling("waits", frame[d].list \ {id}, None)
      OBVIOUS
    <3>3. f.pc = "waits" /\ f.handle = None /\ f.list \subseteq frame[d].list
      BY <3>2 DEF Calling
    <3>4. id \in Outstanding /\ id \in Ids /\ entry[id].type = "VSYNC"
      BY <3>1, OutstandingIs DEF Outstanding, Detached, HInv, Shapes, Running
    <3> QED BY <3>1, <3>2, <3>3, <3>4 DEF Running
  <2>2. CASE FireVsync(d)
    <3>1. PICK id \in vsync_waits :
              /\ Running(d, "vsync")
              /\ vsync_waits' = vsync_waits \ {id}
              /\ calls' = Called(id)
              /\ frame' = [frame EXCEPT ![d] = Calling("vsync", {}, None)]
              /\ UNCHANGED <<connected, next_future_id, entry, handles>>
      BY <2>2 DEF FireVsync
    <3>2. PICK f : f = Calling("vsync", {}, None)
      OBVIOUS
    <3>3. f.pc = "vsync" /\ f.handle = None
      BY <3>2 DEF Calling
    <3>4. id \in Outstanding /\ id \in Ids /\ entry[id].type = "VSYNC"
      BY OutstandingIs DEF Outstanding, HInv, Shapes
    <3> QED BY <3>1, <3>2, <3>3, <3>4 DEF Running
  <2> QED BY <2>1, <2>2
<1>2. OwesSame /\ UnmapsStay /\ WaitListsStay
  BY <1>1, ChangeStack
<1>3. entry[id].handle = None
  BY <1>1 DEF HInv, Shapes
<1> QED BY <1>1, <1>2, <1>3, CallOfNothingHandles

\* The late assignment of an Unmap finds no request of its buffer.
LEMMA FinishUnmapHandles ==
    ASSUME IInv, IInv', HInv, NEW d \in Levels, FinishUnmap(d)
    PROVE  HInv'
<1> DEFINE b == frame[d].handle
<1>1. /\ d = depth /\ frame[d].pc = "unmap" /\ ~frame[d].calling
      /\ map_state' = [map_state EXCEPT ![b] = "Unmapped"]
      /\ Return(d)
      /\ UNCHANGED <<connected, next_future_id, vsync_waits, entry, refcount,
                     created, appRefs, calls>>
  BY DEF FinishUnmap, Running, adapter
<1>2. /\ ~connected /\ b \in Buffers
      /\ \A e \in Levels : e < d => frame[e].list \cap Maps(b) = {}
  BY <1>1 DEF HInv, UnmapAlone
<1>3. Maps(b) = {}
  <2> SUFFICES ASSUME NEW id \in Maps(b) PROVE FALSE
    OBVIOUS
  <2>1. requests = {}
    BY <1>2 DEF IInv, QuietWhenSevered
  <2>2. \A e \in Levels : id \notin frame[e].list
    <3> TAKE e \in Levels
    <3>1. CASE e < d
      BY <1>2, <3>1
    <3>2. CASE e = d
      BY <1>1, <3>2 DEF IInv, TypeOK, Frame
    <3>3. CASE e > d
      BY <1>1, <3>3 DEF IInv, StackOK, Idle, At
    <3> QED BY <3>1, <3>2, <3>3 DEF Levels
  <2>3. id \notin vsync_waits
    BY DEF Maps, HInv, Shapes
  <2> QED BY <2>1, <2>2, <2>3 DEF Maps, Outstanding, Detached
<1>4. OwesSame /\ UnmapsStay /\ WaitListsStay
  BY <1>1, ReturnStack
<1>5. /\ Shapes' /\ UnmapAlone'
      /\ \A h \in Handles : Refs(h)' = Refs(h) /\ FrameRefs(h)' = FrameRefs(h)
      /\ \A c \in Buffers : Maps(c)' = Maps(c)
  BY <1>1, <1>4, StepOfNone
<1>6. map_state \in [Buffers -> {"Unmapped", "Pending", "Mapped"}]
  BY DEF IInv, TypeOK
<1>7. Unborn' /\ Counted'
  BY <1>1, <1>2, <1>5, <1>6 DEF HInv, Unborn, Counted
<1>8. PendingMaps'
  BY <1>1, <1>2, <1>3, <1>5, <1>6 DEF HInv, PendingMaps
<1> QED BY <1>5, <1>7, <1>8 DEF HInv

LEMMA LibraryHandles ==
    ASSUME IInv, IInv', HInv, Library
    PROVE  HInv'
<1>1. ASSUME NEW d \in Levels, FinishPresent(d) \/ Finish(d) PROVE HInv'
  <2>1. /\ ~frame[d].calling /\ Return(d)
        /\ UNCHANGED <<connected, next_future_id, vsync_waits, entry, calls, handles>>
    BY <1>1 DEF FinishPresent, Finish, Running, adapter
  <2> QED BY <2>1, ReturnStack, StepOfNoHandle
<1> QED
  BY <1>1, AbandonRequestHandles, DetachWaitsHandles, WaitCalledHandles,
     FinishUnmapHandles DEF Library

-----------------------------------------------------------------------------
LEMMA InitHInv == Init => HInv
<1> SUFFICES ASSUME Init PROVE HInv
  OBVIOUS
<1>1. \A d \in Levels : frame[d].pc = "idle" /\ ~frame[d].calling /\ frame[d].list = {}
  BY DEF Init, Idle, At
<1>2. Outstanding = {}
  BY <1>1 DEF Init, Outstanding, Detached
<1>3. \A h : Refs(h) = {} /\ Maps(h) = {} /\ FrameRefs(h) = {}
  BY <1>1, <1>2 DEF Refs, Maps, FrameRefs
<1>4. \A h : Cardinality(Refs(h)) = 0 /\ Cardinality(FrameRefs(h)) = 0
  <2>1. Cardinality({}) = 0
    BY FS_EmptySet
  <2> QED BY <1>3, <2>1
<1>5. \A id \in Ids : entry[id].type = "unissued" /\ entry[id].handle = None
  BY DEF Init, Unissued
<1>6. "unissued" \notin PlainTypes
  BY RemoteAdapterAssumption
<1>7. Shapes
  BY <1>1, <1>5 DEF Init, Shapes
<1>8. Unborn /\ Counted
  BY <1>4 DEF Init, Unborn, Counted
<1>9. PendingMaps /\ UnmapAlone
  BY <1>1, <1>3 DEF Init, PendingMaps, UnmapAlone
<1> QED BY <1>7, <1>8, <1>9 DEF HInv

LEMMA NextHInv == IInv /\ IInv' /\ HInv /\ [Next]_vars => HInv'
<1> SUFFICES ASSUME IInv, IInv', HInv, [Next]_vars PROVE HInv'
  OBVIOUS
<1>1. CASE depth < MaxDepth /\ App
  BY <1>1, AppHandles
<1>2. CASE depth < MaxDepth /\ Receive
  BY <1>2, ReceiveHandles
<1>3. CASE \E d \in Levels : CallbackReturns(d)
  BY <1>3, CallbackReturnsHandles
<1>4. CASE Library
  BY <1>4, LibraryHandles
<1>5. CASE UNCHANGED vars
  <2>1. OwesSame /\ UnmapsStay /\ WaitListsStay
    BY <1>5 DEF vars, adapter, stack, OwesSame, UnmapsStay, WaitListsStay
  <2> QED BY <1>5, <2>1, StepOfNoHandle DEF vars, adapter
<1> QED BY <1>1, <1>2, <1>3, <1>4, <1>5 DEF Next

LEMMA HandlesInvariant == Spec => []HInv
<1>1. Init => HInv
  BY InitHInv
<1>2. IInv /\ IInv' /\ HInv /\ [Next]_vars => HInv'
  BY NextHInv
<1> QED BY <1>1, <1>2, Invariance, PTL DEF Spec

(* The library owns exactly the references its pending requests and its    *)
(* suspended calls will give back, on every path a request can end by.     *)
THEOREM ReferencesCounted == Spec => []RefcountExact
<1>1. IInv /\ HInv => RefcountExact
  <2> SUFFICES ASSUME IInv, HInv PROVE RefcountExact
    OBVIOUS
  <2>1. \A h \in Handles : RequestRefs(h) = Refs(h)
    BY HoldersAre DEF HInv
  <2> QED BY <2>1 DEF HInv, Counted, RefcountExact
<1> QED BY <1>1, Invariance, HandlesInvariant, PTL

(* A buffer is Pending exactly while one map of it is outstanding, also    *)
(* when an Unmap is suspended in its send and its buffer is mapped again.  *)
THEOREM PendingIsOutstanding == Spec => []PendingIffOutstanding
<1>1. IInv /\ HInv => PendingIffOutstanding
  <2> SUFFICES ASSUME IInv, HInv PROVE PendingIffOutstanding
    OBVIOUS
  <2>1. \A b \in Buffers : Maps(b) = {id \in requests \cup Detached :
                              entry[id].type = "MAP" /\ entry[id].handle = b}
    BY HoldersAre DEF HInv
  <2> QED BY <2>1 DEF HInv, PendingMaps, PendingIffOutstanding
<1> QED BY <1>1, Invariance, HandlesInvariant, PTL
=============================================================================
