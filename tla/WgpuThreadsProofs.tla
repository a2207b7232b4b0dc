--------------------------- MODULE WgpuThreadsProofs ---------------------------
(***************************************************************************)
(* Theorems about the threads of a server and their locks, for any number  *)
(* of application threads, calls and events: the re-entrant C lock counts  *)
(* its guards, its sleepers are woken, and no threads wait for each other  *)
(* in a cycle as long as no error handler is replaced.                     *)
(*                                                                         *)
(* A thread's program is a sequence in which every guard that is taken is  *)
(* given back.  What the proofs need of it is closed under concatenation,  *)
(* under taking a lock around it, and under going on to the rest of it.    *)
(***************************************************************************)
EXTENDS WgpuThreads, FiniteSetTheorems, SequenceTheorems, TLAPS

-----------------------------------------------------------------------------
(* Counting an instruction from position k of a program on.                *)

Places(s, k, x) == {i \in k .. Len(s) : s[i] = x}
Count(s, k, x) == Cardinality(Places(s, k, x))

LEMMA CountTyped ==
    ASSUME NEW S, NEW s \in Seq(S), NEW k \in Nat, NEW x
    PROVE  IsFiniteSet(Places(s, k, x)) /\ Count(s, k, x) \in Nat
<1>1. Len(s) \in Nat
  OBVIOUS
<1>2. IsFiniteSet(k .. Len(s))
  BY <1>1, FS_Interval
<1>3. IsFiniteSet(Places(s, k, x))
  BY <1>2, FS_Subset DEF Places
<1> QED BY <1>3, FS_CardinalityType DEF Count

(* The same instructions d places further on. *)
LEMMA CountShifted ==
    ASSUME NEW S, NEW s \in Seq(S), NEW r \in Seq(S), NEW d \in Nat,
           Len(s) = Len(r) + d, \A i \in 1 .. Len(r) : r[i] = s[i + d],
           NEW k \in Nat \ {0}, NEW e, e = k + d, NEW x
    PROVE  Count(s, e, x) = Count(r, k, x)
<1> DEFINE P == Places(r, k, x)
           Q == Places(s, e, x)
           f == [i \in P |-> i + d]
<1>1. Len(r) \in Nat /\ Len(s) \in Nat
  OBVIOUS
<1>2. P \subseteq Nat
  BY <1>1 DEF Places
<1>3. \A i \in P : i + d \in Q
  BY <1>1 DEF Places
<1>4. \A j \in Q : j - d \in P /\ (j - d) + d = j
  BY <1>1 DEF Places
<1>5. f \in [P -> Q]
  BY <1>3
<1>6. \A i, j \in P : f[i] = f[j] => i = j
  BY <1>2
<1>7. \A j \in Q : \E i \in P : f[i] = j
  BY <1>4
<1> HIDE DEF P, Q, f
<1>8. f \in Bijection(P, Q)
  BY <1>5, <1>6, <1>7 DEF Bijection, Injection, Surjection, IsInjective
<1>9. ExistsBijection(P, Q)
  BY <1>8 DEF ExistsBijection
<1>10. IsFiniteSet(P)
  BY CountTyped DEF P
<1>11. Cardinality(P) = Cardinality(Q)
  BY <1>9, <1>10, FS_Bijection
<1> QED BY <1>11 DEF P, Q, Count

LEMMA CountConcat ==
    ASSUME NEW S, NEW s \in Seq(S), NEW r \in Seq(S), NEW k \in Nat \ {0},
           k <= Len(s) + 1, NEW x
    PROVE  Count(s \o r, k, x) = Count(s, k, x) + Count(r, 1, x)
<1> DEFINE n == Len(s)
           A == Places(s, k, x)
           B == Places(s \o r, 1 + n, x)
<1>1. /\ n \in Nat /\ s \o r \in Seq(S) /\ Len(s \o r) = Len(r) + n
      /\ \A i \in 1 .. n : (s \o r)[i] = s[i]
      /\ \A i \in 1 .. Len(r) : (s \o r)[i + n] = r[i]
  OBVIOUS
<1>2. Places(s \o r, k, x) = A \cup B
  BY <1>1 DEF Places
<1>3. A \cap B = {}
  BY <1>1 DEF Places
<1>4. IsFiniteSet(A) /\ IsFiniteSet(B) /\ Count(s, k, x) \in Nat /\ Count(s \o r, 1 + n, x) \in Nat
  <2>1. IsFiniteSet(A) /\ Count(s, k, x) \in Nat
    BY CountTyped
  <2>2. 1 + n \in Nat
    BY <1>1
  <2>3. IsFiniteSet(B) /\ Count(s \o r, 1 + n, x) \in Nat
    BY <1>1, <2>2, CountTyped
  <2> QED BY <2>1, <2>3
<1>5. Cardinality(A \cup B) = Cardinality(A) + Cardinality(B) - Cardinality(A \cap B)
  BY <1>4, FS_Union
<1>6. Cardinality(A \cap B) = 0
  BY <1>3, FS_EmptySet
<1>7. Count(s \o r, 1 + n, x) = Count(r, 1, x)
  <2> DEFINE t == s \o r
             e == 1 + n
  <2>1. t \in Seq(S) /\ Len(t) = Len(r) + n /\ \A i \in 1 .. Len(r) : r[i] = t[i + n]
    BY <1>1
  <2>2. e = 1 + n /\ 1 \in Nat \ {0}
    OBVIOUS
  <2> HIDE DEF t, e
  <2>3. Count(t, e, x) = Count(r, 1, x)
    BY <1>1, <2>1, <2>2, CountShifted
  <2> QED BY <2>2, <2>3 DEF t
<1> QED BY <1>2, <1>4, <1>5, <1>6, <1>7 DEF Count

-----------------------------------------------------------------------------
(* Programs: from no place on does a program take the C lock more often    *)
(* than it gives it back.  Net is how many guards it has to drop.          *)

Take == Lock("c")
Give == Unlock("c")
NetFrom(s, k) == Count(s, k, Give) - Count(s, k, Take)
Net(s) == NetFrom(s, 1)
Weight(x) == IF x = Give THEN 1 ELSE IF x = Take THEN -1 ELSE 0

Program(s) ==
    /\ s \in Seq(Instructions)
    /\ \A k \in 1 .. Len(s) : NetFrom(s, k) >= 0

LEMMA NetIsGuards ==
    ASSUME NEW t \in Threads, code[t] \in Seq(Instructions)
    PROVE  Guards(t) = Net(code[t])
<1>1. DOMAIN code[t] = 1 .. Len(code[t])
  OBVIOUS
<1> QED BY <1>1 DEF Guards, Net, NetFrom, Count, Places, Give, Take

LEMMA NetTyped ==
    ASSUME NEW s \in Seq(Instructions), NEW k \in Nat
    PROVE  NetFrom(s, k) \in Int
<1>1. Count(s, k, Give) \in Nat /\ Count(s, k, Take) \in Nat
  BY CountTyped
<1> QED BY <1>1 DEF NetFrom

LEMMA ProgramNet ==
    ASSUME NEW s, Program(s)
    PROVE  Net(s) \in Nat
<1>1. s \in Seq(Instructions) /\ Len(s) \in Nat
  BY DEF Program
<1>2. Net(s) \in Int
  BY <1>1, NetTyped DEF Net
<1>3. CASE Len(s) = 0
  <2>1. Places(s, 1, Give) = {} /\ Places(s, 1, Take) = {}
    BY <1>3 DEF Places
  <2>2. Net(s) = 0
    BY <2>1, FS_EmptySet DEF Net, NetFrom, Count
  <2> QED BY <2>2
<1>4. CASE Len(s) > 0
  <2>1. 1 \in 1 .. Len(s)
    BY <1>1, <1>4
  <2>2. NetFrom(s, 1) >= 0
    BY <2>1 DEF Program
  <2> QED BY <1>2, <2>2 DEF Net
<1> QED BY <1>1, <1>3, <1>4

LEMMA EmptyProgram == Program(<<>>) /\ Net(<<>>) = 0
<1>1. Places(<<>>, 1, Give) = {} /\ Places(<<>>, 1, Take) = {}
  BY DEF Places
<1>2. Count(<<>>, 1, Give) = 0 /\ Count(<<>>, 1, Take) = 0
  BY <1>1, FS_EmptySet DEF Count
<1>3. Net(<<>>) = 0
  BY <1>2 DEF Net, NetFrom
<1>4. <<>> \in Seq(Instructions) /\ Len(<<>>) = 0
  OBVIOUS
<1> QED BY <1>3, <1>4 DEF Program

LEMMA NetFromConcat ==
    ASSUME NEW s \in Seq(Instructions), NEW r \in Seq(Instructions)
    PROVE  /\ \A k \in 1 .. Len(s) : NetFrom(s \o r, k) = NetFrom(s, k) + Net(r)
           /\ \A k \in 1 .. Len(r) : NetFrom(s \o r, k + Len(s)) = NetFrom(r, k)
<1>1. /\ Len(s) \in Nat /\ s \o r \in Seq(Instructions) /\ Len(s \o r) = Len(r) + Len(s)
      /\ \A i \in 1 .. Len(r) : r[i] = (s \o r)[i + Len(s)]
  OBVIOUS
<1>2. ASSUME NEW k \in 1 .. Len(s)
      PROVE  NetFrom(s \o r, k) = NetFrom(s, k) + Net(r)
  <2>1. k \in Nat \ {0} /\ k <= Len(s) + 1
    BY <1>1
  <2>2. \A x : Count(s \o r, k, x) = Count(s, k, x) + Count(r, 1, x)
    BY <2>1, CountConcat
  <2>3. \A x : Count(s, k, x) \in Nat /\ Count(r, 1, x) \in Nat
    BY <2>1, CountTyped
  <2> QED BY <2>2, <2>3 DEF NetFrom, Net
<1>3. ASSUME NEW k \in 1 .. Len(r)
      PROVE  NetFrom(s \o r, k + Len(s)) = NetFrom(r, k)
  <2> DEFINE t == s \o r
             d == Len(s)
             e == k + d
  <2>1. /\ t \in Seq(Instructions) /\ d \in Nat /\ Len(t) = Len(r) + d
        /\ \A i \in 1 .. Len(r) : r[i] = t[i + d]
        /\ k \in Nat \ {0}
    BY <1>1
  <2>2. e = k + d
    OBVIOUS
  <2> HIDE DEF t, d, e
  <2>3. ASSUME NEW x
        PROVE  Count(t, e, x) = Count(r, k, x)
    <3>1. \A j \in Nat \ {0} : \A f, y : f = j + d => Count(t, f, y) = Count(r, j, y)
      BY <2>1, CountShifted
    <3> QED BY <2>1, <2>2, <3>1
  <2>4. NetFrom(t, e) = NetFrom(r, k)
    BY <2>3 DEF NetFrom
  <2> QED BY <2>4 DEF t, d, e
<1> QED BY <1>2, <1>3

LEMMA ConcatProgram ==
    ASSUME NEW s, Program(s), NEW r, Program(r)
    PROVE  Program(s \o r) /\ Net(s \o r) = Net(s) + Net(r)
<1>1. /\ s \in Seq(Instructions) /\ r \in Seq(Instructions) /\ s \o r \in Seq(Instructions)
      /\ Len(s) \in Nat /\ Len(r) \in Nat /\ Len(s \o r) = Len(r) + Len(s)
  BY DEF Program
<1>2. Net(s) \in Nat /\ Net(r) \in Nat
  BY ProgramNet
<1>3. ASSUME NEW k \in 1 .. Len(s \o r)
      PROVE  NetFrom(s \o r, k) >= 0
  <2>1. CASE k \in 1 .. Len(s)
    <3>1. NetFrom(s \o r, k) = NetFrom(s, k) + Net(r) /\ NetFrom(s, k) >= 0
      BY <1>1, <2>1, NetFromConcat DEF Program
    <3>2. NetFrom(s, k) \in Int
      BY <1>1, NetTyped
    <3> QED BY <1>2, <3>1, <3>2
  <2>2. CASE k > Len(s)
    <3>1. k - Len(s) \in 1 .. Len(r) /\ (k - Len(s)) + Len(s) = k
      BY <1>1, <2>2
    <3>2. NetFrom(s \o r, k) = NetFrom(r, k - Len(s))
      BY <1>1, <3>1, NetFromConcat
    <3> QED BY <3>1, <3>2 DEF Program
  <2> QED BY <1>1, <2>1, <2>2
<1>4. Net(s \o r) = Net(s) + Net(r)
  <2>1. \A x : Count(s \o r, 1, x) = Count(s, 1, x) + Count(r, 1, x)
    BY <1>1, CountConcat
  <2>2. \A x : Count(s, 1, x) \in Nat /\ Count(r, 1, x) \in Nat
    BY <1>1, CountTyped
  <2> QED BY <2>1, <2>2 DEF NetFrom, Net
<1> QED BY <1>1, <1>3, <1>4 DEF Program

LEMMA WeightOfOne ==
    ASSUME NEW x \in Instructions
    PROVE  <<x>> \in Seq(Instructions) /\ NetFrom(<<x>>, 1) = Weight(x)
<1>1. \A y : Places(<<x>>, 1, y) = IF x = y THEN {1} ELSE {}
  BY DEF Places
<1>2. \A y : Count(<<x>>, 1, y) = IF x = y THEN 1 ELSE 0
  BY <1>1, FS_EmptySet, FS_Singleton DEF Count
<1>3. Give # Take
  BY DEF Give, Take, Lock, Unlock
<1> QED BY <1>2, <1>3 DEF NetFrom, Weight

LEMMA OneInstruction ==
    ASSUME NEW x \in Instructions, x # Take
    PROVE  Program(<<x>>) /\ Net(<<x>>) = Weight(x)
<1>1. Weight(x) >= 0
  BY DEF Weight
<1>2. NetFrom(<<x>>, 1) = Weight(x) /\ <<x>> \in Seq(Instructions)
  BY WeightOfOne
<1>3. \A k \in 1 .. Len(<<x>>) : k = 1
  OBVIOUS
<1> QED BY <1>1, <1>2, <1>3 DEF Program, Net

LEMMA FirstTake ==
    ASSUME NEW s, Program(s), Net(s) >= 1
    PROVE  Program(<<Take>> \o s) /\ Net(<<Take>> \o s) = Net(s) - 1
<1> DEFINE u == <<Take>>
<1>1. s \in Seq(Instructions) /\ Net(s) \in Nat
  BY ProgramNet DEF Program
<1>2. Take \in Instructions /\ Weight(Take) = -1
  BY DEF Take, Give, Lock, Unlock, Instructions, Weight
<1>3. u \in Seq(Instructions) /\ NetFrom(u, 1) = -1
  BY <1>2, WeightOfOne
<1>4. Len(u) = 1 /\ Len(u \o s) = Len(s) + 1 /\ u \o s \in Seq(Instructions) /\ Len(s) \in Nat
  BY <1>1, <1>3
<1> HIDE DEF u
<1>5. NetFrom(u \o s, 1) = Net(s) - 1
  <2>1. NetFrom(u \o s, 1) = NetFrom(u, 1) + Net(s)
    BY <1>1, <1>3, <1>4, NetFromConcat
  <2> QED BY <1>1, <1>3, <2>1
<1>6. ASSUME NEW k \in 1 .. Len(u \o s)
      PROVE  NetFrom(u \o s, k) >= 0
  <2>1. CASE k = 1
    BY <1>1, <1>5, <2>1
  <2>2. CASE k > 1
    <3>1. k - 1 \in 1 .. Len(s) /\ (k - 1) + 1 = k
      BY <1>4, <2>2
    <3>2. NetFrom(u \o s, (k - 1) + Len(u)) = NetFrom(s, k - 1)
      BY <1>1, <1>3, <3>1, NetFromConcat
    <3>3. NetFrom(u \o s, k) = NetFrom(s, k - 1)
      BY <1>4, <3>1, <3>2
    <3> QED BY <3>1, <3>3 DEF Program
  <2> QED BY <1>4, <2>1, <2>2
<1> QED BY <1>4, <1>5, <1>6 DEF Program, Net, u

LEMMA UnderProgram ==
    ASSUME NEW m \in Mutexes \cup {"c"}, NEW s, Program(s), Net(s) = 0
    PROVE  Program(Under(m, s)) /\ Net(Under(m, s)) = 0
<1> DEFINE g == <<Unlock(m)>>
<1>1. Unlock(m) \in Instructions /\ Lock(m) \in Instructions /\ Unlock(m) # Take
  BY DEF Unlock, Lock, Take, Instructions
<1>2. Program(g) /\ Net(g) = Weight(Unlock(m))
  BY <1>1, OneInstruction
<1> HIDE DEF g
<1>3. Program(s \o g) /\ Net(s \o g) = Net(s) + Net(g)
  BY <1>2, ConcatProgram
<1>4. Net(g) \in Nat
  BY <1>2, ProgramNet
<1>5. Under(m, s) = <<Lock(m)>> \o (s \o g)
  <2>1. s \in Seq(Instructions) /\ g \in Seq(Instructions) /\ <<Lock(m)>> \in Seq(Instructions)
    BY <1>1, <1>2 DEF Program
  <2>2. (<<Lock(m)>> \o s) \o g = <<Lock(m)>> \o (s \o g)
    BY <2>1, ConcatAssociative
  <2> QED BY <2>2 DEF Under, g
<1>6. CASE m = "c"
  <2>1. Lock(m) = Take /\ Net(g) = 1
    BY <1>2, <1>6 DEF Take, Give, Weight
  <2>2. Net(s \o g) = 1
    BY <1>3, <2>1
  <2> QED BY <1>3, <1>5, <2>1, <2>2, FirstTake
<1>7. CASE m # "c"
  <2>1. Lock(m) # Take /\ Weight(Lock(m)) = 0 /\ Weight(Unlock(m)) = 0
    BY <1>7 DEF Take, Give, Lock, Unlock, Weight
  <2>2. Program(<<Lock(m)>>) /\ Net(<<Lock(m)>>) = 0
    BY <1>1, <2>1, OneInstruction
  <2>3. Net(s \o g) = 0
    BY <1>2, <1>3, <2>1
  <2> QED BY <1>3, <1>5, <2>2, <2>3, ConcatProgram
<1> QED BY <1>6, <1>7

(* Going on with the rest of a program. *)
LEMMA RestProgram ==
    ASSUME NEW s, Program(s), s # <<>>
    PROVE  /\ Head(s) \in Instructions /\ Program(Tail(s))
           /\ Net(s) = Weight(Head(s)) + Net(Tail(s))
<1> DEFINE u == <<Head(s)>>
           r == Tail(s)
<1>1. s \in Seq(Instructions)
  BY DEF Program
<1>2. Head(s) \in Instructions /\ r \in Seq(Instructions) /\ s = u \o r
      /\ u \in Seq(Instructions) /\ Len(u) = 1 /\ Len(s) = Len(r) + 1 /\ Len(r) \in Nat
  BY <1>1
<1>3. NetFrom(u, 1) = Weight(Head(s))
  BY <1>2, WeightOfOne
<1> HIDE DEF u, r
<1>4. \A k \in 1 .. Len(r) : NetFrom(s, k + 1) = NetFrom(r, k)
  BY <1>2, NetFromConcat
<1>5. NetFrom(s, 1) = NetFrom(u, 1) + Net(r)
  BY <1>2, NetFromConcat
<1>6. \A k \in 1 .. Len(r) : k + 1 \in 1 .. Len(s)
  BY <1>2
<1>7. Program(r)
  BY <1>2, <1>4, <1>6 DEF Program
<1> QED BY <1>2, <1>3, <1>5, <1>7 DEF Net, r

-----------------------------------------------------------------------------
(* What the threads run are programs that drop every guard they take.      *)

AppPrograms == {SurfaceCall, MapAsync, Submit, Poll, Draw, DropDevice, OnUncapturedError}
ReaderPrograms == {Reply, VsyncDone, UncapturedError, MarkDisconnected}
CallbackPrograms == {UserCallback} \cup {PollCallback(t) : t \in AppThreads}
Balanced(s) == Program(s) /\ Net(s) = 0

LEMMA BalancedOne ==
    ASSUME NEW x \in Instructions, x \notin {Take, Give}
    PROVE  Balanced(<<x>>)
BY OneInstruction DEF Balanced, Weight

LEMMA BalancedTwo ==
    ASSUME NEW s, Balanced(s), NEW r, Balanced(r)
    PROVE  Balanced(s \o r)
BY ConcatProgram DEF Balanced

LEMMA BalancedUnder ==
    ASSUME NEW m \in Mutexes \cup {"c"}, NEW s, Balanced(s)
    PROVE  Balanced(Under(m, s))
BY UnderProgram DEF Balanced

LEMMA BalancedDo ==
    ASSUME NEW d \in {"user", "poll", "wait", "sleep", "asleep", "register", "forget", "notify",
                      "answer", "report", "sever"}
    PROVE  Balanced(<<Do(d)>>)
<1>1. Do(d) \in Instructions /\ Do(d) \notin {Take, Give}
  BY DEF Do, Instructions, Take, Give, Lock, Unlock
<1> QED BY <1>1, BalancedOne

LEMMA AllBalanced ==
    \A s \in AppPrograms \cup ReaderPrograms \cup CallbackPrograms \cup {DropHandler} : Balanced(s)
<1>1. Balanced(<<>>)
  BY EmptyProgram DEF Balanced
<1>2. /\ "c" \in Mutexes \cup {"c"} /\ "surfaces" \in Mutexes \cup {"c"}
      /\ "handlers" \in Mutexes \cup {"c"} /\ "app" \in Mutexes \cup {"c"}
  BY DEF Mutexes
<1>3. Balanced(Under("c", <<>>)) /\ Balanced(Under("handlers", <<>>))
  BY <1>1, <1>2, BalancedUnder
<1>4. Balanced(SurfaceCall) /\ Balanced(Draw) /\ Balanced(DropHandler)
  BY <1>2, <1>3, BalancedUnder DEF SurfaceCall, Draw, DropHandler
<1>5. Balanced(MapAsync)
  BY <1>2, BalancedDo, BalancedUnder DEF MapAsync
<1>6. Balanced(Submit)
  BY <1>2, <1>5, BalancedUnder DEF Submit
<1>7. Balanced(Under("c", <<Do("poll")>>)) /\ Balanced(<<Do("wait")>>) /\ Balanced(<<Do("notify")>>)
  BY <1>2, BalancedDo, BalancedUnder
<1>8. Balanced(Poll)
  BY <1>3, <1>7, BalancedTwo DEF Poll
<1>9. Balanced(OnUncapturedError)
  BY <1>2, BalancedDo, BalancedUnder DEF OnUncapturedError
<1>10. Balanced(DropDevice)
  <2>1. Balanced(Under("handlers", <<Do("forget")>>))
    BY <1>2, BalancedDo, BalancedUnder
  <2> QED BY <1>2, <2>1, BalancedUnder DEF DropDevice
<1>11. /\ Balanced(Under("c", <<Do("answer")>>)) /\ Balanced(Under("c", <<Do("notify")>>))
       /\ Balanced(Under("c", <<Do("sever")>>))
  BY <1>2, BalancedDo, BalancedUnder
<1>12. Balanced(Reply) /\ Balanced(VsyncDone) /\ Balanced(MarkDisconnected)
  BY <1>7, <1>11, BalancedTwo DEF Reply, VsyncDone, MarkDisconnected
<1>13. Balanced(UncapturedError)
  <2>1. Balanced(<<Do("report")>>)
    BY BalancedDo
  <2>2. Balanced(Under("handlers", <<>>) \o <<Do("report")>>)
    BY <1>3, <2>1, BalancedTwo
  <2>3. Balanced(Under("c", Under("handlers", <<>>) \o <<Do("report")>>))
    BY <1>2, <2>2, BalancedUnder
  <2> QED BY <1>7, <2>3, BalancedTwo DEF UncapturedError
<1>14. Balanced(UserCallback)
  BY <1>4, <1>7, BalancedTwo DEF UserCallback
<1>15. ASSUME NEW t \in AppThreads
       PROVE  Balanced(PollCallback(t))
  <2> DEFINE x == [do |-> "complete", on |-> t]
  <2>1. x \in Instructions /\ x \notin {Take, Give}
    BY DEF Instructions, Take, Give, Lock, Unlock
  <2>2. PollCallback(t) = <<x>> \o <<Do("notify")>>
    BY DEF PollCallback
  <2> HIDE DEF x
  <2>3. Balanced(<<x>>)
    BY <2>1, BalancedOne
  <2> QED BY <1>7, <2>2, <2>3, BalancedTwo
<1> QED BY <1>4, <1>5, <1>6, <1>8, <1>9, <1>10, <1>12, <1>13, <1>14, <1>15
        DEF AppPrograms, ReaderPrograms, CallbackPrograms

-----------------------------------------------------------------------------
(* The C lock: the inductive invariant.  Its owner is the one thread with  *)
(* guards to drop, and every thread runs a program.                        *)

Guarded ==
    /\ code \in [Threads -> Seq(Instructions)]
    /\ owner \in Threads \cup {NoThread} /\ depth \in Nat
    /\ \A t \in Threads : Program(code[t])
                          /\ Net(code[t]) = IF owner = t THEN depth ELSE 0
    /\ owner = NoThread <=> depth = 0

(* What the threads ask the client for and are called back with.           *)
Asked ==
    LET Polls == {r \in Requests : r.kind = "poll" => r.of \in AppThreads}
    IN pending \in Seq(Polls) /\ callbacks \in Seq(Polls)

LEMMA GuardedInit == Init => Guarded
<1> SUFFICES ASSUME Init PROVE Guarded
  OBVIOUS
<1>1. \A t \in Threads : code[t] = <<>> /\ owner # t
  BY WgpuThreadsAssumption DEF Init
<1> QED BY <1>1, EmptyProgram DEF Init, Guarded

\* A program in the place of another that drops as many guards.
LEMMA GuardedReplace ==
    ASSUME Guarded, NEW t \in Threads, NEW s, Program(s), Net(s) = Net(code[t]),
           code' = [code EXCEPT ![t] = s], UNCHANGED <<owner, depth>>
    PROVE  Guarded'
<1>1. code' \in [Threads -> Seq(Instructions)]
  BY DEF Guarded, Program
<1>2. ASSUME NEW u \in Threads
      PROVE  Program(code'[u]) /\ Net(code'[u]) = IF owner' = u THEN depth' ELSE 0
  <2>1. CASE u = t
    BY <2>1 DEF Guarded
  <2>2. CASE u # t
    BY <2>2 DEF Guarded
  <2> QED BY <2>1, <2>2
<1> QED BY <1>1, <1>2 DEF Guarded

\* Nothing about the C lock is done.
LEMMA RestNet ==
    ASSUME Guarded, NEW t \in Threads, code[t] # <<>>, Instruction(t) \notin {Take, Give}
    PROVE  Program(Tail(code[t])) /\ Net(Tail(code[t])) = Net(code[t])
<1> DEFINE s == code[t]
<1>1. Program(s)
  BY DEF Guarded
<1>2. Head(s) \notin {Take, Give}
  BY DEF Instruction
<1>3. Program(Tail(s)) /\ Net(s) = Weight(Head(s)) + Net(Tail(s))
  BY <1>1, RestProgram
<1>4. Net(Tail(s)) \in Nat
  BY <1>3, ProgramNet
<1> QED BY <1>2, <1>3, <1>4 DEF Weight

LEMMA GuardedContinue ==
    ASSUME Guarded, NEW t \in Threads, code[t] # <<>>, Instruction(t) \notin {Take, Give},
           Continue(t), UNCHANGED <<owner, depth>>
    PROVE  Guarded'
BY RestNet, GuardedReplace DEF Continue

LEMMA GuardedAcquire ==
    ASSUME Guarded, NEW t \in Threads, CLockAcquire(t)
    PROVE  Guarded'
<1>1. CASE owner \notin {NoThread, t}
  BY <1>1 DEF CLockAcquire, Guarded
<1>2. CASE owner \in {NoThread, t}
  <2> DEFINE s == code[t]
  <2>1. s # <<>> /\ Head(s) = Take
    <3>1. s # <<>> /\ Head(s).do = "lock" /\ Head(s).on = "c"
      BY DEF CLockAcquire, At, Instruction
    <3>2. Head(s) \in Instructions
      BY <3>1, RestProgram DEF Guarded
    <3> QED BY <3>1, <3>2 DEF Take, Lock, Instructions
  <2>2. Program(s) /\ Net(s) = IF owner = t THEN depth ELSE 0
    BY DEF Guarded
  <2>3. Program(Tail(s)) /\ Net(s) = -1 + Net(Tail(s)) /\ Net(Tail(s)) \in Nat
    BY <2>1, <2>2, RestProgram, ProgramNet DEF Weight, Take, Give, Lock, Unlock
  <2>4. code' = [code EXCEPT ![t] = Tail(s)] /\ owner' = t /\ depth' = depth + 1
    BY <1>2 DEF CLockAcquire, Continue
  <2>5. depth = IF owner = t THEN depth ELSE 0
    BY <1>2 DEF Guarded
  <2>6. Net(Tail(s)) = depth'
    BY <2>2, <2>3, <2>4, <2>5 DEF Guarded
  <2>7. \A u \in Threads \ {t} : code'[u] = code[u] /\ owner # u /\ Net(code[u]) = 0
    BY <1>2, <2>4, WgpuThreadsAssumption DEF Guarded
  <2>8. t # NoThread /\ depth' \in Nat /\ depth' # 0
    BY <2>4, WgpuThreadsAssumption DEF Guarded
  <2>9. code' \in [Threads -> Seq(Instructions)] /\ code'[t] = Tail(s)
    BY <2>3, <2>4 DEF Guarded, Program
  <2> HIDE DEF s
  <2> QED BY <2>3, <2>4, <2>6, <2>7, <2>8, <2>9 DEF Guarded
<1> QED BY <1>1, <1>2

LEMMA GuardedDrop ==
    ASSUME Guarded, NEW t \in Threads, CLockDrop(t)
    PROVE  Guarded'
<1> DEFINE s == code[t]
<1>1. s # <<>> /\ Head(s) = Give
  <2>1. s # <<>> /\ Head(s).do = "unlock" /\ Head(s).on = "c"
    BY DEF CLockDrop, At, Instruction
  <2>2. Head(s) \in Instructions
    BY <2>1, RestProgram DEF Guarded
  <2> QED BY <2>1, <2>2 DEF Give, Unlock, Instructions
<1>2. Program(s) /\ Net(s) = IF owner = t THEN depth ELSE 0
  BY DEF Guarded
<1>3. Program(Tail(s)) /\ Net(s) = 1 + Net(Tail(s)) /\ Net(Tail(s)) \in Nat
  BY <1>1, <1>2, RestProgram, ProgramNet DEF Weight
<1>4. owner = t /\ depth = 1 + Net(Tail(s))
  BY <1>2, <1>3
<1>5. code' = [code EXCEPT ![t] = Tail(s)] /\ depth' = depth - 1
      /\ owner' = IF depth' = 0 THEN NoThread ELSE owner
  BY DEF CLockDrop, Continue
<1>6. depth' = Net(Tail(s))
  BY <1>3, <1>4, <1>5
<1>7. \A u \in Threads \ {t} : code'[u] = code[u] /\ owner' # u /\ Net(code[u]) = 0
  BY <1>4, <1>5, WgpuThreadsAssumption DEF Guarded
<1>8. code' \in [Threads -> Seq(Instructions)] /\ code'[t] = Tail(s)
  BY <1>3, <1>5 DEF Guarded, Program
<1>9. t # NoThread
  BY WgpuThreadsAssumption
<1> HIDE DEF s
<1> QED BY <1>3, <1>4, <1>5, <1>6, <1>7, <1>8, <1>9 DEF Guarded

LEMMA NotTheLock ==
    ASSUME NEW t \in Threads, NEW what,
           At(t, what), what \notin {"lock", "unlock"} \/ Instruction(t).on # "c"
    PROVE  code[t] # <<>> /\ Instruction(t) \notin {Take, Give}
BY DEF At, Take, Give, Lock, Unlock

\* Before the rest of its program a thread does what concerns no lock.
LEMMA GuardedInsert ==
    ASSUME Guarded, NEW t \in Threads, code[t] # <<>>, Instruction(t) \notin {Take, Give},
           NEW s, Balanced(s), UNCHANGED <<owner, depth>>,
           \/ code' = [code EXCEPT ![t] = s \o Tail(@)]
           \/ code' = [code EXCEPT ![t] = Tail(@) \o s]
    PROVE  Guarded'
<1> DEFINE r == Tail(code[t])
<1>1. Program(r) /\ Net(r) = Net(code[t]) /\ Net(r) \in Nat
  BY RestNet, ProgramNet
<1>2. Program(s) /\ Net(s) = 0
  BY DEF Balanced
<1>3. Program(s \o r) /\ Net(s \o r) = Net(code[t])
  BY <1>1, <1>2, ConcatProgram
<1>4. Program(r \o s) /\ Net(r \o s) = Net(code[t])
  BY <1>1, <1>2, ConcatProgram
<1>5. CASE code' = [code EXCEPT ![t] = s \o Tail(@)]
  BY <1>3, <1>5, GuardedReplace
<1>6. CASE code' = [code EXCEPT ![t] = Tail(@) \o s]
  BY <1>4, <1>6, GuardedReplace
<1> QED BY <1>5, <1>6

LEMMA GuardedBegin ==
    ASSUME Guarded, NEW t \in Threads, code[t] = <<>>, NEW s, Balanced(s),
           code' = [code EXCEPT ![t] = s], UNCHANGED <<owner, depth>>
    PROVE  Guarded'
BY EmptyProgram, GuardedReplace DEF Balanced

LEMMA ThreadsAre == Reader \in Threads /\ Callbacks \in Threads /\ AppThreads \subseteq Threads
BY DEF Threads

LEMMA GuardedCall ==
    ASSUME Guarded, NEW t \in AppThreads, Call(t)
    PROVE  Guarded'
<1>1. PICK s \in AppPrograms : code' = [code EXCEPT ![t] = s]
  BY DEF Call, AppPrograms
<1>2. code[t] = <<>> /\ UNCHANGED <<owner, depth>>
  BY DEF Call, clock
<1> QED BY <1>1, <1>2, AllBalanced, ThreadsAre, GuardedBegin

LEMMA GuardedReceive ==
    ASSUME Guarded, ReaderReceives
    PROVE  Guarded'
<1>1. PICK s \in ReaderPrograms : code' = [code EXCEPT ![Reader] = s]
  BY DEF ReaderReceives, ReaderPrograms
<1>2. code[Reader] = <<>> /\ UNCHANGED <<owner, depth>>
  BY DEF ReaderReceives, clock
<1> QED BY <1>1, <1>2, AllBalanced, ThreadsAre, GuardedBegin

LEMMA CallbackIs ==
    ASSUME Asked, CallbackThread
    PROVE  \E s \in CallbackPrograms : code' = [code EXCEPT ![Callbacks] = s]
<1>1. Head(callbacks) \in Requests /\ (Head(callbacks).kind = "poll" => Head(callbacks).of \in AppThreads)
  BY DEF Asked, CallbackThread
<1> QED BY <1>1 DEF CallbackThread, CallbackPrograms

LEMMA GuardedCallback ==
    ASSUME Guarded, Asked, CallbackThread
    PROVE  Guarded'
<1>1. PICK s \in CallbackPrograms : code' = [code EXCEPT ![Callbacks] = s]
  BY CallbackIs
<1>2. code[Callbacks] = <<>> /\ UNCHANGED <<owner, depth>>
  BY DEF CallbackThread, clock
<1> QED BY <1>1, <1>2, AllBalanced, ThreadsAre, GuardedBegin

LEMMA GuardedStep ==
    ASSUME Guarded, NEW t \in Threads, Step(t)
    PROVE  Guarded'
<1> USE DEF clock
<1>1. Balanced(<<>>) /\ Balanced(DropHandler) /\ Balanced(<<Do("sleep")>>)
      /\ Balanced(<<Do("asleep")>>) /\ Balanced(<<Do("wait")>>)
  BY EmptyProgram, AllBalanced, BalancedDo DEF Balanced
<1>2. CASE CLockAcquire(t)
  BY <1>2, GuardedAcquire
<1>3. CASE CLockDrop(t)
  BY <1>3, GuardedDrop
<1>4. CASE MutexLock(t) \/ MutexUnlock(t)
  BY <1>4, NotTheLock, GuardedContinue DEF MutexLock, MutexUnlock
<1>5. CASE Request(t, "user") \/ Request(t, "poll")
  BY <1>5, NotTheLock, GuardedContinue DEF Request
<1>6. CASE AnswerRequest(t) \/ ReportError(t) \/ Sever(t) \/ Complete(t) \/ Notify(t)
  BY <1>6, NotTheLock, GuardedContinue DEF AnswerRequest, ReportError, Sever, Complete, Notify
<1>7. CASE Register(t)
  <2>1. PICK s \in {<<>>, DropHandler} : code' = [code EXCEPT ![t] = s \o Tail(@)]
    BY <1>7 DEF Register
  <2> QED BY <1>1, <1>7, <2>1, NotTheLock, GuardedInsert DEF Register
<1>8. CASE Forget(t)
  <2>1. PICK s \in {<<>>, DropHandler} : code' = [code EXCEPT ![t] = Tail(@) \o s]
    BY <1>8 DEF Forget
  <2> QED BY <1>1, <1>8, <2>1, NotTheLock, GuardedInsert DEF Forget
<1>9. CASE TestPredicate(t)
  <2>1. CASE t \in done
    <3>1. Continue(t)
      BY <1>9, <2>1 DEF TestPredicate, Continue
    <3> QED BY <1>9, <3>1, NotTheLock, GuardedContinue DEF TestPredicate
  <2>2. CASE t \notin done
    <3>1. code' = [code EXCEPT ![t] = <<Do("sleep")>> \o Tail(@)]
      BY <1>9, <2>2 DEF TestPredicate
    <3> QED BY <1>1, <1>9, <3>1, NotTheLock, GuardedInsert DEF TestPredicate
  <2> QED BY <2>1, <2>2
<1>10. CASE GoToSleep(t)
  BY <1>1, <1>10, NotTheLock, GuardedInsert DEF GoToSleep
<1>11. CASE WakeUp(t)
  BY <1>1, <1>11, NotTheLock, GuardedInsert DEF WakeUp
<1> QED BY <1>2, <1>3, <1>4, <1>5, <1>6, <1>7, <1>8, <1>9, <1>10, <1>11 DEF Step

LEMMA GuardedNext ==
    ASSUME Guarded, Asked, [Next]_vars
    PROVE  Guarded'
<1>1. CASE Timeout \/ UNCHANGED vars
  BY <1>1 DEF Timeout, vars, clock, Guarded
<1> QED BY <1>1, GuardedCall, GuardedReceive, GuardedCallback, GuardedStep DEF Next

-----------------------------------------------------------------------------
(* Types.  Only threads of the application poll and wait.                  *)

Passive == {x \in Instructions : x.do \notin {"poll", "wait", "sleep", "asleep"}}

Helpers == code[Reader] \in Seq(Passive) /\ code[Callbacks] \in Seq(Passive)

Blocked ==
    /\ queued \subseteq Threads /\ sleepers \subseteq AppThreads
    /\ held \in [Mutexes -> Threads \cup {NoThread}]
    /\ done \subseteq AppThreads /\ severed \in BOOLEAN /\ handler \in BOOLEAN
    /\ severed => pending = <<>>

Typed == Asked /\ Helpers /\ Blocked

LEMMA TypedInit == Init => Typed
<1> SUFFICES ASSUME Init PROVE Typed
  OBVIOUS
<1>1. Asked
  BY DEF Init, Asked
<1>2. code[Reader] = <<>> /\ code[Callbacks] = <<>>
  BY DEF Init, Threads
<1>3. Helpers
  BY <1>2 DEF Helpers
<1>4. Blocked
  BY DEF Init, Blocked
<1> QED BY <1>1, <1>3, <1>4 DEF Typed

LEMMA HelperPrograms ==
    /\ \A s \in ReaderPrograms \cup CallbackPrograms : s \in Seq(Passive)
    /\ DropHandler \in Seq(Passive)
<1>1. \A m \in Mutexes \cup {"c"} : Lock(m) \in Passive /\ Unlock(m) \in Passive
  BY DEF Passive, Instructions, Lock, Unlock
<1>2. \A d \in {"user", "notify", "answer", "report", "sever"} : Do(d) \in Passive
  BY DEF Passive, Instructions, Do
<1>3. \A t \in AppThreads : [do |-> "complete", on |-> t] \in Passive
  BY DEF Passive, Instructions
<1>4. "c" \in Mutexes \cup {"c"} /\ "app" \in Mutexes \cup {"c"} /\ "handlers" \in Mutexes \cup {"c"}
  BY DEF Mutexes
<1> HIDE DEF Passive
<1>5. ASSUME NEW m \in Mutexes \cup {"c"}, NEW s \in Seq(Passive)
      PROVE  Under(m, s) \in Seq(Passive)
  BY <1>1 DEF Under
<1>6. <<>> \in Seq(Passive) /\ \A x \in Passive : <<x>> \in Seq(Passive)
  OBVIOUS
<1>7. Under("c", <<>>) \in Seq(Passive) /\ Under("handlers", <<>>) \in Seq(Passive)
  BY <1>4, <1>5, <1>6
<1>8. Draw \in Seq(Passive)
  BY <1>4, <1>5, <1>7 DEF Draw
<1>9. UserCallback \in Seq(Passive)
  BY <1>2, <1>6, <1>8 DEF UserCallback
<1>10. \A t \in AppThreads : PollCallback(t) \in Seq(Passive)
  <2> TAKE t \in AppThreads
  <2> DEFINE x == [do |-> "complete", on |-> t]
             y == Do("notify")
  <2>1. x \in Passive /\ y \in Passive /\ PollCallback(t) = <<x, y>>
    BY <1>2, <1>3 DEF PollCallback
  <2> HIDE DEF x, y
  <2> QED BY <2>1
<1>11. \A d \in {"notify", "answer", "sever"} : Under("c", <<Do(d)>>) \in Seq(Passive)
  BY <1>2, <1>4, <1>5, <1>6
<1>12. Reply \in Seq(Passive) /\ VsyncDone \in Seq(Passive) /\ MarkDisconnected \in Seq(Passive)
  BY <1>2, <1>6, <1>11 DEF Reply, VsyncDone, MarkDisconnected
<1>13. UncapturedError \in Seq(Passive)
  <2>1. Under("handlers", <<>>) \o <<Do("report")>> \in Seq(Passive)
    BY <1>2, <1>6, <1>7
  <2>2. Under("c", Under("handlers", <<>>) \o <<Do("report")>>) \in Seq(Passive)
    BY <1>4, <1>5, <2>1
  <2> QED BY <1>2, <1>6, <2>2 DEF UncapturedError
<1> QED BY <1>7, <1>9, <1>10, <1>12, <1>13 DEF ReaderPrograms, CallbackPrograms, DropHandler

\* What a helper thread does next does not make it poll.
LEMMA HelpersStep ==
    ASSUME Guarded, Helpers, NEW t \in Threads, Step(t)
    PROVE  Helpers'
<1>1. ASSUME NEW u \in {Reader, Callbacks}
      PROVE  code'[u] \in Seq(Passive)
  <2>1. code[u] \in Seq(Passive)
    BY DEF Helpers
  <2>2. CASE u # t
    <3>1. code'[u] = code[u]
      BY <2>2, ThreadsAre DEF Step, CLockAcquire, CLockDrop, MutexLock, MutexUnlock, Request,
         AnswerRequest, ReportError, Sever, Register, Forget, Complete, Notify,
         TestPredicate, GoToSleep, WakeUp, Continue, Guarded
    <3> QED BY <2>1, <3>1
  <2>3. CASE u = t /\ code[u] # <<>>
    <3>1. Instruction(t) \in Passive /\ Tail(code[t]) \in Seq(Passive)
      BY <2>1, <2>3 DEF Instruction
    <3>2. ~At(t, "poll") /\ ~At(t, "wait") /\ ~At(t, "sleep") /\ ~At(t, "asleep")
      BY <3>1 DEF At, Passive
    <3>3. \/ code' = code
          \/ code' = [code EXCEPT ![t] = Tail(@)]
          \/ code' = [code EXCEPT ![t] = DropHandler \o Tail(@)]
          \/ code' = [code EXCEPT ![t] = <<>> \o Tail(@)]
          \/ code' = [code EXCEPT ![t] = Tail(@) \o DropHandler]
          \/ code' = [code EXCEPT ![t] = Tail(@) \o <<>>]
      BY <3>2 DEF Step, CLockAcquire, CLockDrop, MutexLock, MutexUnlock, Request,
         AnswerRequest, ReportError, Sever, Register, Forget, Complete, Notify,
         TestPredicate, GoToSleep, WakeUp, Continue
    <3>4. DropHandler \o Tail(code[t]) \in Seq(Passive) /\ Tail(code[t]) \o DropHandler \in Seq(Passive)
          /\ <<>> \o Tail(code[t]) \in Seq(Passive) /\ Tail(code[t]) \o <<>> \in Seq(Passive)
      BY <3>1, HelperPrograms
    <3> QED BY <2>1, <2>3, <3>1, <3>3, <3>4 DEF Guarded
  <2>4. CASE u = t /\ code[u] = <<>>
    BY <2>4 DEF Step, CLockAcquire, CLockDrop, MutexLock, MutexUnlock, Request,
       AnswerRequest, ReportError, Sever, Register, Forget, Complete, Notify,
       TestPredicate, GoToSleep, WakeUp, At
  <2> QED BY <2>2, <2>3, <2>4
<1> QED BY <1>1 DEF Helpers

LEMMA AskedStep ==
    ASSUME Guarded, Typed, NEW t \in Threads, Step(t)
    PROVE  Asked' /\ (severed' => pending' = <<>>)
<1> DEFINE Polls == {r \in Requests : r.kind = "poll" => r.of \in AppThreads}
<1>1. pending \in Seq(Polls) /\ callbacks \in Seq(Polls) /\ (severed => pending = <<>>)
  BY DEF Typed, Asked, Blocked
<1>2. CASE UNCHANGED <<pending, callbacks, severed>>
  BY <1>1, <1>2 DEF Asked
<1>3. ASSUME NEW r \in {"user", "poll"}, Request(t, r)
      PROVE  Asked' /\ (severed' => pending' = <<>>)
  <2> DEFINE request == [of |-> t, kind |-> r]
  <2>1. r = "poll" => t \in AppThreads
    <3> SUFFICES ASSUME r = "poll", t \notin AppThreads PROVE FALSE
      OBVIOUS
    <3>1. code[t] \in Seq(Passive) /\ code[t] # <<>> /\ Head(code[t]).do = "poll"
      BY <1>3 DEF Typed, Helpers, Threads, Request, At, Instruction
    <3>2. Head(code[t]) \in Passive
      BY <3>1
    <3> QED BY <3>1, <3>2 DEF Passive
  <2>2. request \in Polls
    BY <2>1 DEF Requests
  <2> HIDE DEF Polls, request
  <2>3. Append(pending, request) \in Seq(Polls) /\ Append(callbacks, request) \in Seq(Polls)
    BY <1>1, <2>2
  <2>4. /\ severed' = severed
        /\ \/ severed /\ callbacks' = Append(callbacks, request) /\ pending' = pending
           \/ ~severed /\ pending' = Append(pending, request) /\ callbacks' = callbacks
    BY <1>3 DEF Request, request
  <2> QED BY <1>1, <2>3, <2>4 DEF Asked, Polls
<1>4. CASE AnswerRequest(t)
  <2>1. PICK i \in DOMAIN pending : /\ pending' = RemoveAt(pending, i)
                                    /\ callbacks' = Append(callbacks, pending[i])
    BY <1>4 DEF AnswerRequest
  <2>2. severed' = severed
    BY <1>4 DEF AnswerRequest
  <2> HIDE DEF Polls
  <2>3. pending[i] \in Polls /\ i \in 1 .. Len(pending) /\ Len(pending) \in Nat
    BY <1>1, <2>1
  <2>4. SubSeq(pending, 1, i - 1) \in Seq(Polls) /\ SubSeq(pending, i + 1, Len(pending)) \in Seq(Polls)
    BY <1>1, <2>3
  <2>5. pending' \in Seq(Polls)
    BY <2>1, <2>4 DEF RemoveAt
  <2>6. callbacks' \in Seq(Polls)
    BY <1>1, <2>1, <2>3
  <2>7. pending # <<>>
    BY <1>1, <2>3
  <2> QED BY <1>1, <2>2, <2>5, <2>6, <2>7 DEF Asked, Polls
<1>5. CASE ReportError(t)
  <2> DEFINE report == [of |-> t, kind |-> "user"]
  <2>1. report \in Polls
    BY DEF Requests
  <2>2. /\ severed' = severed /\ pending' = pending
        /\ callbacks' = Append(callbacks, report) \/ callbacks' = callbacks
    BY <1>5 DEF ReportError
  <2> HIDE DEF Polls, report
  <2>3. callbacks' \in Seq(Polls)
    BY <1>1, <2>1, <2>2
  <2> QED BY <1>1, <2>2, <2>3 DEF Asked, Polls
<1>6. CASE Sever(t)
  <2> HIDE DEF Polls
  <2>1. Reverse(pending) \in Seq(Polls)
    <3>1. Len(pending) \in Nat /\ \A i \in 1 .. Len(pending) : pending[(Len(pending) - i) + 1] \in Polls
      BY <1>1
    <3>2. Reverse(pending) \in [1 .. Len(pending) -> Polls]
      BY <3>1 DEF Reverse
    <3> QED BY <3>1, <3>2
  <2>2. callbacks' = callbacks \o Reverse(pending) /\ pending' = <<>>
    BY <1>6 DEF Sever
  <2>3. callbacks' \in Seq(Polls) /\ pending' \in Seq(Polls)
    BY <1>1, <2>1, <2>2
  <2> QED BY <2>2, <2>3 DEF Asked, Polls
<1> QED BY <1>2, <1>3, <1>4, <1>5, <1>6 DEF Step, requestVars, CLockAcquire, CLockDrop, MutexLock,
        MutexUnlock, Register, Forget, Complete, Notify, TestPredicate, GoToSleep, WakeUp

LEMMA BlockedStep ==
    ASSUME Guarded, Typed, NEW t \in Threads, Step(t)
    PROVE  Blocked'
<1> USE DEF Blocked
<1>0. Blocked /\ (severed' => pending' = <<>>)
  BY AskedStep DEF Typed
<1>1. CASE CLockAcquire(t)
  BY <1>0, <1>1 DEF CLockAcquire, requestVars
<1>2. CASE CLockDrop(t)
  BY <1>0, <1>2 DEF CLockDrop, requestVars
<1>3. CASE MutexLock(t) \/ MutexUnlock(t)
  BY <1>0, <1>3 DEF MutexLock, MutexUnlock, clock, requestVars
<1>4. CASE Request(t, "user") \/ Request(t, "poll") \/ AnswerRequest(t) \/ ReportError(t)
           \/ Notify(t)
  BY <1>0, <1>4 DEF Request, AnswerRequest, ReportError, Notify, clock, requestVars
<1>5. CASE Sever(t)
  BY <1>0, <1>5 DEF Sever, clock
<1>6. CASE Register(t) \/ Forget(t)
  BY <1>0, <1>6 DEF Register, Forget, clock, requestVars
<1>7. CASE Complete(t)
  <2>1. Instruction(t) \in Instructions /\ Instruction(t).do = "complete"
    BY <1>7, RestProgram DEF Complete, At, Instruction, Guarded
  <2>2. Instruction(t).on \in AppThreads
    BY <2>1 DEF Instructions
  <2>3. done' \subseteq AppThreads
    BY <1>0, <1>7, <2>2 DEF Complete
  <2> QED BY <1>0, <1>7, <2>3 DEF Complete, clock
<1>8. CASE TestPredicate(t) \/ WakeUp(t)
  BY <1>0, <1>8 DEF TestPredicate, WakeUp, clock, requestVars
<1>9. CASE GoToSleep(t)
  <2>1. t \in AppThreads
    <3> SUFFICES ASSUME t \notin AppThreads PROVE FALSE
      OBVIOUS
    <3>1. code[t] \in Seq(Passive) /\ code[t] # <<>> /\ Head(code[t]).do = "sleep"
      BY <1>9 DEF Typed, Helpers, Threads, GoToSleep, At, Instruction
    <3>2. Head(code[t]) \in Passive
      BY <3>1
    <3> QED BY <3>1, <3>2 DEF Passive
  <2> QED BY <1>0, <1>9, <2>1 DEF GoToSleep, clock, requestVars
<1> QED BY <1>1, <1>2, <1>3, <1>4, <1>5, <1>6, <1>7, <1>8, <1>9 DEF Step

LEMMA TypedNext ==
    ASSUME Guarded, Typed, [Next]_vars
    PROVE  Typed'
<1> USE DEF clock, requestVars
<1>1. ASSUME NEW t \in AppThreads, Call(t)
      PROVE  Typed'
  <2>1. code'[Reader] = code[Reader] /\ code'[Callbacks] = code[Callbacks]
    <3>1. t # Reader /\ t # Callbacks
      BY WgpuThreadsAssumption
    <3> QED BY <1>1, <3>1, ThreadsAre DEF Call, Guarded
  <2> QED BY <1>1, <2>1 DEF Call, Typed, Asked, Helpers, Blocked
<1>2. CASE ReaderReceives
  <2>1. PICK s \in ReaderPrograms : code' = [code EXCEPT ![Reader] = s]
    BY <1>2 DEF ReaderReceives, ReaderPrograms
  <2>2. s \in Seq(Passive)
    BY HelperPrograms
  <2>3. Helpers'
    BY <2>1, <2>2, ThreadsAre, WgpuThreadsAssumption DEF Helpers, Typed, Guarded
  <2> QED BY <1>2, <2>3 DEF ReaderReceives, Typed, Asked, Blocked
<1>3. CASE CallbackThread
  <2>1. PICK s \in CallbackPrograms : code' = [code EXCEPT ![Callbacks] = s]
    BY <1>3, CallbackIs DEF Typed
  <2>2. s \in Seq(Passive)
    BY HelperPrograms
  <2>3. Helpers'
    BY <2>1, <2>2, ThreadsAre, WgpuThreadsAssumption DEF Helpers, Typed, Guarded
  <2>4. Asked'
    BY <1>3 DEF CallbackThread, Typed, Asked
  <2> QED BY <1>3, <2>3, <2>4 DEF CallbackThread, Typed, Blocked
<1>4. ASSUME NEW t \in Threads, Step(t)
      PROVE  Typed'
  BY <1>4, AskedStep, HelpersStep, BlockedStep DEF Typed
<1>5. CASE Timeout \/ UNCHANGED vars
  BY <1>5 DEF Timeout, vars, Typed, Asked, Helpers, Blocked
<1> QED BY <1>1, <1>2, <1>3, <1>4, <1>5 DEF Next

LEMMA GuardsInvariant == Spec => [](Guarded /\ Typed)
<1>1. Init => Guarded /\ Typed
  BY GuardedInit, TypedInit
<1>2. Guarded /\ Typed /\ [Next]_vars => (Guarded /\ Typed)'
  BY GuardedNext, TypedNext DEF Typed
<1> QED BY <1>1, <1>2, PTL DEF Spec

(* Every variable keeps its type; in particular nobody but a thread of the *)
(* application ever sleeps for progress, and nothing is asked of a client  *)
(* that is gone (api.rs: Device::poll; lib.rs: wait_until).                *)
THEOREM TypeCorrect == Spec => []TypeOK
<1>1. Guarded /\ Typed => TypeOK
  <2> SUFFICES ASSUME Guarded, Typed PROVE TypeOK
    OBVIOUS
  <2> DEFINE Polls == {r \in Requests : r.kind = "poll" => r.of \in AppThreads}
  <2>1. pending \in Seq(Polls) /\ callbacks \in Seq(Polls)
    BY DEF Typed, Asked
  <2>2. \A q \in Seq(Polls) : q \in Seq(Requests)
    OBVIOUS
  <2> HIDE DEF Polls
  <2> QED BY <2>1, <2>2 DEF TypeOK, Guarded, Typed, Blocked
<1> QED BY <1>1, GuardsInvariant, PTL

(* The C lock belongs to the thread with guards to drop, however deeply    *)
(* its calls and callbacks take it again (lib.rs: CLock).                  *)
THEOREM LockCounted == Spec => []OwnedByItsGuards
<1>1. Guarded => OwnedByItsGuards
  BY NetIsGuards DEF Guarded, OwnedByItsGuards
<1> QED BY <1>1, GuardsInvariant, PTL

-----------------------------------------------------------------------------
(* Wake-ups.                                                               *)

Wanting(t) == At(t, "lock") /\ Instruction(t).on = "c"

SleepersWait == SleepersAreWoken /\ \A t \in queued : t \in Threads /\ Wanting(t)

LEMMA SleepersNext ==
    ASSUME Guarded, Typed, SleepersWait, [Next]_vars
    PROVE  SleepersWait'
<1> USE DEF clock
(* A thread that wants the C lock and sleeps, or is awake while no one     *)
(* takes the lock, goes on wanting it.                                     *)
<1>1. ASSUME NEW t \in Threads, code[t] # <<>>, code'[t] = code[t]
      PROVE  \A w : At(t, w)' = At(t, w) /\ Instruction(t)' = Instruction(t)
  BY <1>1 DEF At, Instruction
<1>2. ASSUME UNCHANGED <<owner, queued>>, \A t \in Threads : Wanting(t) => code'[t] = code[t]
      PROVE  SleepersWait'
  <2>1. \A t \in Threads : Wanting(t) => Wanting(t)'
    BY <1>2 DEF Wanting, At, Instruction
  <2> QED BY <1>2, <2>1 DEF SleepersWait, SleepersAreWoken, Wanting
<1>3. ASSUME NEW t \in AppThreads, Call(t)
      PROVE  SleepersWait'
  <2>1. \A u \in Threads : Wanting(u) => code'[u] = code[u]
    BY <1>3 DEF Call, Wanting, At, Guarded
  <2> QED BY <1>2, <1>3, <2>1 DEF Call
<1>4. CASE ReaderReceives \/ CallbackThread
  <2>1. \A u \in Threads : Wanting(u) => code'[u] = code[u]
    BY <1>4 DEF ReaderReceives, CallbackThread, Wanting, At, Guarded
  <2> QED BY <1>2, <1>4, <2>1 DEF ReaderReceives, CallbackThread
<1>5. ASSUME NEW t \in Threads, CLockAcquire(t)
      PROVE  SleepersWait'
  <2>1. CASE owner \in {NoThread, t}
    <3>1. owner' = t /\ t # NoThread /\ queued' = queued /\ t \notin queued
      BY <1>5, <2>1, WgpuThreadsAssumption DEF CLockAcquire
    <3>2. \A u \in Threads \ {t} : code'[u] = code[u]
      BY <1>5, <2>1 DEF CLockAcquire, Continue, Guarded
    <3>3. \A u \in queued' : u \in Threads /\ Wanting(u)'
      BY <3>1, <3>2 DEF SleepersWait, Wanting, At, Instruction
    <3> QED BY <3>1, <3>3 DEF SleepersWait, SleepersAreWoken
  <2>2. CASE owner \notin {NoThread, t}
    <3>1. owner' = owner /\ code' = code /\ queued' = queued \cup {t} /\ Wanting(t)
      BY <1>5, <2>2 DEF CLockAcquire, Wanting
    <3>2. \A u \in queued' : u \in Threads /\ Wanting(u)'
      BY <3>1 DEF SleepersWait, Wanting, At, Instruction
    <3> QED BY <2>2, <3>1, <3>2 DEF SleepersWait, SleepersAreWoken
  <2> QED BY <2>1, <2>2
<1>6. ASSUME NEW t \in Threads, CLockDrop(t)
      PROVE  SleepersWait'
  <2>1. ~Wanting(t)
    BY <1>6 DEF CLockDrop, Wanting, At
  <2>2. \A u \in Threads \ {t} : code'[u] = code[u]
    BY <1>6 DEF CLockDrop, Continue, Guarded
  <2>3. \A u \in Threads : Wanting(u) => Wanting(u)'
    BY <2>1, <2>2 DEF Wanting, At, Instruction
  <2>4. CASE depth' # 0
    <3>1. UNCHANGED <<owner, queued>>
      BY <1>6, <2>4 DEF CLockDrop
    <3> QED BY <2>3, <3>1 DEF SleepersWait, SleepersAreWoken, Wanting
  <2>5. CASE depth' = 0 /\ queued = {}
    <3>1. queued' = {}
      BY <1>6, <2>5 DEF CLockDrop
    <3> QED BY <3>1 DEF SleepersWait, SleepersAreWoken
  <2>6. CASE depth' = 0 /\ queued # {}
    <3>1. PICK woken \in queued : queued' = queued \ {woken}
      BY <1>6, <2>6 DEF CLockDrop
    <3>2. woken \in Threads \ queued' /\ Wanting(woken)'
      BY <2>3, <3>1 DEF SleepersWait
    <3>3. \A u \in queued' : u \in Threads /\ Wanting(u)'
      BY <2>3, <3>1 DEF SleepersWait
    <3> QED BY <3>2, <3>3 DEF SleepersWait, SleepersAreWoken, Wanting
  <2> QED BY <2>4, <2>5, <2>6
<1>7. ASSUME NEW t \in Threads, Step(t), ~CLockAcquire(t), ~CLockDrop(t)
      PROVE  SleepersWait'
  <2>1. UNCHANGED <<owner, queued>> /\ ~Wanting(t)
    BY <1>7 DEF Step, MutexLock, MutexUnlock, Request, AnswerRequest, ReportError, Sever, Register,
       Forget, Complete, Notify, TestPredicate, GoToSleep, WakeUp, Wanting, At
  <2>2. \A u \in Threads \ {t} : code'[u] = code[u]
    BY <1>7 DEF Step, MutexLock, MutexUnlock, Request, AnswerRequest, ReportError, Sever, Register,
       Forget, Complete, Notify, TestPredicate, GoToSleep, WakeUp, Continue, Guarded
  <2> QED BY <1>2, <2>1, <2>2
<1>8. CASE Timeout \/ UNCHANGED vars
  BY <1>2, <1>8 DEF Timeout, vars
<1> QED BY <1>3, <1>4, <1>5, <1>6, <1>7, <1>8 DEF Next

(* A guard that frees the C lock wakes one of the threads asleep on it:    *)
(* while anyone sleeps the lock is owned or somebody is about to take it   *)
(* (lib.rs: CLockGuard::drop).                                             *)
THEOREM LockHandedOver == Spec => []SleepersAreWoken
<1>1. Init => SleepersWait
  BY DEF Init, SleepersWait, SleepersAreWoken
<1>2. Guarded /\ Typed /\ SleepersWait /\ [Next]_vars => SleepersWait'
  BY SleepersNext
<1>3. SleepersWait => SleepersAreWoken
  BY DEF SleepersWait
<1> QED BY <1>1, <1>2, <1>3, GuardsInvariant, PTL DEF Spec

-----------------------------------------------------------------------------
(* The order of the locks: a mutex of the application and the table of     *)
(* surfaces are taken before the C lock, the table of handlers after it,   *)
(* and whoever has the table of handlers takes nothing.  A thread that     *)
(* takes a lock of one kind runs one of a few programs, which says what it *)
(* has and what it will take.                                              *)

OuterLocks == {Lock("app"), Lock("surfaces")}
OuterPrograms == {SurfaceCall, Draw, UserCallback}
TakesOuterFirst(s) == s \in OuterPrograms \cup Seq(Instructions \ OuterLocks)

HandlerPrograms == {OnUncapturedError, DropDevice, Tail(DropDevice),
                    UncapturedError, Tail(UncapturedError)}
TakesHandlersLast(s) == s \in HandlerPrograms \cup Seq(Instructions \ {Lock("handlers")})

Registering == {OnUncapturedError, Tail(OnUncapturedError)}
RegistersOnce(s) == s \in Registering \cup Seq(Instructions \ {Do("register")})

\* What a thread that has an outer mutex, or the table of handlers, runs.
HasOuter(m, s) ==
    \/ s # <<>> /\ Head(s) = Unlock(m)
    \/ s # <<>> /\ Tail(s) # <<>> /\ Head(s) = Give /\ Head(Tail(s)) = Unlock(m)
    \/ /\ s # <<>> /\ Tail(s) # <<>> /\ Tail(Tail(s)) # <<>>
       /\ Head(s) = Take /\ Head(Tail(s)) = Give /\ Head(Tail(Tail(s))) = Unlock(m)

HasHandlers(s) ==
    \/ s # <<>> /\ Head(s) = Unlock("handlers")
    \/ /\ s # <<>> /\ Tail(s) # <<>>
       /\ Head(s) \in {Do("register"), Do("forget")} /\ Head(Tail(s)) = Unlock("handlers")

Disciplined(t) ==
    /\ TakesOuterFirst(code[t]) /\ TakesHandlersLast(code[t]) /\ RegistersOnce(code[t])
    /\ \A m \in {"app", "surfaces"} : held[m] = t => HasOuter(m, code[t])
    /\ held["handlers"] = t => HasHandlers(code[t])

(* No handler is replaced: who registers one finds none, and is alone.     *)
FirstHandler ==
    \A t \in Threads : code[t] \in Registering =>
        ~handler /\ \A u \in Threads : code[u] \in Registering => u = t

Ordered == FirstHandler /\ \A t \in Threads : Disciplined(t)

(* The programs that take those locks, instruction by instruction.        *)
Then(x, s) == <<x>> \o s

LEMMA ThenIs ==
    ASSUME NEW S, NEW x \in S, NEW s \in Seq(S)
    PROVE  /\ Then(x, s) \in Seq(S) /\ Then(x, s) # <<>>
           /\ Head(Then(x, s)) = x /\ Tail(Then(x, s)) = s
BY DEF Then

LEMMA Concats ==
    /\ \A s \in Seq(Instructions) : s \o <<>> = s /\ <<>> \o s = s
    /\ \A s, r \in Seq(Instructions) : s \o r \in Seq(Instructions)
    /\ \A s, r, q \in Seq(Instructions) : (s \o r) \o q = s \o (r \o q)
<1>1. \A s \in Seq(Instructions) : s \o <<>> = s /\ <<>> \o s = s
  BY ConcatEmptySeq
<1>2. \A s, r \in Seq(Instructions) : s \o r \in Seq(Instructions)
  OBVIOUS
<1>3. \A s, r, q \in Seq(Instructions) : (s \o r) \o q = s \o (r \o q)
  BY ConcatAssociative
<1> QED BY <1>1, <1>2, <1>3

Joined(x, y) == x \o y

LEMMA JoinedTwice ==
    ASSUME NEW S, NEW x \in Seq(S), NEW y \in Seq(S), NEW z \in Seq(S)
    PROVE  Joined(Joined(x, y), z) = Joined(x, Joined(y, z)) /\ Joined(x, y) \in Seq(S)
BY ConcatAssociative DEF Joined

LEMMA Regrouped ==
    ASSUME NEW S, NEW l \in Seq(S), NEW s \in Seq(S), NEW u \in Seq(S), NEW r \in Seq(S)
    PROVE  Joined(Joined(Joined(l, s), u), r) = Joined(l, Joined(s, Joined(u, r)))
<1>1. Joined(l, s) \in Seq(S) /\ Joined(u, r) \in Seq(S)
  BY JoinedTwice
<1>2. Joined(Joined(Joined(l, s), u), r) = Joined(Joined(l, s), Joined(u, r))
  BY <1>1, JoinedTwice
<1>3. Joined(Joined(l, s), Joined(u, r)) = Joined(l, Joined(s, Joined(u, r)))
  BY <1>1, JoinedTwice
<1> QED BY <1>2, <1>3

LEMMA UnderThen ==
    ASSUME NEW m \in Mutexes \cup {"c"}, NEW s \in Seq(Instructions), NEW r \in Seq(Instructions)
    PROVE  Under(m, s) \o r = Then(Lock(m), s \o Then(Unlock(m), r))
<1> DEFINE l == <<Lock(m)>>
           u == <<Unlock(m)>>
<1>1. l \in Seq(Instructions) /\ u \in Seq(Instructions)
  BY DEF Lock, Unlock, Instructions
<1>2. /\ Under(m, s) \o r = Joined(Joined(Joined(l, s), u), r)
      /\ Then(Lock(m), s \o Then(Unlock(m), r)) = Joined(l, Joined(s, Joined(u, r)))
  BY DEF Under, Then, Joined
<1> HIDE DEF l, u
<1> QED BY <1>1, <1>2, Regrouped

LEMMA UnderAlone ==
    ASSUME NEW m \in Mutexes \cup {"c"}, NEW s \in Seq(Instructions)
    PROVE  Under(m, s) \in Seq(Instructions)
           /\ Under(m, s) = Then(Lock(m), s \o Then(Unlock(m), <<>>))
<1>1. Under(m, s) \in Seq(Instructions)
  BY DEF Under, Lock, Unlock, Instructions
<1>2. Under(m, s) \o <<>> = Under(m, s) /\ <<>> \in Seq(Instructions)
  BY <1>1, Concats
<1>3. Under(m, s) \o <<>> = Then(Lock(m), s \o Then(Unlock(m), <<>>))
  BY <1>2, UnderThen
<1> QED BY <1>1, <1>2, <1>3

InnerCall(r) == Then(Take, Then(Give, r))

LEMMA ProgramsAre ==
    /\ SurfaceCall = Then(Lock("surfaces"), InnerCall(Then(Unlock("surfaces"), <<>>)))
    /\ Draw = Then(Lock("app"), InnerCall(Then(Unlock("app"), <<>>)))
    /\ UserCallback = Then(Lock("app"), InnerCall(Then(Unlock("app"), Then(Do("notify"), <<>>))))
    /\ OnUncapturedError =
           Then(Lock("handlers"), Then(Do("register"), Then(Unlock("handlers"), <<>>)))
    /\ DropDevice =
           Then(Take, Then(Lock("handlers"), Then(Do("forget"), Then(Unlock("handlers"),
                Then(Give, <<>>)))))
    /\ UncapturedError =
           Then(Take, Then(Lock("handlers"), Then(Unlock("handlers"), Then(Do("report"),
                Then(Give, Then(Do("notify"), <<>>))))))
    /\ DropHandler = InnerCall(<<>>)
<1>1. /\ {"c", "app", "surfaces", "handlers"} \subseteq Mutexes \cup {"c"}
      /\ Lock("c") = Take /\ Unlock("c") = Give /\ Take \in Instructions /\ Give \in Instructions
      /\ \A m \in {"app", "surfaces", "handlers"} : Unlock(m) \in Instructions
      /\ \A d \in {"register", "forget", "report", "notify"} : Do(d) \in Instructions
  BY DEF Mutexes, Take, Give, Lock, Unlock, Do, Instructions
<1>2. \A x \in Instructions, s \in Seq(Instructions) : Then(x, s) \in Seq(Instructions)
  BY ThenIs
<1>3. \A r \in Seq(Instructions) : r \o <<>> = r /\ <<>> \o r = r
  BY Concats
<1>4. <<>> \in Seq(Instructions) /\ \A x : <<x>> = Then(x, <<>>)
  BY DEF Then
<1>5. ASSUME NEW r \in Seq(Instructions)
      PROVE  Under("c", <<>>) \o r = InnerCall(r)
  <2>1. Then(Give, r) \in Seq(Instructions) /\ "c" \in Mutexes \cup {"c"}
    BY <1>1, <1>2
  <2>2. Under("c", <<>>) \o r = Then(Take, <<>> \o Then(Give, r))
    BY <1>1, <1>4, <2>1, UnderThen
  <2> QED BY <1>3, <2>1, <2>2 DEF InnerCall
<1>6. Under("c", <<>>) \in Seq(Instructions)
  BY <1>1, <1>4, UnderAlone
<1>7. ASSUME NEW m \in {"app", "surfaces"}
      PROVE  Under(m, Under("c", <<>>)) = Then(Lock(m), InnerCall(Then(Unlock(m), <<>>)))
  <2>1. m \in Mutexes \cup {"c"} /\ Then(Unlock(m), <<>>) \in Seq(Instructions)
    BY <1>1, <1>2, <1>4
  <2> QED BY <1>5, <1>6, <2>1, UnderAlone
<1>8. SurfaceCall = Then(Lock("surfaces"), InnerCall(Then(Unlock("surfaces"), <<>>)))
  BY <1>7 DEF SurfaceCall
<1>9. Draw = Then(Lock("app"), InnerCall(Then(Unlock("app"), <<>>)))
  BY <1>7 DEF Draw
<1>10. UserCallback = Then(Lock("app"), InnerCall(Then(Unlock("app"), Then(Do("notify"), <<>>))))
  <2> DEFINE r == Then(Do("notify"), <<>>)
  <2>1. r \in Seq(Instructions) /\ Then(Unlock("app"), r) \in Seq(Instructions)
    BY <1>1, <1>2, <1>4
  <2>2. UserCallback = Under("app", Under("c", <<>>)) \o r
    BY <1>4 DEF UserCallback, Draw
  <2> HIDE DEF r
  <2>3. Under("app", Under("c", <<>>)) \o r
            = Then(Lock("app"), Under("c", <<>>) \o Then(Unlock("app"), r))
    BY <1>1, <1>6, <2>1, UnderThen
  <2> QED BY <1>5, <2>1, <2>2, <2>3 DEF r
<1>11. ASSUME NEW m \in Mutexes \cup {"c"}, NEW x \in Instructions, NEW r \in Seq(Instructions)
       PROVE  Under(m, <<x>>) \o r = Then(Lock(m), Then(x, Then(Unlock(m), r)))
  <2>1. Unlock(m) \in Instructions /\ <<x>> \in Seq(Instructions)
    BY DEF Unlock, Instructions
  <2>2. Then(Unlock(m), r) \in Seq(Instructions)
    BY <1>2, <2>1
  <2>3. <<x>> \o Then(Unlock(m), r) = Then(x, Then(Unlock(m), r))
    BY DEF Then
  <2>4. Under(m, <<x>>) \o r = Then(Lock(m), <<x>> \o Then(Unlock(m), r))
    BY <2>1, UnderThen
  <2> QED BY <2>3, <2>4
<1>12. OnUncapturedError =
           Then(Lock("handlers"), Then(Do("register"), Then(Unlock("handlers"), <<>>)))
  <2> DEFINE x == Do("register")
             s == Under("handlers", <<x>>)
  <2>1. x \in Instructions /\ <<x>> \in Seq(Instructions) /\ "handlers" \in Mutexes \cup {"c"}
    BY <1>1
  <2>2. s \in Seq(Instructions)
    BY <2>1, UnderAlone
  <2>3. s \o <<>> = s
    BY <1>3, <2>2
  <2>4. s \o <<>> = Then(Lock("handlers"), Then(x, Then(Unlock("handlers"), <<>>)))
    BY <1>4, <1>11, <2>1
  <2> QED BY <2>3, <2>4 DEF OnUncapturedError
<1>13. DropDevice =
           Then(Take, Then(Lock("handlers"), Then(Do("forget"), Then(Unlock("handlers"),
                Then(Give, <<>>)))))
  <2> DEFINE s == Under("handlers", <<Do("forget")>>)
             r == Then(Give, <<>>)
  <2>0. /\ Do("forget") \in Instructions /\ <<Do("forget")>> \in Seq(Instructions)
        /\ "handlers" \in Mutexes \cup {"c"} /\ "c" \in Mutexes \cup {"c"}
    BY <1>1
  <2>1. s \in Seq(Instructions) /\ r \in Seq(Instructions)
    BY <1>1, <1>2, <1>4, <2>0, UnderAlone
  <2>2. s \o r = Then(Lock("handlers"), Then(Do("forget"), Then(Unlock("handlers"), r)))
    BY <1>11, <2>0, <2>1
  <2>3. DropDevice = Then(Take, s \o r)
    BY <1>1, <2>1, UnderAlone DEF DropDevice
  <2> QED BY <2>2, <2>3
<1>14. UncapturedError =
           Then(Take, Then(Lock("handlers"), Then(Unlock("handlers"), Then(Do("report"),
                Then(Give, Then(Do("notify"), <<>>))))))
  <2> DEFINE r == Then(Do("notify"), <<>>)
             g == Then(Give, r)
             d == <<Do("report")>>
             h == Under("handlers", <<>>)
  <2>1. r \in Seq(Instructions) /\ g \in Seq(Instructions) /\ d \in Seq(Instructions)
        /\ h \in Seq(Instructions) /\ h \o d \in Seq(Instructions)
    <3>1. r \in Seq(Instructions) /\ d \in Seq(Instructions)
      BY <1>1, <1>2, <1>4
    <3>2. g \in Seq(Instructions)
      BY <1>1, <1>2, <3>1
    <3>3. "handlers" \in Mutexes \cup {"c"}
      BY <1>1
    <3>4. h \in Seq(Instructions)
      BY <1>4, <3>3, UnderAlone
    <3>5. h \o d \in Seq(Instructions)
      BY <3>1, <3>4, Concats
    <3> QED BY <3>1, <3>2, <3>4, <3>5
  <2>2. UncapturedError = Under("c", h \o d) \o r
    BY <1>4 DEF UncapturedError
  <2>3. Under("c", h \o d) \o r = Then(Take, (h \o d) \o g)
    BY <1>1, <2>1, UnderThen
  <2>4. (h \o d) \o g = h \o (d \o g)
    BY <2>1, Concats
  <2>5. d \o g = Then(Do("report"), g) /\ Then(Do("report"), g) \in Seq(Instructions)
    BY <1>1, <1>2, <2>1 DEF Then
  <2>6. Then(Unlock("handlers"), Then(Do("report"), g)) \in Seq(Instructions)
    BY <1>1, <1>2, <2>5
  <2>7. h \o Then(Do("report"), g)
            = Then(Lock("handlers"), Then(Unlock("handlers"), Then(Do("report"), g)))
    <3>1. h \o Then(Do("report"), g)
              = Then(Lock("handlers"), <<>> \o Then(Unlock("handlers"), Then(Do("report"), g)))
      BY <1>1, <1>4, <2>5, UnderThen
    <3> QED BY <1>3, <2>6, <3>1
  <2> QED BY <2>2, <2>3, <2>4, <2>5, <2>7
<1>15. DropHandler = InnerCall(<<>>)
  BY <1>3, <1>4, <1>5, <1>6 DEF DropHandler
<1> QED BY <1>8, <1>9, <1>10, <1>12, <1>13, <1>14, <1>15

(* A program is made of the instructions it is written with.               *)
LEMMA ProgramsIn ==
    ASSUME NEW S, Take \in S, Give \in S, \A t \in AppThreads : [do |-> "complete", on |-> t] \in S,
           \A d \in {"user", "poll", "wait", "forget", "notify", "answer", "report", "sever"} :
               Do(d) \in S
    PROVE  /\ {MapAsync, Submit, Poll, DropHandler, Reply, VsyncDone, MarkDisconnected} \subseteq Seq(S)
           /\ \A t \in AppThreads : PollCallback(t) \in Seq(S)
           /\ (\A m \in {"app", "surfaces"} : {Lock(m), Unlock(m)} \subseteq S)
                  => {SurfaceCall, Draw, UserCallback} \subseteq Seq(S)
           /\ {Lock("handlers"), Unlock("handlers")} \subseteq S
                  => {DropDevice, UncapturedError} \subseteq Seq(S)
           /\ {Lock("handlers"), Unlock("handlers"), Do("register")} \subseteq S
                  => OnUncapturedError \in Seq(S)
<1>1. Lock("c") = Take /\ Unlock("c") = Give
  BY DEF Take, Give
<1>2. ASSUME NEW m, Lock(m) \in S, Unlock(m) \in S, NEW s \in Seq(S)
      PROVE  Under(m, s) \in Seq(S)
  BY <1>2 DEF Under
<1>3. <<>> \in Seq(S) /\ \A x \in S : <<x>> \in Seq(S)
  OBVIOUS
<1>4. \A s, r \in Seq(S) : s \o r \in Seq(S)
  OBVIOUS
<1>5. \A s \in Seq(S) : Under("c", s) \in Seq(S)
  BY <1>1, <1>2
<1>6. \A d \in {"user", "poll", "wait", "forget", "notify", "answer", "report", "sever"} :
          <<Do(d)>> \in Seq(S) /\ Under("c", <<Do(d)>>) \in Seq(S)
  BY <1>3, <1>5
<1>7. Under("c", <<>>) \in Seq(S)
  BY <1>3, <1>5
<1>8. MapAsync \in Seq(S) /\ Submit \in Seq(S) /\ DropHandler \in Seq(S)
  BY <1>5, <1>6, <1>7 DEF MapAsync, Submit, DropHandler
<1>9. Poll \in Seq(S)
  BY <1>4, <1>6, <1>7 DEF Poll
<1>10. Reply \in Seq(S) /\ VsyncDone \in Seq(S) /\ MarkDisconnected \in Seq(S)
  BY <1>4, <1>6 DEF Reply, VsyncDone, MarkDisconnected
<1>11. ASSUME NEW t \in AppThreads
       PROVE  PollCallback(t) \in Seq(S)
  <2> DEFINE x == [do |-> "complete", on |-> t]
  <2>1. x \in S /\ PollCallback(t) = <<x>> \o <<Do("notify")>>
    BY DEF PollCallback
  <2> HIDE DEF x
  <2> QED BY <1>3, <1>4, <1>6, <2>1
<1>12. ASSUME \A m \in {"app", "surfaces"} : {Lock(m), Unlock(m)} \subseteq S
       PROVE  {SurfaceCall, Draw, UserCallback} \subseteq Seq(S)
  <2>1. SurfaceCall \in Seq(S) /\ Draw \in Seq(S)
    BY <1>2, <1>7, <1>12 DEF SurfaceCall, Draw
  <2>2. UserCallback \in Seq(S)
    BY <1>4, <1>6, <2>1 DEF UserCallback
  <2> QED BY <2>1, <2>2
<1>13. ASSUME {Lock("handlers"), Unlock("handlers")} \subseteq S
       PROVE  {DropDevice, UncapturedError} \subseteq Seq(S)
  <2>1. Under("handlers", <<>>) \in Seq(S) /\ Under("handlers", <<Do("forget")>>) \in Seq(S)
    BY <1>2, <1>3, <1>6, <1>13
  <2>2. DropDevice \in Seq(S)
    BY <1>5, <2>1 DEF DropDevice
  <2>3. Under("handlers", <<>>) \o <<Do("report")>> \in Seq(S)
    BY <1>4, <1>6, <2>1
  <2>4. UncapturedError \in Seq(S)
    BY <1>4, <1>5, <1>6, <2>3 DEF UncapturedError
  <2> QED BY <2>2, <2>4
<1>14. ASSUME {Lock("handlers"), Unlock("handlers"), Do("register")} \subseteq S
       PROVE  OnUncapturedError \in Seq(S)
  BY <1>2, <1>3, <1>14 DEF OnUncapturedError
<1> QED BY <1>8, <1>9, <1>10, <1>11, <1>12, <1>13, <1>14

Inner == Instructions \ OuterLocks
NoHandlers == Instructions \ {Lock("handlers")}
NoRegister == Instructions \ {Do("register")}

LEMMA SetsAre ==
    /\ \A m \in {"app", "surfaces"} : {Lock(m), Unlock(m)} \subseteq NoHandlers \cap NoRegister
    /\ \A m \in {"app", "surfaces"} : Unlock(m) \in Inner
    /\ {Take, Give, Unlock("handlers")} \subseteq Inner \cap NoHandlers \cap NoRegister
    /\ Lock("handlers") \in Inner \cap NoRegister
    /\ Do("register") \in Inner \cap NoHandlers
    /\ \A d \in {"user", "poll", "wait", "sleep", "asleep", "forget", "notify", "answer", "report",
                 "sever"} : Do(d) \in Inner \cap NoHandlers \cap NoRegister
    /\ \A t \in AppThreads :
           [do |-> "complete", on |-> t] \in Inner \cap NoHandlers \cap NoRegister
    /\ \A S \in {Inner, NoHandlers, NoRegister} : \A s \in Seq(S) : s \in Seq(Instructions)
<1>1. \A m \in {"app", "surfaces"} : {Lock(m), Unlock(m)} \subseteq NoHandlers \cap NoRegister
  BY DEF NoHandlers, NoRegister, Instructions, Mutexes, Lock, Unlock, Do
<1>2. \A m \in {"app", "surfaces"} : Unlock(m) \in Inner
  BY DEF Inner, OuterLocks, Instructions, Mutexes, Lock, Unlock
<1>3. {Take, Give, Unlock("handlers")} \subseteq Inner \cap NoHandlers \cap NoRegister
  BY DEF Inner, OuterLocks, NoHandlers, NoRegister, Instructions, Mutexes, Lock, Unlock, Do, Take, Give
<1>4. Lock("handlers") \in Inner \cap NoRegister /\ Do("register") \in Inner \cap NoHandlers
  BY DEF Inner, OuterLocks, NoHandlers, NoRegister, Instructions, Mutexes, Lock, Unlock, Do
<1>5. \A d \in {"user", "poll", "wait", "sleep", "asleep", "forget", "notify", "answer", "report",
                "sever"} : Do(d) \in Inner \cap NoHandlers \cap NoRegister
  BY DEF Inner, OuterLocks, NoHandlers, NoRegister, Instructions, Lock, Do
<1>6. \A t \in AppThreads :
          [do |-> "complete", on |-> t] \in Inner \cap NoHandlers \cap NoRegister
  BY DEF Inner, OuterLocks, NoHandlers, NoRegister, Instructions, Lock, Do
<1>7. \A S \in {Inner, NoHandlers, NoRegister} : S \subseteq Instructions
  BY DEF Inner, NoHandlers, NoRegister
<1>8. \A S \in {Inner, NoHandlers, NoRegister} : \A s \in Seq(S) : s \in Seq(Instructions)
  BY <1>7
<1> QED BY <1>1, <1>2, <1>3, <1>4, <1>5, <1>6, <1>8

(* Every program a thread starts with keeps the order. *)
LEMMA FreshOrdered ==
    ASSUME NEW s \in AppPrograms \cup ReaderPrograms \cup CallbackPrograms
    PROVE  /\ TakesOuterFirst(s) /\ TakesHandlersLast(s) /\ RegistersOnce(s)
           /\ s \in Seq(NoRegister) \/ s = OnUncapturedError
<1> DEFINE In(S) == s \in Seq(S)
<1>1. TakesOuterFirst(s)
  <2>1. s \in OuterPrograms \/ s \in Seq(Inner)
    BY SetsAre, ProgramsIn DEF AppPrograms, ReaderPrograms, CallbackPrograms, OuterPrograms
  <2> QED BY <2>1 DEF TakesOuterFirst, Inner
<1>2. TakesHandlersLast(s)
  <2>1. s \in HandlerPrograms \/ s \in Seq(NoHandlers)
    BY SetsAre, ProgramsIn DEF AppPrograms, ReaderPrograms, CallbackPrograms, HandlerPrograms
  <2> QED BY <2>1 DEF TakesHandlersLast, NoHandlers
<1>3. s \in Seq(NoRegister) \/ s = OnUncapturedError
  BY SetsAre, ProgramsIn DEF AppPrograms, ReaderPrograms, CallbackPrograms
<1>4. RegistersOnce(s)
  BY <1>3 DEF RegistersOnce, Registering, NoRegister
<1> QED BY <1>1, <1>2, <1>3, <1>4

(* The programs with an outer mutex. *)
LEMMA OuterAre ==
    ASSUME NEW s \in OuterPrograms
    PROVE  \E m \in {"app", "surfaces"}, r \in Seq(Inner) :
               s = Then(Lock(m), InnerCall(Then(Unlock(m), r)))
<1>1. <<>> \in Seq(Inner) /\ Then(Do("notify"), <<>>) \in Seq(Inner)
  <2>1. <<>> \in Seq(Inner) /\ Do("notify") \in Inner
    BY SetsAre
  <2> QED BY <2>1, ThenIs
<1> QED BY <1>1, ProgramsAre DEF OuterPrograms

LEMMA OuterFirst ==
    ASSUME NEW s \in OuterPrograms
    PROVE  /\ s # <<>> /\ Tail(s) \in Seq(Inner)
           /\ \E m \in {"app", "surfaces"} : Head(s) = Lock(m) /\ HasOuter(m, Tail(s))
<1>1. PICK m \in {"app", "surfaces"}, r \in Seq(Inner) :
          s = Then(Lock(m), InnerCall(Then(Unlock(m), r)))
  BY OuterAre
<1> DEFINE a == Then(Unlock(m), r)
           b == Then(Give, a)
           c == Then(Take, b)
<1>2. a \in Seq(Inner) /\ a # <<>> /\ Head(a) = Unlock(m)
  BY SetsAre, ThenIs
<1>3. b \in Seq(Inner) /\ b # <<>> /\ Head(b) = Give /\ Tail(b) = a
  <2> HIDE DEF a
  <2> QED BY <1>2, SetsAre, ThenIs
<1>4. c \in Seq(Inner) /\ c # <<>> /\ Head(c) = Take /\ Tail(c) = b
  <2> HIDE DEF b
  <2> QED BY <1>3, SetsAre, ThenIs
<1>5. s = Then(Lock(m), c)
  BY <1>1 DEF InnerCall
<1> HIDE DEF a, b, c
<1>6. c \in Seq(Instructions) /\ Lock(m) \in Instructions
  BY <1>4, SetsAre DEF NoHandlers
<1>7. s # <<>> /\ Head(s) = Lock(m) /\ Tail(s) = c
  BY <1>5, <1>6, ThenIs
<1> QED BY <1>2, <1>3, <1>4, <1>7 DEF HasOuter

(* The programs that take the table of handlers. *)
LEMMA HandlersLast ==
    ASSUME NEW s \in HandlerPrograms
    PROVE  /\ s # <<>>
           /\ \/ Head(s) = Take /\ Tail(s) \in HandlerPrograms
              \/ /\ Head(s) = Lock("handlers") /\ Tail(s) \in Seq(NoHandlers)
                 /\ HasHandlers(Tail(s))
<1> DEFINE u == Unlock("handlers")
           l == Lock("handlers")
<1>1. u \in NoHandlers /\ l \in Instructions /\ Take \in NoHandlers /\ Take \in Instructions
      /\ Give \in NoHandlers /\ <<>> \in Seq(NoHandlers)
      /\ \A d \in {"register", "forget", "report", "notify"} : Do(d) \in NoHandlers
  <2>1. u \in NoHandlers /\ Take \in NoHandlers /\ Give \in NoHandlers
    BY SetsAre
  <2>2. l \in Instructions /\ Take \in Instructions
    BY SetsAre DEF NoRegister
  <2>3. \A d \in {"register", "forget", "report", "notify"} : Do(d) \in NoHandlers
    BY SetsAre
  <2> QED BY <2>1, <2>2, <2>3
<1>2. \A x \in NoHandlers, r \in Seq(NoHandlers) :
          Then(x, r) \in Seq(NoHandlers) /\ Then(x, r) # <<>> /\ Head(Then(x, r)) = x /\ Tail(Then(x, r)) = r
  BY ThenIs
<1>3. \A x \in Instructions, r \in Seq(Instructions) :
          Then(x, r) \in Seq(Instructions) /\ Then(x, r) # <<>> /\ Head(Then(x, r)) = x /\ Tail(Then(x, r)) = r
  BY ThenIs
<1>4. \A r \in Seq(NoHandlers) : r \in Seq(Instructions)
  BY SetsAre
<1> HIDE DEF u, l
<1>5. ASSUME NEW r \in Seq(NoHandlers), NEW d \in {"register", "forget"}
      PROVE  /\ Then(l, Then(Do(d), Then(u, r))) \in Seq(Instructions)
             /\ Then(l, Then(Do(d), Then(u, r))) # <<>>
             /\ Head(Then(l, Then(Do(d), Then(u, r)))) = l
             /\ Tail(Then(l, Then(Do(d), Then(u, r)))) \in Seq(NoHandlers)
             /\ HasHandlers(Tail(Then(l, Then(Do(d), Then(u, r)))))
  <2> DEFINE a == Then(u, r)
             b == Then(Do(d), a)
  <2>1. a \in Seq(NoHandlers) /\ a # <<>> /\ Head(a) = u
    BY <1>1, <1>2
  <2> HIDE DEF a
  <2>2. b \in Seq(NoHandlers) /\ b # <<>> /\ Head(b) = Do(d) /\ Tail(b) = a
    BY <1>1, <1>2, <2>1
  <2> HIDE DEF b
  <2>3. HasHandlers(b)
    BY <2>1, <2>2 DEF HasHandlers, u
  <2>4. b \in Seq(Instructions)
    BY <1>4, <2>2
  <2>5. Then(l, b) \in Seq(Instructions) /\ Then(l, b) # <<>> /\ Head(Then(l, b)) = l /\ Tail(Then(l, b)) = b
    BY <1>1, <1>3, <2>4
  <2> QED BY <2>2, <2>3, <2>5 DEF a, b
<1>6. CASE s = OnUncapturedError
  <2>1. s = Then(l, Then(Do("register"), Then(u, <<>>)))
    BY <1>6, ProgramsAre DEF l, u
  <2> QED BY <1>1, <1>5, <2>1 DEF l
<1> DEFINE d == Then(l, Then(Do("forget"), Then(u, Then(Give, <<>>))))
           r == Then(Do("report"), Then(Give, Then(Do("notify"), <<>>)))
           e == Then(l, Then(u, r))
<1>7. Then(Give, <<>>) \in Seq(NoHandlers) /\ r \in Seq(NoHandlers)
  BY <1>1, <1>2
<1>8. /\ d \in Seq(Instructions) /\ d # <<>> /\ Head(d) = l
      /\ Tail(d) \in Seq(NoHandlers) /\ HasHandlers(Tail(d))
  BY <1>5, <1>7
<1>9. /\ e \in Seq(Instructions) /\ e # <<>> /\ Head(e) = l
      /\ Tail(e) \in Seq(NoHandlers) /\ HasHandlers(Tail(e))
  <2> HIDE DEF r
  <2>1. Then(u, r) \in Seq(NoHandlers) /\ Then(u, r) # <<>> /\ Head(Then(u, r)) = u
    BY <1>1, <1>2, <1>7
  <2>2. HasHandlers(Then(u, r))
    BY <2>1 DEF HasHandlers, u
  <2> QED BY <1>1, <1>3, <1>4, <2>1, <2>2
<1>10. DropDevice = Then(Take, d) /\ UncapturedError = Then(Take, e)
  BY ProgramsAre DEF d, e, r, l, u
<1> HIDE DEF d, e
<1>11. /\ DropDevice # <<>> /\ Head(DropDevice) = Take /\ Tail(DropDevice) = d
       /\ UncapturedError # <<>> /\ Head(UncapturedError) = Take /\ Tail(UncapturedError) = e
  BY <1>1, <1>3, <1>8, <1>9, <1>10
<1>12. CASE s \in {DropDevice, UncapturedError}
  BY <1>11, <1>12 DEF HandlerPrograms
<1>13. CASE s \in {Tail(DropDevice), Tail(UncapturedError)}
  BY <1>8, <1>9, <1>11, <1>13 DEF l
<1> QED BY <1>6, <1>12, <1>13 DEF HandlerPrograms

(* The programs that register a handler. *)
LEMMA RegisteringIs ==
    ASSUME NEW s \in Registering
    PROVE  /\ s # <<>> /\ s \in Seq(Instructions) /\ s \notin Seq(NoRegister)
           /\ Contains(s, Do("register"))
           /\ \/ Head(s) = Lock("handlers") /\ Tail(s) \in Registering
              \/ Head(s) = Do("register") /\ Tail(s) \in Seq(NoRegister)
<1> DEFINE a == Then(Unlock("handlers"), <<>>)
           b == Then(Do("register"), a)
           c == Then(Lock("handlers"), b)
<1>1. a \in Seq(NoRegister) /\ a \in Seq(Instructions)
  <2>1. Unlock("handlers") \in NoRegister /\ <<>> \in Seq(NoRegister)
    BY SetsAre
  <2>2. a \in Seq(NoRegister)
    BY <2>1, ThenIs
  <2> QED BY <2>2, SetsAre
<1> HIDE DEF a
<1>2. /\ b \in Seq(Instructions) /\ b # <<>> /\ Head(b) = Do("register") /\ Tail(b) = a
  BY <1>1, SetsAre, ThenIs DEF Inner
<1> HIDE DEF b
<1>3. c \in Seq(Instructions) /\ c # <<>> /\ Head(c) = Lock("handlers") /\ Tail(c) = b
  BY <1>2, SetsAre, ThenIs DEF Inner
<1>4. OnUncapturedError = c
  BY ProgramsAre DEF a, b, c
<1> HIDE DEF c
<1>5. Len(b) \in Nat /\ Len(b) >= 1 /\ b[1] = Do("register")
  BY <1>2
<1>6. Len(c) >= 2 /\ Len(c) \in Nat /\ c[2] = Do("register")
  BY <1>2, <1>3, <1>5
<1>7. Contains(b, Do("register")) /\ Contains(c, Do("register"))
  <2>1. 1 \in 1 .. Len(b) /\ 2 \in 1 .. Len(c)
    BY <1>5, <1>6
  <2> QED BY <1>5, <1>6, <2>1 DEF Contains
<1>8. \A q \in Seq(NoRegister) : ~Contains(q, Do("register"))
  BY DEF Contains, NoRegister
<1> QED BY <1>1, <1>2, <1>3, <1>4, <1>7, <1>8 DEF Registering

(* Going on with the rest of a program keeps the order. *)
LEMMA RestOrdered ==
    ASSUME NEW s \in Seq(Instructions), s # <<>>
    PROVE  /\ TakesOuterFirst(s) => TakesOuterFirst(Tail(s))
           /\ TakesHandlersLast(s) => TakesHandlersLast(Tail(s))
           /\ RegistersOnce(s) => RegistersOnce(Tail(s))
           /\ RegistersOnce(s) /\ Tail(s) \in Registering => s \in Registering
<1>1. \A S : s \in Seq(S) => Tail(s) \in Seq(S)
  OBVIOUS
<1>2. TakesOuterFirst(s) => TakesOuterFirst(Tail(s))
  BY <1>1, OuterFirst DEF TakesOuterFirst, Inner
<1>3. TakesHandlersLast(s) => TakesHandlersLast(Tail(s))
  BY <1>1, HandlersLast DEF TakesHandlersLast, NoHandlers
<1>4. RegistersOnce(s) => RegistersOnce(Tail(s))
  BY <1>1, RegisteringIs DEF RegistersOnce, NoRegister
<1>5. RegistersOnce(s) /\ Tail(s) \in Registering => s \in Registering
  BY <1>1, RegisteringIs DEF RegistersOnce, NoRegister
<1> QED BY <1>2, <1>3, <1>4, <1>5

(* What the first instruction of a program says about the program. *)
LEMMA FirstSays ==
    ASSUME NEW s \in Seq(Instructions), s # <<>>
    PROVE  /\ TakesOuterFirst(s) /\ Head(s) \in OuterLocks => s \in OuterPrograms
           /\ TakesOuterFirst(s) /\ Head(s).do # "lock" => s \in Seq(Inner)
           /\ TakesHandlersLast(s) /\ Head(s) = Lock("handlers") => s \in HandlerPrograms
           /\ TakesHandlersLast(s) /\ Head(s).do # "lock" => s \in Seq(NoHandlers)
           /\ RegistersOnce(s) /\ Head(s) = Do("register") => s \in Registering
           /\ RegistersOnce(s) /\ Head(s).do \notin {"lock", "register"} => s \in Seq(NoRegister)
<1>1. \A S : s \in Seq(S) => Head(s) \in S
  OBVIOUS
<1>2. /\ \A m : Lock(m).do = "lock"
      /\ Take.do = "lock" /\ Do("register").do = "register"
  BY DEF Lock, Take, Do
<1>3. TakesOuterFirst(s) /\ Head(s) \in OuterLocks => s \in OuterPrograms
  BY <1>1 DEF TakesOuterFirst
<1>4. TakesOuterFirst(s) /\ Head(s).do # "lock" => s \in Seq(Inner)
  BY <1>2, OuterFirst DEF TakesOuterFirst, Inner
<1>5. TakesHandlersLast(s) /\ Head(s) = Lock("handlers") => s \in HandlerPrograms
  BY <1>1 DEF TakesHandlersLast
<1>6. TakesHandlersLast(s) /\ Head(s).do # "lock" => s \in Seq(NoHandlers)
  BY <1>2, HandlersLast DEF TakesHandlersLast, NoHandlers
<1>7. RegistersOnce(s) /\ Head(s) = Do("register") => s \in Registering
  BY <1>1 DEF RegistersOnce
<1>8. RegistersOnce(s) /\ Head(s).do \notin {"lock", "register"} => s \in Seq(NoRegister)
  BY <1>2, RegisteringIs DEF RegistersOnce, NoRegister
<1> QED BY <1>3, <1>4, <1>5, <1>6, <1>7, <1>8

(* What a program says about the mutexes its thread has. *)
LEMMA HasIs ==
    ASSUME NEW s
    PROVE  /\ \A m : HasOuter(m, s) =>
                  s # <<>> /\ Head(s) \in {Unlock(m), Give, Take}
                  /\ (Head(s) # Unlock(m) => HasOuter(m, Tail(s)))
           /\ HasHandlers(s) =>
                  s # <<>> /\ Head(s) \in {Unlock("handlers"), Do("register"), Do("forget")}
                  /\ (Head(s) # Unlock("handlers") =>
                         Tail(s) # <<>> /\ Head(Tail(s)) = Unlock("handlers"))
BY DEF HasOuter, HasHandlers

LEMMA OrderedReplace ==
    ASSUME Ordered, Guarded, NEW t \in Threads, NEW s, code' = [code EXCEPT ![t] = s],
           TakesOuterFirst(s), TakesHandlersLast(s), RegistersOnce(s),
           \/ s \in Registering => code[t] \in Registering
           \/ ~handler /\ \A u \in Threads : code[u] \notin Registering,
           \/ handler' \in {handler, FALSE}
           \/ s \notin Registering /\ \A u \in Threads \ {t} : code[u] \notin Registering,
           \A m \in Mutexes, u \in Threads \ {t} : held'[m] = u => held[m] = u,
           \A m \in {"app", "surfaces"} : held'[m] = t => HasOuter(m, s),
           held'["handlers"] = t => HasHandlers(s)
    PROVE  Ordered'
<1>1. code'[t] = s /\ \A u \in Threads \ {t} : code'[u] = code[u]
  BY DEF Guarded
<1>2. {"app", "surfaces", "handlers"} \subseteq Mutexes
  BY DEF Mutexes
<1>3. ASSUME NEW u \in Threads
      PROVE  Disciplined(u)'
  <2>1. CASE u = t
    BY <1>1, <2>1 DEF Disciplined
  <2>2. CASE u # t
    BY <1>1, <1>2, <2>2 DEF Disciplined, Ordered
  <2> QED BY <2>1, <2>2
<1>4. FirstHandler'
  <2> SUFFICES ASSUME NEW u \in Threads, code'[u] \in Registering
               PROVE  ~handler' /\ \A v \in Threads : code'[v] \in Registering => v = u
    BY DEF FirstHandler
  <2>1. code[u] \in Registering
        \/ (u = t /\ ~handler /\ \A v \in Threads : code[v] \notin Registering)
    BY <1>1
  <2>2. ~handler /\ \A v \in Threads : code[v] \in Registering => v = u
    BY <2>1 DEF Ordered, FirstHandler
  <2>3. ~handler'
    BY <1>1, <2>2
  <2>4. \A v \in Threads : code'[v] \in Registering => v = u
    BY <1>1, <2>1, <2>2
  <2> QED BY <2>3, <2>4
<1> QED BY <1>3, <1>4 DEF Ordered

LEMMA OrderedSame ==
    ASSUME Ordered, UNCHANGED <<code, held, handler>>
    PROVE  Ordered'
BY DEF Ordered, FirstHandler, Disciplined

LEMMA OrderedInit == Init => Ordered
<1> SUFFICES ASSUME Init PROVE Ordered
  OBVIOUS
<1>1. \A t \in Threads : code[t] = <<>> /\ \A m \in Mutexes : held[m] # t
  BY WgpuThreadsAssumption DEF Init
<1>2. <<>> \in Seq(Inner) /\ <<>> \in Seq(NoHandlers) /\ <<>> \in Seq(NoRegister)
  OBVIOUS
<1>3. {"app", "surfaces", "handlers"} \subseteq Mutexes
  BY DEF Mutexes
<1>4. \A t \in Threads : Disciplined(t)
  BY <1>1, <1>2, <1>3 DEF Disciplined, TakesOuterFirst, TakesHandlersLast, RegistersOnce,
     Inner, NoHandlers, NoRegister
<1>5. FirstHandler
  BY <1>1, RegisteringIs DEF FirstHandler
<1> QED BY <1>4, <1>5 DEF Ordered

\* A thread that is idle begins a program.
LEMMA OrderedBegin ==
    ASSUME Ordered, Guarded, NEW t \in Threads, code[t] = <<>>,
           NEW s \in AppPrograms \cup ReaderPrograms \cup CallbackPrograms,
           s = OnUncapturedError => ~handler /\ \A u \in Threads : code[u] \notin Registering,
           code' = [code EXCEPT ![t] = s], UNCHANGED <<held, handler>>
    PROVE  Ordered'
<1>1. TakesOuterFirst(s) /\ TakesHandlersLast(s) /\ RegistersOnce(s)
  BY FreshOrdered
<1>2. \/ s \in Registering => code[t] \in Registering
      \/ ~handler /\ \A u \in Threads : code[u] \notin Registering
  BY FreshOrdered, RegisteringIs
<1>3. ~HasHandlers(<<>>) /\ \A m : ~HasOuter(m, <<>>)
  BY HasIs
<1>4. held["handlers"] # t /\ \A m \in {"app", "surfaces"} : held[m] # t
  BY <1>3 DEF Ordered, Disciplined
<1> QED BY <1>1, <1>2, <1>4, OrderedReplace

\* A thread goes on, and no mutex is given back.
LEMMA OrderedContinue ==
    ASSUME Ordered, Guarded, NEW t \in Threads, code[t] # <<>>,
           \A m \in Mutexes : Instruction(t) # Unlock(m), Continue(t), UNCHANGED <<held, handler>>
    PROVE  Ordered'
<1> DEFINE s == code[t]
<1>1. s \in Seq(Instructions) /\ Disciplined(t)
  BY DEF Guarded, Ordered
<1>2. TakesOuterFirst(Tail(s)) /\ TakesHandlersLast(Tail(s)) /\ RegistersOnce(Tail(s))
      /\ (Tail(s) \in Registering => s \in Registering)
  BY <1>1, RestOrdered DEF Disciplined
<1>3. {"app", "surfaces", "handlers"} \subseteq Mutexes
  BY DEF Mutexes
<1>4. \A m \in {"app", "surfaces"} : held[m] = t => HasOuter(m, Tail(s))
  BY <1>1, <1>3, HasIs DEF Disciplined, Instruction
<1>5. held["handlers"] = t => HasHandlers(Tail(s))
  BY <1>1, <1>3, HasIs DEF Disciplined, Instruction, HasHandlers
<1>6. code' = [code EXCEPT ![t] = Tail(s)]
  BY DEF Continue
<1> QED BY <1>2, <1>4, <1>5, <1>6, OrderedReplace

LEMMA OrderedMutex ==
    ASSUME Ordered, Guarded, Blocked, NEW t \in Threads, MutexLock(t) \/ MutexUnlock(t)
    PROVE  Ordered'
<1> DEFINE s == code[t]
           m == Instruction(t).on
<1>1. s # <<>> /\ s \in Seq(Instructions) /\ Head(s) \in Instructions /\ Disciplined(t)
      /\ Head(s).do \in {"lock", "unlock"} /\ m # "c" /\ m = Head(s).on
  BY RestProgram DEF MutexLock, MutexUnlock, At, Guarded, Ordered, Instruction
<1>2. m \in Mutexes
  BY <1>1 DEF Instructions, Mutexes
<1>3. TakesOuterFirst(Tail(s)) /\ TakesHandlersLast(Tail(s)) /\ RegistersOnce(Tail(s))
      /\ (Tail(s) \in Registering => s \in Registering)
  BY <1>1, RestOrdered DEF Disciplined
<1>4. code' = [code EXCEPT ![t] = Tail(s)] /\ handler' = handler
  BY DEF MutexLock, MutexUnlock, Continue
<1>5. held \in [Mutexes -> Threads \cup {NoThread}] /\ {"app", "surfaces", "handlers"} \subseteq Mutexes
  BY DEF Blocked, Mutexes
<1>6. CASE MutexLock(t)
  <2>1. Head(s) = Lock(m) /\ held' = [held EXCEPT ![m] = t]
    <3>1. Head(s).do = "lock"
      BY <1>6 DEF MutexLock, At, Instruction
    <3>2. Head(s) = Lock(m)
      BY <1>1, <3>1 DEF Instructions, Lock
    <3> QED BY <1>6, <3>2 DEF MutexLock
  <2>2. Lock(m) \notin {Take, Give, Do("register"), Do("forget")} /\ \A n : Lock(m) # Unlock(n)
    BY <1>1 DEF Lock, Unlock, Take, Give, Do
  <2>3. ~HasHandlers(s) /\ \A n : ~HasOuter(n, s)
    BY <2>1, <2>2, HasIs
  <2>4. \A n \in {"app", "surfaces", "handlers"} : held[n] # t
    BY <1>1, <2>3 DEF Disciplined
  <2>5. \A n \in Mutexes : held'[n] = t => n = m
    BY <1>2, <1>5, <2>1, <2>4 DEF Mutexes
  <2>6. m \in {"app", "surfaces"} => HasOuter(m, Tail(s))
    <3> SUFFICES ASSUME m \in {"app", "surfaces"} PROVE HasOuter(m, Tail(s))
      OBVIOUS
    <3>1. s \in OuterPrograms
      BY <1>1, <2>1, FirstSays DEF Disciplined, OuterLocks
    <3>2. PICK n \in {"app", "surfaces"} : Head(s) = Lock(n) /\ HasOuter(n, Tail(s))
      BY <3>1, OuterFirst
    <3>3. n = m
      BY <2>1, <3>2 DEF Lock
    <3> QED BY <3>2, <3>3
  <2>7. m = "handlers" => HasHandlers(Tail(s))
    <3> SUFFICES ASSUME m = "handlers" PROVE HasHandlers(Tail(s))
      OBVIOUS
    <3>1. s \in HandlerPrograms
      BY <1>1, <2>1, FirstSays DEF Disciplined
    <3>2. Head(s) # Take
      BY <2>1, <2>2
    <3> QED BY <3>1, <3>2, HandlersLast
  <2>8. \A n \in Mutexes, u \in Threads \ {t} : held'[n] = u => held[n] = u
    BY <1>2, <1>5, <2>1
  <2>9. \A n \in {"app", "surfaces"} : held'[n] = t => HasOuter(n, Tail(s))
    BY <1>5, <2>5, <2>6
  <2>10. held'["handlers"] = t => HasHandlers(Tail(s))
    BY <1>5, <2>5, <2>7
  <2> HIDE DEF m
  <2> QED BY <1>3, <1>4, <2>8, <2>9, <2>10, OrderedReplace
<1>7. CASE MutexUnlock(t)
  <2>1. Head(s) = Unlock(m) /\ held' = [held EXCEPT ![m] = NoThread]
    <3>1. Head(s).do = "unlock"
      BY <1>7 DEF MutexUnlock, At, Instruction
    <3>2. Head(s) = Unlock(m)
      BY <1>1, <3>1 DEF Instructions, Unlock
    <3> QED BY <1>7, <3>2 DEF MutexUnlock
  <2>2. t # NoThread /\ \A u \in Threads : u # NoThread
    BY WgpuThreadsAssumption
  <2>3. \A n \in Mutexes, u \in Threads : held'[n] = u => n # m /\ held[n] = u
    BY <1>2, <1>5, <2>1, <2>2
  <2>4. \A n : n # m => Head(s) # Unlock(n)
    BY <2>1 DEF Unlock
  <2>5. \A n \in {"app", "surfaces"} : held'[n] = t => HasOuter(n, Tail(s))
    BY <1>1, <1>5, <2>3, <2>4, HasIs DEF Disciplined
  <2>6. held'["handlers"] = t => HasHandlers(Tail(s))
    <3> SUFFICES ASSUME held'["handlers"] = t PROVE FALSE
      OBVIOUS
    <3>1. HasHandlers(s) /\ Head(s) # Unlock("handlers")
      BY <1>1, <1>5, <2>3, <2>4 DEF Disciplined
    <3>2. Head(s) \in {Do("register"), Do("forget")}
      BY <3>1, HasIs
    <3> QED BY <2>1, <3>2 DEF Unlock, Do
  <2> HIDE DEF m
  <2> QED BY <1>3, <1>4, <1>5, <2>3, <2>5, <2>6, OrderedReplace
<1> QED BY <1>6, <1>7

\* A thread puts another instruction in the place of one that does not lock.
LEMMA OrderedInsert ==
    ASSUME Ordered, Guarded, NEW t \in Threads, code[t] # <<>>,
           Instruction(t).do \in {"wait", "sleep", "asleep"}, NEW d \in {"wait", "sleep", "asleep"},
           code' = [code EXCEPT ![t] = <<Do(d)>> \o Tail(@)], UNCHANGED <<held, handler>>
    PROVE  Ordered'
<1> DEFINE s == code[t]
           x == Do(d)
           q == <<x>> \o Tail(s)
<1>1. s # <<>> /\ s \in Seq(Instructions) /\ Disciplined(t)
      /\ Head(s).do \notin {"lock", "unlock", "register", "forget"}
  BY DEF Guarded, Ordered, Instruction
<1>2. s \in Seq(Inner) /\ s \in Seq(NoHandlers) /\ s \in Seq(NoRegister)
  BY <1>1, FirstSays DEF Disciplined
<1>3. x \in Inner /\ x \in NoHandlers /\ x \in NoRegister
  BY SetsAre
<1>4. code' = [code EXCEPT ![t] = q]
  OBVIOUS
<1> HIDE DEF x
<1>5. \A S : s \in Seq(S) /\ x \in S => q \in Seq(S)
  BY <1>1
<1> HIDE DEF q
<1>6. q \in Seq(Inner) /\ q \in Seq(NoHandlers) /\ q \in Seq(NoRegister)
  BY <1>2, <1>3, <1>5
<1>7. q \notin Registering
  BY <1>6, RegisteringIs
<1>8. Head(s) \notin {Take, Give, Do("register"), Do("forget")} /\ \A n : Head(s) # Unlock(n)
  BY <1>1 DEF Take, Give, Lock, Unlock, Do
<1>9. held["handlers"] # t /\ \A m \in {"app", "surfaces"} : held[m] # t
  BY <1>1, <1>8, HasIs DEF Disciplined
<1>10. TakesOuterFirst(q) /\ TakesHandlersLast(q) /\ RegistersOnce(q)
  BY <1>6 DEF TakesOuterFirst, TakesHandlersLast, RegistersOnce, Inner, NoHandlers, NoRegister
<1> QED BY <1>4, <1>7, <1>9, <1>10, OrderedReplace

LEMMA OrderedRegister ==
    ASSUME Ordered, Guarded, NEW t \in Threads, Register(t)
    PROVE  Ordered'
<1> DEFINE s == code[t]
<1>1. s # <<>> /\ s \in Seq(Instructions) /\ Head(s) \in Instructions /\ Disciplined(t)
      /\ Head(s).do = "register"
  BY RestProgram DEF Register, At, Guarded, Ordered, Instruction
<1>2. Head(s) = Do("register")
  BY <1>1 DEF Instructions, Do
<1>3. s \in Registering
  BY <1>1, <1>2, FirstSays DEF Disciplined
<1>4. ~handler /\ \A u \in Threads \ {t} : code[u] \notin Registering
  BY <1>3 DEF Ordered, FirstHandler
<1>5. code' = [code EXCEPT ![t] = Tail(s)] /\ held' = held
  <2>1. Tail(s) \in Seq(Instructions) /\ <<>> \o Tail(s) = Tail(s)
    BY <1>1
  <2> QED BY <1>4, <2>1 DEF Register
<1>6. Tail(s) \notin Registering
  <2>1. Head(s) # Lock("handlers")
    BY <1>2 DEF Lock, Do
  <2>2. Tail(s) \in Seq(NoRegister)
    BY <1>3, <2>1, RegisteringIs
  <2> QED BY <2>2, RegisteringIs
<1>7. TakesOuterFirst(Tail(s)) /\ TakesHandlersLast(Tail(s)) /\ RegistersOnce(Tail(s))
  BY <1>1, RestOrdered DEF Disciplined
<1>8. Head(s) \notin {Take, Give} /\ \A n : Head(s) # Unlock(n)
  BY <1>2 DEF Take, Give, Lock, Unlock, Do
<1>9. \A m \in {"app", "surfaces"} : held[m] = t => HasOuter(m, Tail(s))
  BY <1>1, <1>8, HasIs DEF Disciplined
<1>10. held["handlers"] = t => HasHandlers(Tail(s))
  BY <1>1, <1>8, HasIs DEF Disciplined, HasHandlers
<1> QED BY <1>4, <1>5, <1>6, <1>7, <1>9, <1>10, OrderedReplace

LEMMA OrderedForget ==
    ASSUME Ordered, Guarded, NEW t \in Threads, Forget(t)
    PROVE  Ordered'
<1> DEFINE s == code[t]
<1>1. s # <<>> /\ s \in Seq(Instructions) /\ Disciplined(t) /\ Head(s).do = "forget"
  BY DEF Forget, At, Guarded, Ordered, Instruction
<1>2. s \in Seq(Inner) /\ s \in Seq(NoHandlers) /\ s \in Seq(NoRegister)
  BY <1>1, FirstSays DEF Disciplined
<1>3. PICK p \in {<<>>, DropHandler} : code' = [code EXCEPT ![t] = Tail(s) \o p]
  BY DEF Forget
<1> DEFINE q == Tail(s) \o p
<1>4. \A S \in {Inner, NoHandlers, NoRegister} : p \in Seq(S)
  <2>1. \A S \in {Inner, NoHandlers, NoRegister} : DropHandler \in Seq(S) /\ <<>> \in Seq(S)
    BY SetsAre, ProgramsIn
  <2> QED BY <2>1
<1>5. \A S : s \in Seq(S) /\ p \in Seq(S) => q \in Seq(S)
  BY <1>1
<1>6. Tail(s) # <<>> => q # <<>> /\ Head(q) = Head(Tail(s))
  <2>1. Tail(s) \in Seq(Instructions) /\ p \in Seq(Instructions)
    BY <1>1, <1>4, SetsAre
  <2> QED BY <2>1
<1>7. handler' = FALSE /\ held' = held
  BY DEF Forget
<1> HIDE DEF q
<1>8. q \in Seq(Inner) /\ q \in Seq(NoHandlers) /\ q \in Seq(NoRegister)
  BY <1>2, <1>4, <1>5
<1>9. TakesOuterFirst(q) /\ TakesHandlersLast(q) /\ RegistersOnce(q) /\ q \notin Registering
  BY <1>8, RegisteringIs DEF TakesOuterFirst, TakesHandlersLast, RegistersOnce,
     Inner, NoHandlers, NoRegister
<1>10. Head(s) \notin {Take, Give} /\ \A n : Head(s) # Unlock(n)
  BY <1>1 DEF Take, Give, Lock, Unlock
<1>11. \A m \in {"app", "surfaces"} : held[m] # t
  BY <1>1, <1>10, HasIs DEF Disciplined
<1>12. held["handlers"] = t => HasHandlers(q)
  BY <1>1, <1>6, <1>10, HasIs DEF Disciplined, HasHandlers
<1>13. code' = [code EXCEPT ![t] = q]
  BY <1>3 DEF q
<1> QED BY <1>7, <1>9, <1>11, <1>12, <1>13, OrderedReplace

LEMMA OrderedStep ==
    ASSUME Ordered, Guarded, Blocked, NEW t \in Threads, Step(t)
    PROVE  Ordered'
<1> USE DEF clock, requestVars
<1>1. \A m \in Mutexes : m # "c" /\ Unlock(m).do = "unlock" /\ Unlock(m).on = m
  BY DEF Mutexes, Unlock
<1>2. CASE CLockAcquire(t)
  <2>1. At(t, "lock") /\ code[t] # <<>> /\ UNCHANGED <<held, handler>>
    BY <1>2 DEF CLockAcquire, At
  <2>2. \A m \in Mutexes : Instruction(t) # Unlock(m)
    BY <1>1, <2>1 DEF At
  <2>3. code' = code \/ Continue(t)
    BY <1>2 DEF CLockAcquire
  <2> QED BY <2>1, <2>2, <2>3, OrderedSame, OrderedContinue
<1>3. CASE CLockDrop(t)
  <2>1. At(t, "unlock") /\ Instruction(t).on = "c" /\ code[t] # <<>> /\ Continue(t)
        /\ UNCHANGED <<held, handler>>
    BY <1>3 DEF CLockDrop, At
  <2>2. \A m \in Mutexes : Instruction(t) # Unlock(m)
    BY <1>1, <2>1
  <2> QED BY <2>1, <2>2, OrderedContinue
<1>4. CASE MutexLock(t) \/ MutexUnlock(t)
  BY <1>4, OrderedMutex
<1>5. ASSUME \/ Request(t, "user") \/ Request(t, "poll") \/ AnswerRequest(t) \/ ReportError(t)
             \/ Sever(t) \/ Complete(t) \/ Notify(t)
      PROVE  Ordered'
  <2>1. /\ code[t] # <<>> /\ Instruction(t).do # "unlock" /\ Continue(t)
        /\ UNCHANGED <<held, handler>>
    BY <1>5 DEF Request, AnswerRequest, ReportError, Sever, Complete, Notify, At
  <2>2. \A m \in Mutexes : Instruction(t) # Unlock(m)
    BY <1>1, <2>1
  <2> QED BY <2>1, <2>2, OrderedContinue
<1>6. CASE Register(t)
  BY <1>6, OrderedRegister
<1>7. CASE Forget(t)
  BY <1>7, OrderedForget
<1>8. CASE TestPredicate(t) /\ t \in done
  <2>1. /\ code[t] # <<>> /\ Instruction(t).do = "wait" /\ Continue(t)
        /\ UNCHANGED <<held, handler>>
    BY <1>8 DEF TestPredicate, At, Continue
  <2>2. \A m \in Mutexes : Instruction(t) # Unlock(m)
    BY <1>1, <2>1
  <2> QED BY <2>1, <2>2, OrderedContinue
<1>9. CASE \/ TestPredicate(t) /\ t \notin done
           \/ GoToSleep(t) \/ WakeUp(t)
  <2>1. PICK d \in {"wait", "sleep", "asleep"} :
            code' = [code EXCEPT ![t] = <<Do(d)>> \o Tail(@)]
    BY <1>9 DEF TestPredicate, GoToSleep, WakeUp
  <2>2. /\ code[t] # <<>> /\ Instruction(t).do \in {"wait", "sleep", "asleep"}
        /\ UNCHANGED <<held, handler>>
    BY <1>9 DEF TestPredicate, GoToSleep, WakeUp, At
  <2> QED BY <2>1, <2>2, OrderedInsert
<1> QED BY <1>2, <1>3, <1>4, <1>5, <1>6, <1>7, <1>8, <1>9 DEF Step

LEMMA OrderedNext ==
    ASSUME ~ReplacesHandler, Ordered, Guarded, Typed, [Next]_vars
    PROVE  Ordered'
<1> USE DEF clock, requestVars
<1>1. ASSUME NEW t \in AppThreads, Call(t)
      PROVE  Ordered'
  <2>1. PICK s \in AppPrograms : code' = [code EXCEPT ![t] = s]
    BY <1>1 DEF Call, AppPrograms
  <2>2. code[t] = <<>> /\ UNCHANGED <<held, handler>>
    BY <1>1 DEF Call
  <2>3. s = OnUncapturedError => ~handler /\ \A u \in Threads : code[u] \notin Registering
    <3> SUFFICES ASSUME s = OnUncapturedError
                 PROVE  ~handler /\ \A u \in Threads : code[u] \notin Registering
      OBVIOUS
    <3>1. code'[t] = OnUncapturedError
      BY <2>1, ThreadsAre DEF Guarded
    <3>2. OnUncapturedError \notin {SurfaceCall, MapAsync, Submit, Poll, Draw, DropDevice}
      <4>1. {SurfaceCall, MapAsync, Submit, Poll, Draw, DropDevice} \subseteq Seq(NoRegister)
        BY SetsAre, ProgramsIn
      <4>2. OnUncapturedError \notin Seq(NoRegister)
        BY RegisteringIs DEF Registering
      <4> QED BY <4>1, <4>2
    <3>3. \A p : code' = [code EXCEPT ![t] = p] => p = code'[t]
      BY ThreadsAre DEF Guarded
    <3>4. ~handler /\ \A u \in Threads : ~Contains(code[u], Do("register"))
      BY <1>1, <3>1, <3>2, <3>3 DEF Call
    <3> QED BY <3>4, RegisteringIs
  <2> QED BY <2>1, <2>2, <2>3, ThreadsAre, OrderedBegin
<1>2. OnUncapturedError \notin ReaderPrograms \cup CallbackPrograms
  <2>1. \A q \in ReaderPrograms \cup CallbackPrograms : q \in Seq(NoRegister)
    BY SetsAre, ProgramsIn DEF ReaderPrograms, CallbackPrograms
  <2>2. OnUncapturedError \notin Seq(NoRegister)
    BY RegisteringIs DEF Registering
  <2> QED BY <2>1, <2>2
<1>3. CASE ReaderReceives
  <2>1. PICK s \in ReaderPrograms : code' = [code EXCEPT ![Reader] = s]
    BY <1>3 DEF ReaderReceives, ReaderPrograms
  <2>2. code[Reader] = <<>> /\ UNCHANGED <<held, handler>>
    BY <1>3 DEF ReaderReceives
  <2> QED BY <1>2, <2>1, <2>2, ThreadsAre, OrderedBegin
<1>4. CASE CallbackThread
  <2>1. PICK s \in CallbackPrograms : code' = [code EXCEPT ![Callbacks] = s]
    BY <1>4, CallbackIs DEF Typed
  <2>2. code[Callbacks] = <<>> /\ UNCHANGED <<held, handler>>
    BY <1>4 DEF CallbackThread
  <2> QED BY <1>2, <2>1, <2>2, ThreadsAre, OrderedBegin
<1>5. ASSUME NEW t \in Threads, Step(t)
      PROVE  Ordered'
  BY <1>5, OrderedStep DEF Typed
<1>6. CASE Timeout \/ UNCHANGED vars
  BY <1>6, OrderedSame DEF Timeout, vars
<1> QED BY <1>1, <1>3, <1>4, <1>5, <1>6 DEF Next

(* Who has the table of handlers waits for nobody; who has the C lock does *)
(* not wait for a mutex taken before it; who has such a mutex waits for    *)
(* the C lock only.                                                        *)
LEMMA OrderedIsAcyclic ==
    ASSUME Ordered, Guarded, Blocked
    PROVE  NoWaitCycle
<1> SUFFICES ASSUME NEW S \in SUBSET Threads, S # {},
                    \A t \in S : \E u \in S : WaitsFor(t, u)
             PROVE  FALSE
  BY DEF NoWaitCycle
<1>1. ASSUME NEW t \in S
      PROVE  /\ code[t] # <<>> /\ code[t] \in Seq(Instructions) /\ Disciplined(t)
             /\ Program(code[t]) /\ Net(code[t]) = IF owner = t THEN depth ELSE 0
             /\ \E m \in Mutexes \cup {"c"} : Head(code[t]) = Lock(m) /\ Instruction(t).on = m
  <2>1. At(t, "lock")
    BY DEF WaitsFor
  <2>2. code[t] # <<>> /\ code[t] \in Seq(Instructions) /\ Disciplined(t) /\ Program(code[t])
        /\ Net(code[t]) = IF owner = t THEN depth ELSE 0
    BY <2>1 DEF At, Guarded, Ordered
  <2>3. Head(code[t]) \in Instructions /\ Head(code[t]).do = "lock"
    BY <2>1, <2>2, RestProgram DEF At, Instruction
  <2>4. PICK m \in Mutexes \cup {"c"} : Head(code[t]) = Lock(m)
    BY <2>3 DEF Instructions, Lock
  <2>5. Instruction(t).on = m
    BY <2>4 DEF Instruction, Lock
  <2> QED BY <2>2, <2>4, <2>5
<1>2. \A m, n : Lock(m) # Unlock(n) /\ (Lock(m) = Lock(n) => m = n)
      /\ Lock(m) # Do("register") /\ Lock(m) # Do("forget")
  BY DEF Lock, Unlock, Do
<1>3. ASSUME NEW t \in S
      PROVE  held["handlers"] # t
  BY <1>1, <1>2, HasIs DEF Disciplined
<1>4. ASSUME NEW t \in S
      PROVE  Instruction(t).on # "handlers"
  <2> SUFFICES ASSUME Instruction(t).on = "handlers" PROVE FALSE
    OBVIOUS
  <2>1. PICK u \in S : WaitsFor(t, u)
    OBVIOUS
  <2>2. u = held["handlers"]
    BY <2>1 DEF WaitsFor
  <2> QED BY <1>3, <2>2
<1>5. ASSUME NEW t \in S, owner = t
      PROVE  FALSE
  <2>1. PICK m \in Mutexes \cup {"c"} : Head(code[t]) = Lock(m) /\ Instruction(t).on = m
    BY <1>1
  <2>2. m # "c"
    <3>1. PICK u \in S : WaitsFor(t, u)
      OBVIOUS
    <3> QED BY <1>5, <2>1, <3>1 DEF WaitsFor
  <2>3. m \in {"app", "surfaces"}
    BY <1>4, <2>1, <2>2 DEF Mutexes
  <2>4. code[t] \in OuterPrograms
    BY <1>1, <2>1, <2>3, FirstSays DEF Disciplined, OuterLocks
  <2>5. Net(code[t]) = 0
    BY <2>4, AllBalanced DEF OuterPrograms, AppPrograms, CallbackPrograms, Balanced
  <2>6. depth # 0
    <3>1. t # NoThread
      BY WgpuThreadsAssumption
    <3> QED BY <1>5, <3>1 DEF Guarded
  <2> QED BY <1>1, <1>5, <2>5, <2>6
<1>6. ASSUME NEW t \in S
      PROVE  Instruction(t).on # "c"
  <2> SUFFICES ASSUME Instruction(t).on = "c" PROVE FALSE
    OBVIOUS
  <2>1. PICK u \in S : WaitsFor(t, u)
    OBVIOUS
  <2>2. owner = u
    BY <2>1 DEF WaitsFor
  <2> QED BY <1>5, <2>2
<1>7. PICK t \in S : TRUE
  OBVIOUS
<1>8. PICK u \in S : WaitsFor(t, u)
  OBVIOUS
<1>9. PICK m \in Mutexes \cup {"c"} : Head(code[t]) = Lock(m) /\ Instruction(t).on = m
  BY <1>1
<1>10. m \in {"app", "surfaces"} /\ held[m] = u
  BY <1>4, <1>6, <1>8, <1>9 DEF WaitsFor, Mutexes
<1>11. HasOuter(m, code[u])
  BY <1>1, <1>10 DEF Disciplined
<1>12. PICK n \in Mutexes \cup {"c"} : Head(code[u]) = Lock(n) /\ Instruction(u).on = n
  BY <1>1
<1>13. Head(code[u]) = Take
  BY <1>2, <1>11, <1>12, HasIs DEF Give
<1>14. n = "c"
  BY <1>2, <1>12, <1>13 DEF Take
<1> QED BY <1>6, <1>12, <1>14

(* No threads wait for each other in a cycle, as long as the application   *)
(* sets the error handler of a device once: a second one is dropped with   *)
(* the table of handlers locked (api.rs: Device::on_uncaptured_error).     *)
THEOREM NoDeadlock == ASSUME ~ReplacesHandler PROVE Spec => []NoWaitCycle
<1>1. Init => Ordered
  BY OrderedInit
<1>2. Guarded /\ Typed /\ Ordered /\ [Next]_vars => Ordered'
  BY OrderedNext
<1>3. Guarded /\ Typed /\ Ordered => NoWaitCycle
  BY OrderedIsAcyclic DEF Typed
<1> QED BY <1>1, <1>2, <1>3, GuardsInvariant, PTL DEF Spec
=============================================================================
