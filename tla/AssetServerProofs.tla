--------------------------- MODULE AssetServerProofs ---------------------------
(***************************************************************************)
(* Proofs about AssetServer, in two parts that share no variable but       *)
(* building.  The table of loaders: Push and Reserve keep it a bijection   *)
(* of slots and types (TableInv), through the folds over all loaders.  The *)
(* ids: the state of the allocator, the infos, the paths, the handles, the *)
(* drops that wait and the results that wait fit each other (Good); every  *)
(* step and every single drop that track_assets reads keeps that.          *)
(***************************************************************************)
EXTENDS AssetServer, FoldLemmas

-----------------------------------------------------------------------------
(* The table of loaders.  A loader type that has a slot keeps it, so that  *)
(* building another app fills slots and adds none.                         *)

Tables == [slots : Seq(Slots), at : [Loaders -> Nat], reserved : SUBSET Loaders]

TableOK(t) ==
    /\ t \in Tables
    /\ \A l \in Loaders : t.at[l] \in 0 .. Len(t.slots)
    /\ \A l \in Loaders : t.at[l] > 0 => t.slots[t.at[l]].of = l
    /\ \A j \in 1 .. Len(t.slots) : t.at[t.slots[j].of] = j

Has(t, l) == t.at[l] > 0
Build(t, l) == t.slots[t.at[l]].build

\* u has what t has, where it was.
Keeps(t, u) == \A k \in Loaders : Has(t, k) => u.at[k] = t.at[k]

LEMMA Replaced ==
    ASSUME NEW S, NEW q \in Seq(S), NEW i \in 1 .. Len(q), NEW x \in S
    PROVE  /\ [q EXCEPT ![i] = x] \in Seq(S) /\ Len([q EXCEPT ![i] = x]) = Len(q)
           /\ [q EXCEPT ![i] = x][i] = x
           /\ \A j \in 1 .. Len(q) : j # i => [q EXCEPT ![i] = x][j] = q[j]
OBVIOUS

LEMMA SlotFilled ==
    ASSUME NEW t, TableOK(t), NEW l \in Loaders, NEW b \in 0 .. MaxJoins, Has(t, l),
           NEW x \in Slots, x.of = t.slots[t.at[l]].of, x.build = b,
           NEW p, p = [t.slots EXCEPT ![t.at[l]] = x], NEW r \in SUBSET Loaders,
           NEW u, u = [slots |-> p, at |-> t.at, reserved |-> r]
    PROVE  /\ TableOK(u) /\ Keeps(t, u) /\ Has(u, l) /\ Build(u, l) = b
           /\ \A k \in Loaders \ {l} : Has(t, k) => Build(u, k) = Build(t, k)
<1> DEFINE n == Len(t.slots)
           a == t.at[l]
<1>1. /\ t.slots \in Seq(Slots) /\ n \in Nat /\ a \in 1 .. n /\ t.at \in [Loaders -> Nat]
  BY DEF TableOK, Tables, Has
<1>2. u.slots = p /\ u.at = t.at /\ u.reserved = r
  OBVIOUS
<1> HIDE DEF a
<1>3. \A j \in 1 .. n : t.slots[j] \in Slots
  BY <1>1
<1>4. /\ p \in Seq(Slots) /\ Len(p) = n
      /\ p[a] = x /\ \A j \in 1 .. n : j # a => p[j] = t.slots[j]
  BY <1>1, Replaced DEF a
<1>5. u \in Tables
  BY <1>1, <1>2, <1>4 DEF Tables
<1>6. \A j \in 1 .. n : p[j].of = t.slots[j].of
  BY <1>4 DEF a
<1>7. TableOK(u)
  BY <1>1, <1>2, <1>4, <1>5, <1>6 DEF TableOK
<1>8. Keeps(t, u) /\ Has(u, l) /\ Build(u, l) = b
  BY <1>1, <1>2, <1>4 DEF Keeps, Has, Build, a
<1>9. ASSUME NEW k \in Loaders \ {l}, Has(t, k) PROVE Build(u, k) = Build(t, k)
  <2>1. t.at[k] \in 1 .. n /\ t.slots[t.at[k]].of = k
    BY <1>9, <1>1 DEF TableOK, Has
  <2>2. t.slots[a].of = l
    BY <1>1 DEF TableOK, a
  <2>3. t.at[k] # a
    BY <2>1, <2>2
  <2> QED BY <1>2, <1>4, <2>1, <2>3 DEF Build
<1> QED BY <1>7, <1>8, <1>9

\* u is t with a slot for l at the end.
Appended(t, l, b, u) ==
    \E s \in Slots, r \in SUBSET Loaders :
        /\ s.of = l /\ s.build = b
        /\ u = [slots |-> Append(t.slots, s), at |-> [t.at EXCEPT ![l] = Len(t.slots) + 1],
                reserved |-> r]

LEMMA SlotAppended ==
    ASSUME NEW t, TableOK(t), NEW l \in Loaders, ~Has(t, l),
           NEW b, NEW u, Appended(t, l, b, u)
    PROVE  /\ TableOK(u) /\ Keeps(t, u) /\ Has(u, l) /\ Build(u, l) = b
           /\ \A k \in Loaders \ {l} : Has(t, k) => Build(u, k) = Build(t, k)
<1>0. PICK s \in Slots, r \in SUBSET Loaders :
        /\ s.of = l /\ s.build = b
        /\ u = [slots |-> Append(t.slots, s), at |-> [t.at EXCEPT ![l] = Len(t.slots) + 1],
                reserved |-> r]
  BY DEF Appended
<1> DEFINE n == Len(t.slots)
           p == u.slots
           a == u.at
<1>1. /\ t.slots \in Seq(Slots) /\ n \in Nat /\ t.at[l] = 0
      /\ t.at \in [Loaders -> Nat]
      /\ \A k \in Loaders : t.at[k] \in 0 .. n
      /\ \A k \in Loaders : t.at[k] > 0 => t.slots[t.at[k]].of = k
      /\ \A j \in 1 .. n : t.at[t.slots[j].of] = j
  BY DEF TableOK, Tables, Has
<1>2. /\ p = Append(t.slots, s) /\ a = [t.at EXCEPT ![l] = n + 1]
      /\ u.reserved = r /\ u = [slots |-> p, at |-> a, reserved |-> r]
  BY <1>0
<1>3. /\ p \in Seq(Slots) /\ Len(p) = n + 1 /\ p[n + 1] = s
      /\ \A j \in 1 .. n : p[j] = t.slots[j]
  <2> HIDE DEF p, a
  <2> QED BY <1>1, <1>2
<1>4. /\ a \in [Loaders -> Nat] /\ a[l] = n + 1
      /\ \A k \in Loaders : k # l => a[k] = t.at[k]
  <2> HIDE DEF p, a, n
  <2>1. n + 1 \in Nat
    BY <1>1
  <2> QED BY <1>1, <1>2, <2>1
<1> HIDE DEF p, a
<1>5. u \in Tables
  BY <1>2, <1>3, <1>4 DEF Tables, p, a
<1> HIDE DEF n
<1>6. \A k \in Loaders : a[k] \in 0 .. n + 1
  BY <1>1, <1>4
<1>7. \A k \in Loaders : a[k] > 0 => p[a[k]].of = k
  <2> SUFFICES ASSUME NEW k \in Loaders, a[k] > 0 PROVE p[a[k]].of = k
    OBVIOUS
  <2>1. CASE k = l
    BY <1>0, <1>1, <1>3, <1>4, <2>1
  <2>2. CASE k # l
    <3>1. t.at[k] \in 1 .. n /\ a[k] = t.at[k]
      BY <1>1, <1>4, <2>2
    <3> QED BY <1>1, <1>3, <3>1
  <2> QED BY <2>1, <2>2
<1>8. \A j \in 1 .. n + 1 : a[p[j].of] = j
  <2> SUFFICES ASSUME NEW j \in 1 .. n + 1 PROVE a[p[j].of] = j
    OBVIOUS
  <2>1. CASE j = n + 1
    BY <1>0, <1>3, <1>4, <2>1
  <2>2. CASE j \in 1 .. n
    <3>1. t.slots[j] \in Slots /\ p[j] = t.slots[j]
      BY <1>1, <1>3, <2>2 DEF n
    <3>2. t.at[t.slots[j].of] = j
      BY <1>1, <2>2
    <3>3. t.slots[j].of \in Loaders /\ t.slots[j].of # l
      BY <1>1, <2>2, <3>1, <3>2 DEF Slots
    <3>4. a[t.slots[j].of] = t.at[t.slots[j].of]
      BY <1>4, <3>3
    <3> QED BY <3>1, <3>2, <3>4
  <2>3. n \in Nat
    BY <1>1
  <2>4. j = n + 1 \/ j \in 1 .. n
    BY <2>3
  <2> QED BY <2>1, <2>2, <2>4
<1>9. TableOK(u)
  BY <1>2, <1>3, <1>5, <1>6, <1>7, <1>8 DEF TableOK, p, a
<1>10. Keeps(t, u) /\ Has(u, l) /\ Build(u, l) = b
  BY <1>0, <1>1, <1>3, <1>4 DEF Keeps, Has, Build, p, a
<1>11. ASSUME NEW k \in Loaders \ {l}, Has(t, k) PROVE Build(u, k) = Build(t, k)
  <2>1. t.at[k] \in 1 .. n /\ a[k] = t.at[k]
    BY <1>1, <1>4, <1>11 DEF Has
  <2> QED BY <1>3, <2>1 DEF Build, p, a
<1> QED BY <1>9, <1>10, <1>11

LEMMA PushIs ==
    ASSUME NEW t, TableOK(t), NEW l \in Loaders, NEW b \in 0 .. MaxJoins,
           NEW u, u = Push(t, l, b)
    PROVE  /\ TableOK(u) /\ Keeps(t, u) /\ Has(u, l) /\ Build(u, l) = b
           /\ \A k \in Loaders \ {l} : Has(t, k) => Build(u, k) = Build(t, k)
<1>1. t \in Tables /\ t.slots \in Seq(Slots) /\ t.at[l] \in 0 .. Len(t.slots)
  BY DEF TableOK, Tables
<1>2. CASE Has(t, l)
  <2> DEFINE x == [t.slots[t.at[l]] EXCEPT !.build = b]
             p == [t.slots EXCEPT ![t.at[l]] = x]
             r == t.reserved \ {l}
  <2>1. u = [t EXCEPT !.slots = p, !.reserved = r]
    BY <1>1, <1>2 DEF Push, Has, Tables
  <2>2. t.slots[t.at[l]] \in Slots
    BY <1>1, <1>2 DEF Has
  <2>3. x \in Slots /\ x.of = t.slots[t.at[l]].of /\ x.build = b
    BY <2>2 DEF Slots
  <2>4. r \in SUBSET Loaders
    BY <1>1 DEF Tables
  <2> HIDE DEF x, p, r
  <2>5. u \in [slots : {p}, at : {t.at}, reserved : {r}]
    BY <1>1, <2>1 DEF Tables
  <2>6. \A y \in [slots : {p}, at : {t.at}, reserved : {r}] :
           y = [slots |-> p, at |-> t.at, reserved |-> r]
    OBVIOUS
  <2>7. u = [slots |-> p, at |-> t.at, reserved |-> r]
    BY <2>5, <2>6
  <2>8. p = [t.slots EXCEPT ![t.at[l]] = x]
    BY DEF p
  <2> QED BY <1>2, <2>3, <2>4, <2>7, <2>8, SlotFilled
<1>3. CASE ~Has(t, l)
  <2> DEFINE s == [of |-> l, build |-> b]
             p == Append(t.slots, s)
             a == [t.at EXCEPT ![l] = Len(t.slots) + 1]
  <2>1. s \in Slots /\ s.of = l /\ s.build = b
    BY DEF Slots
  <2>2. u = [t EXCEPT !.slots = p, !.at = a]
    BY <1>1, <1>3 DEF Push, Has, Tables
  <2>3. t.reserved \in SUBSET Loaders
    BY <1>1 DEF Tables
  <2> HIDE DEF s, p, a
  <2>4. u \in [slots : {p}, at : {a}, reserved : {t.reserved}]
    BY <1>1, <2>2 DEF Tables
  <2>5. \A y \in [slots : {p}, at : {a}, reserved : {t.reserved}] :
           y = [slots |-> p, at |-> a, reserved |-> t.reserved]
    OBVIOUS
  <2>6. u = [slots |-> p, at |-> a, reserved |-> t.reserved]
    BY <2>4, <2>5
  <2>7. Appended(t, l, b, u)
    BY <2>1, <2>3, <2>6 DEF Appended, p, a
  <2> QED BY <1>3, <2>7, SlotAppended
<1> QED BY <1>2, <1>3

LEMMA ReserveIs ==
    ASSUME NEW t, TableOK(t), NEW l \in Loaders, NEW u, u = Reserve(t, l)
    PROVE  /\ TableOK(u) /\ Keeps(t, u) /\ Has(u, l)
           /\ \A k \in Loaders : Has(t, k) => Build(u, k) = Build(t, k)
<1>1. CASE Has(t, l)
  <2>1. u = t
    BY <1>1 DEF Reserve, Has
  <2> QED BY <1>1, <2>1 DEF Keeps
<1>2. CASE ~Has(t, l)
  <2> DEFINE s == [of |-> l, build |-> Pending]
             p == Append(t.slots, s)
             a == [t.at EXCEPT ![l] = Len(t.slots) + 1]
             r == t.reserved \cup {l}
  <2>1. r \in SUBSET Loaders
    BY DEF TableOK, Tables
  <2>2. s \in Slots /\ s.of = l /\ s.build = Pending
    BY DEF Slots
  <2>3. u = [slots |-> p, at |-> a, reserved |-> r]
    BY <1>2 DEF Reserve, Has
  <2> HIDE DEF s, p, a, r
  <2>4. Appended(t, l, Pending, u)
    BY <2>1, <2>2, <2>3 DEF Appended, p, a
  <2>5. /\ TableOK(u) /\ Keeps(t, u) /\ Has(u, l)
        /\ \A k \in Loaders \ {l} : Has(t, k) => Build(u, k) = Build(t, k)
    BY <1>2, <2>4, SlotAppended
  <2> QED BY <1>2, <2>5
<1> QED BY <1>1, <1>2

\* u is t after the first m pushes of q.
Pushed(t, q, b, m, u) ==
    /\ TableOK(u) /\ Keeps(t, u)
    /\ \A i \in 1 .. m : Has(u, q[i]) /\ Build(u, q[i]) = b
    /\ \A k \in Loaders : Has(t, k) /\ (\A i \in 1 .. m : q[i] # k) => Build(u, k) = Build(t, k)

\* u is t after the first m reservations of q: whoever has a slot keeps what is in it.
Reserved(t, q, m, u) ==
    /\ TableOK(u) /\ Keeps(t, u)
    /\ \A i \in 1 .. m : Has(u, q[i])
    /\ \A k \in Loaders : Has(t, k) => Build(u, k) = Build(t, k)

LEMMA PushOne ==
    ASSUME NEW t, NEW n \in Nat, NEW q \in [1 .. n -> Loaders], NEW b \in 0 .. MaxJoins,
           NEW m \in 1 .. n, NEW v, Pushed(t, q, b, m - 1, v)
    PROVE  Pushed(t, q, b, m, Push(v, q[m], b))
<1> DEFINE w == Push(v, q[m], b)
           l == q[m]
<1>1. l \in Loaders /\ w = Push(v, l, b)
  OBVIOUS
<1>2. /\ \A i \in 1 .. m : i \in 1 .. m - 1 \/ i = m
      /\ \A i \in 1 .. m - 1 : i \in 1 .. m /\ i \in 1 .. n
  OBVIOUS
<1>3. TableOK(v) /\ Keeps(t, v)
  BY DEF Pushed
<1> HIDE DEF w, l
<1>4. /\ TableOK(w) /\ Keeps(v, w) /\ Has(w, l) /\ Build(w, l) = b
      /\ \A k \in Loaders \ {l} : Has(v, k) => Build(w, k) = Build(v, k)
  BY <1>1, <1>3, PushIs
<1>5. Keeps(t, w)
  BY <1>3, <1>4 DEF Keeps, Has
<1>6. ASSUME NEW i \in 1 .. m PROVE Has(w, q[i]) /\ Build(w, q[i]) = b
  <2>1. CASE q[i] = l
    BY <1>4, <2>1
  <2>2. CASE q[i] # l
    <3>1. i \in 1 .. m - 1 /\ q[i] \in Loaders
      BY <1>2, <2>2 DEF l
    <3>2. Has(v, q[i]) /\ Build(v, q[i]) = b
      BY <3>1 DEF Pushed
    <3> QED BY <1>4, <2>2, <3>1, <3>2 DEF Keeps, Has
  <2> QED BY <2>1, <2>2
<1>7. ASSUME NEW k \in Loaders, Has(t, k), \A i \in 1 .. m : q[i] # k
      PROVE  Build(w, k) = Build(t, k)
  <2>1. k # l /\ \A i \in 1 .. m - 1 : q[i] # k
    BY <1>2, <1>7 DEF l
  <2>2. Has(v, k) /\ Build(v, k) = Build(t, k)
    BY <1>3, <1>7, <2>1 DEF Pushed, Keeps, Has
  <2> QED BY <1>4, <2>1, <2>2
<1>8. Pushed(t, q, b, m, w)
  BY <1>4, <1>5, <1>6, <1>7 DEF Pushed
<1> QED BY <1>8 DEF w

\* Pushing one loader of a sequence after the other.
LEMMA PushAll ==
    ASSUME NEW t, TableOK(t), NEW n \in Nat, NEW q \in [1 .. n -> Loaders],
           NEW b \in 0 .. MaxJoins
    PROVE  Pushed(t, q, b, n, FoldLeft(LAMBDA v, l : Push(v, l, b), t, q))
<1> DEFINE Tabs == {x \in Tables : TableOK(x)}
           Fold(g) == g = [s \in SUBSET DOMAIN q |->
                              IF s = {} THEN t ELSE Push(g[s \ {Max(s)}], q[Max(s)], b)]
           fold == CHOOSE g : Fold(g)
           act == [x \in Tabs \X (1 .. n) |-> Push(x[1], q[x[2]], b)]
<1>1. DOMAIN q = 1 .. n
  OBVIOUS
<1>2. t \in Tabs /\ \A x : x \in Tabs <=> TableOK(x)
  BY DEF TableOK
<1> HIDE DEF Tabs, Fold, fold, act
<1>3. act \in [Tabs \X (1 .. n) -> Tabs]
  <2>1. ASSUME NEW x \in Tabs, NEW i \in 1 .. n PROVE Push(x, q[i], b) \in Tabs
    BY <1>2, PushIs
  <2> QED BY <2>1 DEF act
<1>4. PICK g : Folds(g, n, Tabs, act, t)
  <2>1. t \in Tabs
    BY <1>2
  <2> QED BY <1>3, <2>1, FoldExists
<1>5. Fold(g)
  <2>1. ASSUME NEW s \in SUBSET (1 .. n), s # {}
        PROVE  g[s] = Push(g[s \ {Max(s)}], q[Max(s)], b)
    <3> DEFINE k == Max(s)
    <3>1. k \in 1 .. n
      BY <2>1, MaxIs
    <3>2. g[s] = act[<<g[s \ {k}], k>>]
      BY <1>4, <2>1 DEF Folds
    <3> HIDE DEF k
    <3>3. <<g[s \ {k}], k>> \in Tabs \X (1 .. n)
      BY <1>4, <3>1 DEF Folds
    <3> QED BY <3>2, <3>3 DEF k, act
  <2>2. g = [s \in SUBSET (1 .. n) |-> g[s]] /\ g[{}] = t
    BY <1>4 DEF Folds
  <2> QED BY <1>1, <2>1, <2>2 DEF Fold
<1>6. Fold(fold)
  BY <1>5 DEF fold
<1>7. FoldLeft(LAMBDA v, l : Push(v, l, b), t, q) = fold[DOMAIN q]
  BY DEF FoldLeft, MapThenFoldSet, fold, Fold
<1>8. fold[{}] = t
  BY <1>1, <1>6 DEF Fold
<1>9. ASSUME NEW k \in 1 .. n
      PROVE  fold[1 .. k] = Push(fold[1 .. k - 1], q[k], b)
  <2>1. /\ 1 .. k \in SUBSET DOMAIN q /\ 1 .. k # {}
        /\ Max(1 .. k) = k /\ (1 .. k) \ {k} = 1 .. k - 1
    BY <1>1, Prefix
  <2> QED BY <1>6, <2>1 DEF Fold
<1> DEFINE S == {m \in 0 .. n : Pushed(t, q, b, m, fold[1 .. m])}
<1>10. 0 \in S
  <2>1. 1 .. 0 = {} /\ 0 \in 0 .. n
    OBVIOUS
  <2>2. Pushed(t, q, b, 0, t)
    BY <2>1 DEF Pushed, Keeps
  <2> QED BY <1>8, <2>1, <2>2
<1>11. ASSUME NEW m \in 1 .. n, m - 1 \in S PROVE m \in S
  <2> DEFINE v == fold[1 .. m - 1]
  <2>1. Pushed(t, q, b, m - 1, v) /\ fold[1 .. m] = Push(v, q[m], b)
    BY <1>9, <1>11
  <2> HIDE DEF v
  <2>2. Pushed(t, q, b, m, fold[1 .. m])
    BY <2>1, PushOne
  <2> QED BY <2>2
<1>12. n \in S
  <2> HIDE DEF S
  <2> QED BY <1>10, <1>11, Reaches
<1>13. Pushed(t, q, b, n, fold[1 .. n])
  BY <1>12
<1> QED BY <1>1, <1>7, <1>13

LEMMA ReserveOne ==
    ASSUME NEW t, NEW n \in Nat, NEW q \in [1 .. n -> Loaders],
           NEW m \in 1 .. n, NEW v, Reserved(t, q, m - 1, v)
    PROVE  Reserved(t, q, m, Reserve(v, q[m]))
<1> DEFINE w == Reserve(v, q[m])
           l == q[m]
<1>1. l \in Loaders /\ w = Reserve(v, l)
  OBVIOUS
<1>2. /\ \A i \in 1 .. m : i \in 1 .. m - 1 \/ i = m
      /\ \A i \in 1 .. m - 1 : i \in 1 .. m /\ i \in 1 .. n
  OBVIOUS
<1>3. TableOK(v) /\ Keeps(t, v)
  BY DEF Reserved
<1> HIDE DEF w, l
<1>4. /\ TableOK(w) /\ Keeps(v, w) /\ Has(w, l)
      /\ \A k \in Loaders : Has(v, k) => Build(w, k) = Build(v, k)
  BY <1>1, <1>3, ReserveIs
<1>5. Keeps(t, w)
  BY <1>3, <1>4 DEF Keeps, Has
<1>6. ASSUME NEW i \in 1 .. m PROVE Has(w, q[i])
  <2>1. CASE q[i] = l
    BY <1>4, <2>1
  <2>2. CASE q[i] # l
    <3>1. i \in 1 .. m - 1 /\ q[i] \in Loaders
      BY <1>2, <2>2 DEF l
    <3>2. Has(v, q[i])
      BY <3>1 DEF Reserved
    <3> QED BY <1>4, <2>2, <3>1, <3>2 DEF Keeps, Has
  <2> QED BY <2>1, <2>2
<1>7. ASSUME NEW k \in Loaders, Has(t, k)
      PROVE  Build(w, k) = Build(t, k)
  <2>1. Has(v, k) /\ Build(v, k) = Build(t, k)
    BY <1>3, <1>7 DEF Reserved, Keeps, Has
  <2> QED BY <1>4, <2>1
<1>8. Reserved(t, q, m, w)
  BY <1>4, <1>5, <1>6, <1>7 DEF Reserved
<1> QED BY <1>8 DEF w

\* Reserving a slot for one loader of a sequence after the other.
LEMMA ReserveAll ==
    ASSUME NEW t, TableOK(t), NEW n \in Nat, NEW q \in [1 .. n -> Loaders]
    PROVE  Reserved(t, q, n, FoldLeft(Reserve, t, q))
<1> DEFINE Tabs == {x \in Tables : TableOK(x)}
           Fold(g) == g = [s \in SUBSET DOMAIN q |->
                              IF s = {} THEN t ELSE Reserve(g[s \ {Max(s)}], q[Max(s)])]
           fold == CHOOSE g : Fold(g)
           act == [x \in Tabs \X (1 .. n) |-> Reserve(x[1], q[x[2]])]
<1>1. DOMAIN q = 1 .. n
  OBVIOUS
<1>2. t \in Tabs /\ \A x : x \in Tabs <=> TableOK(x)
  BY DEF TableOK
<1> HIDE DEF Tabs, Fold, fold, act
<1>3. act \in [Tabs \X (1 .. n) -> Tabs]
  <2>1. ASSUME NEW x \in Tabs, NEW i \in 1 .. n PROVE Reserve(x, q[i]) \in Tabs
    BY <1>2, ReserveIs
  <2> QED BY <2>1 DEF act
<1>4. PICK g : Folds(g, n, Tabs, act, t)
  <2>1. t \in Tabs
    BY <1>2
  <2> QED BY <1>3, <2>1, FoldExists
<1>5. Fold(g)
  <2>1. ASSUME NEW s \in SUBSET (1 .. n), s # {}
        PROVE  g[s] = Reserve(g[s \ {Max(s)}], q[Max(s)])
    <3> DEFINE k == Max(s)
    <3>1. k \in 1 .. n
      BY <2>1, MaxIs
    <3>2. g[s] = act[<<g[s \ {k}], k>>]
      BY <1>4, <2>1 DEF Folds
    <3> HIDE DEF k
    <3>3. <<g[s \ {k}], k>> \in Tabs \X (1 .. n)
      BY <1>4, <3>1 DEF Folds
    <3> QED BY <3>2, <3>3 DEF k, act
  <2>2. g = [s \in SUBSET (1 .. n) |-> g[s]] /\ g[{}] = t
    BY <1>4 DEF Folds
  <2> QED BY <1>1, <2>1, <2>2 DEF Fold
<1>6. Fold(fold)
  BY <1>5 DEF fold
<1>7. FoldLeft(Reserve, t, q) = fold[DOMAIN q]
  BY DEF FoldLeft, MapThenFoldSet, fold, Fold
<1>8. fold[{}] = t
  BY <1>1, <1>6 DEF Fold
<1>9. ASSUME NEW k \in 1 .. n
      PROVE  fold[1 .. k] = Reserve(fold[1 .. k - 1], q[k])
  <2>1. /\ 1 .. k \in SUBSET DOMAIN q /\ 1 .. k # {}
        /\ Max(1 .. k) = k /\ (1 .. k) \ {k} = 1 .. k - 1
    BY <1>1, Prefix
  <2> QED BY <1>6, <2>1 DEF Fold
<1> DEFINE S == {m \in 0 .. n : Reserved(t, q, m, fold[1 .. m])}
<1>10. 0 \in S
  <2>1. 1 .. 0 = {} /\ 0 \in 0 .. n
    OBVIOUS
  <2>2. Reserved(t, q, 0, t)
    BY <2>1 DEF Reserved, Keeps
  <2> QED BY <1>8, <2>1, <2>2
<1>11. ASSUME NEW m \in 1 .. n, m - 1 \in S PROVE m \in S
  <2> DEFINE v == fold[1 .. m - 1]
  <2>1. Reserved(t, q, m - 1, v) /\ fold[1 .. m] = Reserve(v, q[m])
    BY <1>9, <1>11
  <2> HIDE DEF v
  <2>2. Reserved(t, q, m, fold[1 .. m])
    BY <2>1, ReserveOne
  <2> QED BY <2>2
<1>12. n \in S
  <2> HIDE DEF S
  <2> QED BY <1>10, <1>11, Reaches
<1>13. Reserved(t, q, n, fold[1 .. n])
  BY <1>12
<1> QED BY <1>1, <1>7, <1>13

LEMMA EachPushed ==
    ASSUME NEW t, TableOK(t), NEW S \in SUBSET Loaders, NEW b \in 0 .. MaxJoins,
           NEW u, u = PushEach(t, S, b)
    PROVE  /\ TableOK(u) /\ Keeps(t, u)
           /\ \A k \in S : Has(u, k) /\ Build(u, k) = b
           /\ \A k \in Loaders \ S : Has(t, k) => Build(u, k) = Build(t, k)
<1> DEFINE q == SetToSeq(S)
           n == Len(q)
<1>1. q \in Seq(S) /\ \A k \in S : \E i \in 1 .. n : q[i] = k
  <2>1. IsFiniteSet(S)
    BY AssetServerAssumption, FS_Subset
  <2> QED BY <2>1, SetToSeqIs
<1>2. PushEach(t, S, b) = FoldLeft(LAMBDA v, l : Push(v, l, b), t, q)
  BY DEF PushEach
<1> HIDE DEF q
<1>3. n \in Nat /\ q \in [1 .. n -> Loaders] /\ \A i \in 1 .. n : q[i] \in S
  BY <1>1
<1>4. Pushed(t, q, b, n, u)
  <2> HIDE DEF n
  <2>1. Pushed(t, q, b, n, FoldLeft(LAMBDA v, l : Push(v, l, b), t, q))
    BY <1>3, PushAll
  <2> QED BY <1>2, <2>1
<1> QED BY <1>1, <1>3, <1>4 DEF Pushed

LEMMA EachReserved ==
    ASSUME NEW t, TableOK(t), NEW S \in SUBSET Loaders, NEW u, u = ReserveEach(t, S)
    PROVE  /\ TableOK(u) /\ Keeps(t, u)
           /\ \A k \in S : Has(u, k)
           /\ \A k \in Loaders : Has(t, k) => Build(u, k) = Build(t, k)
<1> DEFINE q == SetToSeq(S)
           n == Len(q)
<1>1. q \in Seq(S) /\ \A k \in S : \E i \in 1 .. n : q[i] = k
  <2>1. IsFiniteSet(S)
    BY AssetServerAssumption, FS_Subset
  <2> QED BY <2>1, SetToSeqIs
<1>2. ReserveEach(t, S) = FoldLeft(Reserve, t, q)
  BY DEF ReserveEach
<1> HIDE DEF q
<1>3. n \in Nat /\ q \in [1 .. n -> Loaders] /\ \A i \in 1 .. n : q[i] \in S
  BY <1>1
<1>4. Reserved(t, q, n, u)
  <2> HIDE DEF n
  <2>1. Reserved(t, q, n, FoldLeft(Reserve, t, q))
    BY <1>3, ReserveAll
  <2> QED BY <1>2, <2>1
<1> QED BY <1>1, <1>3, <1>4 DEF Reserved

-----------------------------------------------------------------------------
(* The slots between two steps of an app.                                  *)

TableInv ==
    /\ TableOK(table) /\ \A l \in Loaders : Has(table, l)
    /\ joins \in 0 .. MaxJoins /\ building \in {"none", "built", "finished"}
    /\ \A l \in Loaders \ Preregistered : Build(table, l) = joins
    /\ building # "built" => \A l \in Preregistered : Build(table, l) = joins

LEMMA Built ==
    ASSUME NEW t, TableOK(t), NEW b \in 0 .. MaxJoins, NEW u, u = BuildPlugins(t, b)
    PROVE  /\ TableOK(u) /\ \A l \in Loaders : Has(u, l)
           /\ \A l \in Loaders \ Preregistered : Build(u, l) = b
<1> DEFINE v == PushEach(t, Loaders \ Preregistered, b)
<1>1. u = ReserveEach(v, Preregistered)
  BY DEF BuildPlugins
<1>2. Preregistered \in SUBSET Loaders /\ Loaders \ Preregistered \in SUBSET Loaders
  BY AssetServerAssumption
<1>3. TableOK(v) /\ \A k \in Loaders \ Preregistered : Has(v, k) /\ Build(v, k) = b
  <2> DEFINE S == Loaders \ Preregistered
  <2> HIDE DEF S
  <2>1. S \in SUBSET Loaders /\ v = PushEach(t, S, b)
    BY <1>2 DEF S
  <2> HIDE DEF v
  <2>2. TableOK(v) /\ \A k \in S : Has(v, k) /\ Build(v, k) = b
    BY <2>1, EachPushed
  <2> QED BY <2>2 DEF S
<1> HIDE DEF v
<1>4. /\ TableOK(u) /\ Keeps(v, u) /\ \A k \in Preregistered : Has(u, k)
      /\ \A k \in Loaders : Has(v, k) => Build(u, k) = Build(v, k)
  BY <1>1, <1>2, <1>3, EachReserved
<1> QED BY <1>3, <1>4 DEF Keeps, Has

LEMMA Finished ==
    ASSUME NEW t, TableOK(t), NEW b \in 0 .. MaxJoins, NEW u, u = FinishPlugins(t, b),
           \A l \in Loaders : Has(t, l), \A l \in Loaders \ Preregistered : Build(t, l) = b
    PROVE  TableOK(u) /\ \A l \in Loaders : Has(u, l) /\ Build(u, l) = b
<1>1. Preregistered \in SUBSET Loaders
  BY AssetServerAssumption
<1>2. u = PushEach(t, Preregistered, b)
  BY DEF FinishPlugins
<1>3. /\ TableOK(u) /\ Keeps(t, u)
      /\ \A k \in Preregistered : Has(u, k) /\ Build(u, k) = b
      /\ \A k \in Loaders \ Preregistered : Has(t, k) => Build(u, k) = Build(t, k)
  BY <1>1, <1>2, EachPushed
<1> QED BY <1>3 DEF Keeps, Has

LEMMA TableInitially == Init => TableInv
<1> SUFFICES ASSUME Init PROVE TableInv
  OBVIOUS
<1> DEFINE t == BuildPlugins(NoLoaders, 0)
<1>1. TableOK(NoLoaders)
  BY DEF TableOK, Tables, NoLoaders
<1>2. 0 \in 0 .. MaxJoins
  BY AssetServerAssumption
<1>3. /\ TableOK(t) /\ \A l \in Loaders : Has(t, l)
      /\ \A l \in Loaders \ Preregistered : Build(t, l) = 0
  BY <1>1, <1>2, Built
<1>4. table = FinishPlugins(t, 0) /\ joins = 0 /\ building = "none"
  BY DEF Init
<1> HIDE DEF t
<1>5. TableOK(table) /\ \A l \in Loaders : Has(table, l) /\ Build(table, l) = 0
  BY <1>2, <1>3, <1>4, Finished
<1> QED BY <1>2, <1>4, <1>5, AssetServerAssumption DEF TableInv

LEMMA TableKept == TableInv /\ [Next]_vars => TableInv'
<1> SUFFICES ASSUME TableInv, [Next]_vars PROVE TableInv'
  OBVIOUS
<1>1. CASE BuildThrowaway
  <2>1. /\ building' = "built" /\ joins' = joins + 1 /\ joins < MaxJoins
        /\ table' = BuildPlugins(table, joins')
    BY <1>1 DEF BuildThrowaway
  <2>2. joins' \in 0 .. MaxJoins
    BY <2>1, AssetServerAssumption DEF TableInv
  <2>3. /\ TableOK(table') /\ \A l \in Loaders : Has(table', l)
        /\ \A l \in Loaders \ Preregistered : Build(table', l) = joins'
    BY <2>1, <2>2, Built DEF TableInv
  <2> QED BY <2>1, <2>2, <2>3 DEF TableInv, TableOK, Has, Build
<1>2. CASE FinishThrowaway
  <2>1. building' = "finished" /\ joins' = joins /\ table' = FinishPlugins(table, joins)
    BY <1>2 DEF FinishThrowaway
  <2>2. TableOK(table') /\ \A l \in Loaders : Has(table', l) /\ Build(table', l) = joins
    BY <2>1, Finished DEF TableInv
  <2>3. Preregistered \subseteq Loaders /\ joins \in 0 .. MaxJoins
    BY AssetServerAssumption DEF TableInv
  <2> QED BY <2>1, <2>2, <2>3 DEF TableInv, TableOK, Has, Build
<1>3. CASE Harvest
  <2>1. building = "finished" /\ building' = "none" /\ table' = table /\ joins' = joins
    BY <1>3 DEF Harvest
  <2> QED BY <2>1 DEF TableInv, TableOK, Has, Build
<1>4. ASSUME UNCHANGED <<table, throwaway>> PROVE TableInv'
  <2>1. table' = table /\ joins' = joins /\ building' = building
    BY <1>4 DEF throwaway
  <2> QED BY <2>1 DEF TableInv, TableOK, Has, Build
<1>5. CASE Add \/ handle_internal_asset_events \/ track_assets \/ UNCHANGED vars
  BY <1>4, <1>5 DEF Add, handle_internal_asset_events, track_assets, vars
<1>6. CASE \E p \in Paths : Load(p)
  BY <1>4, <1>6 DEF Load
<1>7. CASE \E h \in handles : FinishLoad(h) \/ DropHandle(h)
  BY <1>4, <1>7 DEF FinishLoad, DropHandle
<1> QED BY <1>1, <1>2, <1>3, <1>5, <1>6, <1>7 DEF Next

LEMMA SlotsCounted ==
    ASSUME NEW t, TableOK(t), \A l \in Loaders : Has(t, l)
    PROVE  Len(t.slots) = Cardinality(Loaders)
<1> DEFINE n == Len(t.slots)
           f == [j \in 1 .. n |-> t.slots[j].of]
<1>1. /\ t.slots \in Seq(Slots) /\ n \in Nat
      /\ \A l \in Loaders : t.at[l] \in 1 .. n /\ t.slots[t.at[l]].of = l
      /\ \A j \in 1 .. n : t.at[t.slots[j].of] = j
  BY DEF TableOK, Tables, Has
<1>2. f \in [1 .. n -> Loaders] /\ \A j \in 1 .. n : f[j] = t.slots[j].of
  <2>1. \A j \in 1 .. n : t.slots[j] \in Slots
    BY <1>1
  <2>2. \A j \in 1 .. n : t.slots[j].of \in Loaders
    BY <2>1 DEF Slots
  <2> QED BY <2>2
<1> HIDE DEF f, n
<1>3. \A i, j \in 1 .. n : f[i] = f[j] => i = j
  BY <1>1, <1>2
<1>4. \A l \in Loaders : \E j \in 1 .. n : f[j] = l
  BY <1>1, <1>2
<1>5. f \in Bijection(1 .. n, Loaders)
  BY <1>2, <1>3, <1>4 DEF Bijection, Injection, Surjection, IsInjective
<1>6. ExistsBijection(1 .. n, Loaders)
  BY <1>5 DEF ExistsBijection
<1>7. Cardinality(1 .. n) = n
  BY <1>1, FS_Interval
<1>8. IsFiniteSet(1 .. n) /\ IsFiniteSet(Loaders)
  BY <1>1, FS_Interval, AssetServerAssumption
<1>9. Cardinality(1 .. n) = Cardinality(Loaders)
  BY <1>6, <1>8, FS_Bijection
<1> QED BY <1>7, <1>9 DEF n

(* However many players joined, the table has one slot for each loader     *)
(* type, filled by the newest app between two joins: reserving a type that *)
(* has a slot adds none (AssetLoaders::reserve), and pushing fills it.     *)
THEOREM LoadersKeepTheirSlot == Spec => []OneSlotPerLoader
<1>1. TableInv => OneSlotPerLoader
  <2> SUFFICES ASSUME TableInv PROVE OneSlotPerLoader
    OBVIOUS
  <2>1. Len(table.slots) = Cardinality(Loaders)
    BY SlotsCounted DEF TableInv
  <2>2. \A l \in Loaders : table.slots[table.at[l]].of = l
    BY DEF TableInv, TableOK, Has
  <2>3. building = "none" => \A l \in Loaders : table.slots[table.at[l]].build = joins
    BY DEF TableInv, Build
  <2> QED BY <2>1, <2>2, <2>3 DEF OneSlotPerLoader
<1> QED BY <1>1, TableInitially, TableKept, PTL DEF Spec

-----------------------------------------------------------------------------
(* The ids.  What the server and the storage hold is a record s with the   *)
(* fields of ProcessDrop's, so that the states between two drops of one    *)
(* track_assets can be spoken of too: k drops of q are processed in s.     *)

InfoKinds == [path : Paths \cup {None}, skip : Nat,
              state : {None, "loading", "loaded", "failed"}]
Entries == [generation : -1 .. MaxGeneration, value : Owners \cup {None}]
Handles == [id : AssetIds, of : Owners]

Live(s, id) == s.storage[id.index].generation = id.generation
PathOf(owner) == IF owner = Added THEN None ELSE owner
Waiting(q, k) == {q[j] : j \in k + 1 .. Len(q)}
Left(q, k, id) == Cardinality({j \in k + 1 .. Len(q) : q[j].id = id})
Held(H, id) == \E h \in H : h.id = id

Typed(s, n, H, q, ev) ==
    /\ s.infos \in [AssetIds -> InfoKinds]
    /\ s.paths \in [Paths -> AssetIds \cup {NoId}]
    /\ s.storage \in [Indices -> Entries]
    /\ s.recycled \in Seq(AssetIds)
    /\ n \in 0 .. MaxIndex /\ H \in SUBSET Handles
    /\ q \in Seq(Handles) /\ ev \in Seq(Results)

\* An index is free, in the list of recycled ones once, or has an entry.
Spare(s, n) ==
    /\ \A j \in 1 .. Len(s.recycled) :
          s.recycled[j].index < n /\ s.storage[s.recycled[j].index] = Vacant
    /\ \A j, k \in 1 .. Len(s.recycled) :
          s.recycled[k].index = s.recycled[j].index => j = k
    /\ \A i \in Indices :
          s.storage[i] = Vacant \/ (s.storage[i].generation \in 0 .. MaxGeneration /\ i < n)

\* Infos, paths and entries tell of the same assets.
Mapped(s) ==
    /\ \A id \in AssetIds :
        IF s.infos[id].path = None
        THEN s.infos[id] = NoInfo /\ (Live(s, id) => s.storage[id.index].value = Added)
        ELSE /\ Live(s, id) /\ s.paths[s.infos[id].path] = id
             /\ s.storage[id.index].value \in {None, s.infos[id].path}
    /\ \A p \in Paths : s.paths[p] # NoId => s.infos[s.paths[p]].path = p

\* A handle, and one whose drop waits, names what it was made for.
Named(s, S) == \A h \in S : Live(s, h.id) /\ s.infos[h.id].path = PathOf(h.of)

\* All drops of an asset that wait but the last are to be skipped, the last only
\* if there is a handle again.
Counted(s, H, q, k) ==
    \A id \in AssetIds :
        Live(s, id) => Left(q, k, id) = s.infos[id].skip + (IF Held(H, id) THEN 0 ELSE 1)

\* A result of a load is for the asset its id still names, or for none.
Stale(s, n, ev) ==
    \A j \in 1 .. Len(ev) :
        /\ ev[j].id.index < n /\ s.infos[ev[j].id].path \in {None, ev[j].of}
        /\ s.storage[ev[j].id.index] # Vacant =>
              ev[j].id.generation <= s.storage[ev[j].id.index].generation
        /\ \A k \in 1 .. Len(s.recycled) :
              s.recycled[k].index = ev[j].id.index =>
                  ev[j].id.generation <= s.recycled[k].generation

Good(s, n, H, q, k, ev) ==
    /\ Typed(s, n, H, q, ev) /\ k \in 0 .. Len(q)
    /\ Spare(s, n) /\ Mapped(s) /\ Named(s, H) /\ Named(s, Waiting(q, k))
    /\ Counted(s, H, q, k) /\ Stale(s, n, ev)

LEMMA IdParts ==
    ASSUME NEW id \in AssetIds
    PROVE  /\ id.index \in Indices /\ id.generation \in 0 .. MaxGeneration
           /\ id.generation \in Nat /\ id.index \in Nat
           /\ \A other \in AssetIds :
                 other.index = id.index /\ other.generation = id.generation => other = id
<1>1. MaxIndex \in Nat /\ MaxGeneration \in Nat
  BY AssetServerAssumption
<1> QED BY <1>1 DEF AssetIds, Indices

LEMMA LeftAfter ==
    ASSUME NEW q \in Seq(Handles), NEW k \in 1 .. Len(q), NEW id
    PROVE  /\ Left(q, k, id) \in Nat
           /\ Left(q, k - 1, id) = Left(q, k, id) + (IF q[k].id = id THEN 1 ELSE 0)
<1> DEFINE n == Len(q)
           S == {j \in k + 1 .. n : q[j].id = id}
           T == {j \in k .. n : q[j].id = id}
<1>1. n \in Nat /\ k \in 1 .. n
  OBVIOUS
<1>2. IsFiniteSet(S)
  <2>1. IsFiniteSet(k + 1 .. n)
    BY <1>1, FS_Interval
  <2>2. S \in SUBSET (k + 1 .. n)
    OBVIOUS
  <2> HIDE DEF S
  <2> QED BY <2>1, <2>2, FS_Subset
<1>3. T = IF q[k].id = id THEN S \cup {k} ELSE S
  <2> HIDE DEF n
  <2>1. \A j \in k .. n : j = k \/ j \in k + 1 .. n
    BY <1>1
  <2>2. \A j \in k + 1 .. n : j \in k .. n
    BY <1>1
  <2>3. k \in k .. n
    BY <1>1
  <2> QED BY <2>1, <2>2, <2>3
<1>4. k \notin S
  BY <1>1
<1>5. Left(q, k, id) = Cardinality(S) /\ Left(q, k - 1, id) = Cardinality(T)
  <2>1. (k - 1) + 1 = k
    OBVIOUS
  <2> QED BY <2>1 DEF Left
<1> HIDE DEF S, T
<1>6. Cardinality(S) \in Nat
  BY <1>2, FS_CardinalityType
<1>7. Cardinality(S \cup {k}) = Cardinality(S) + 1
  BY <1>2, <1>4, FS_AddElement
<1> QED BY <1>3, <1>5, <1>6, <1>7

LEMMA LeftAppended ==
    ASSUME NEW q \in Seq(Handles), NEW k \in 0 .. Len(q), NEW h \in Handles, NEW id
    PROVE  /\ Left(q, k, id) \in Nat
           /\ Left(Append(q, h), k, id) = Left(q, k, id) + (IF h.id = id THEN 1 ELSE 0)
<1> DEFINE n == Len(q)
           r == Append(q, h)
           S == {j \in k + 1 .. n : q[j].id = id}
           T == {j \in k + 1 .. n + 1 : r[j].id = id}
<1>1. /\ n \in Nat /\ k \in 0 .. n
      /\ Len(r) = n + 1 /\ r[n + 1] = h /\ \A j \in 1 .. n : r[j] = q[j]
  OBVIOUS
<1> HIDE DEF n, r
<1>2. IsFiniteSet(S)
  <2>1. IsFiniteSet(k + 1 .. n)
    BY <1>1, FS_Interval
  <2>2. S \in SUBSET (k + 1 .. n)
    OBVIOUS
  <2> HIDE DEF S
  <2> QED BY <2>1, <2>2, FS_Subset
<1>3. T = IF h.id = id THEN S \cup {n + 1} ELSE S
  <2>1. \A j \in k + 1 .. n + 1 : j = n + 1 \/ j \in k + 1 .. n
    BY <1>1
  <2>2. \A j \in k + 1 .. n : j \in k + 1 .. n + 1 /\ j \in 1 .. n
    BY <1>1
  <2>3. n + 1 \in k + 1 .. n + 1
    BY <1>1
  <2> QED BY <1>1, <2>1, <2>2, <2>3
<1>4. n + 1 \notin S
  BY <1>1
<1>5. Left(q, k, id) = Cardinality(S) /\ Left(r, k, id) = Cardinality(T)
  BY <1>1 DEF Left, n
<1> HIDE DEF S, T
<1>6. Cardinality(S) \in Nat
  BY <1>2, FS_CardinalityType
<1>7. Cardinality(S \cup {n + 1}) = Cardinality(S) + 1
  BY <1>2, <1>4, FS_AddElement
<1> QED BY <1>3, <1>5, <1>6, <1>7 DEF r

LEMMA LeftNone ==
    ASSUME NEW q \in Seq(Handles), NEW k \in 0 .. Len(q), NEW id
    PROVE  /\ Left(q, k, id) \in Nat
           /\ Left(q, k, id) = 0 <=> \A h \in Waiting(q, k) : h.id # id
<1> DEFINE n == Len(q)
           S == {j \in k + 1 .. n : q[j].id = id}
<1>1. n \in Nat /\ k \in 0 .. n
  OBVIOUS
<1>2. IsFiniteSet(S)
  <2>1. IsFiniteSet(k + 1 .. n)
    BY <1>1, FS_Interval
  <2>2. S \in SUBSET (k + 1 .. n)
    OBVIOUS
  <2> HIDE DEF S
  <2> QED BY <2>1, <2>2, FS_Subset
<1>3. S = {} <=> \A h \in Waiting(q, k) : h.id # id
  BY DEF Waiting
<1>4. Left(q, k, id) = Cardinality(S)
  BY DEF Left
<1> HIDE DEF S
<1>5. Cardinality(S) \in Nat /\ (Cardinality(S) = 0 <=> S = {})
  BY <1>2, FS_CardinalityType, FS_EmptySet
<1> QED BY <1>3, <1>4, <1>5

LEMMA Member ==
    ASSUME NEW S, NEW q \in Seq(S), NEW j \in 1 .. Len(q)
    PROVE  q[j] \in S
OBVIOUS

-----------------------------------------------------------------------------
(* ReserveReal: u is s with id in use for an asset of o, and m is what     *)
(* next_index is then.                                                     *)

Mints(s, n, id, o, u, m) ==
    /\ id = IF s.recycled = <<>> THEN Id(n, 0)
            ELSE Id(Head(s.recycled).index, Head(s.recycled).generation + 1)
    /\ m = IF s.recycled = <<>> THEN n + 1 ELSE n
    /\ u.recycled = IF s.recycled = <<>> THEN <<>> ELSE Tail(s.recycled)
    /\ u.storage = [s.storage EXCEPT ![id.index] =
                       Entry(id.generation, IF o = Added THEN Added ELSE None)]
    /\ IF o = Added
       THEN u.infos = s.infos /\ u.paths = s.paths
       ELSE /\ s.paths[o] = NoId
            /\ u.infos = [s.infos EXCEPT ![id] = Info(o, "loading")]
            /\ u.paths = [s.paths EXCEPT ![o] = id]

\* The id is new: nothing holds its index, and results that name the index are older.
Unused(s, n, id, u, m, ev) ==
    /\ s.storage[id.index] = Vacant
    /\ n <= m /\ m \in 0 .. MaxIndex /\ id.index < m
    /\ u.recycled \in Seq(AssetIds)
    /\ \A j \in 1 .. Len(u.recycled) :
          /\ u.recycled[j].index # id.index
          /\ \E i \in 1 .. Len(s.recycled) : u.recycled[j] = s.recycled[i]
    /\ \A j, k \in 1 .. Len(u.recycled) :
          u.recycled[k].index = u.recycled[j].index => j = k
    /\ \A j \in 1 .. Len(ev) :
          ev[j].id.index = id.index => ev[j].id.generation < id.generation

LEMMA MintsUnused ==
    ASSUME NEW s, NEW n, NEW H, NEW q, NEW k, NEW ev, Good(s, n, H, q, k, ev),
           NEW id \in AssetIds, NEW o \in Owners, NEW u, NEW m, Mints(s, n, id, o, u, m)
    PROVE  Unused(s, n, id, u, m, ev)
<1> DEFINE c == s.recycled
           d == u.recycled
<1>1. /\ c \in Seq(AssetIds) /\ n \in 0 .. MaxIndex /\ MaxIndex \in Nat
      /\ ev \in Seq(Results) /\ Spare(s, n) /\ Stale(s, n, ev)
  BY AssetServerAssumption DEF Good, Typed
<1>2. \A j \in 1 .. Len(ev) : ev[j] \in Results /\ ev[j].id \in AssetIds
  <2>1. \A j \in 1 .. Len(ev) : ev[j] \in Results
    BY <1>1
  <2> QED BY <2>1 DEF Results
<1>3. CASE c = <<>>
  <2>1. id.index = n /\ id.generation = 0 /\ m = n + 1 /\ d = <<>>
    BY <1>3 DEF Mints, Id
  <2>2. id.index \in Indices
    BY IdParts
  <2>3. s.storage[id.index] = Vacant
    <3>1. n \in Nat
      BY <1>1
    <3> QED BY <1>1, <2>1, <2>2, <3>1 DEF Spare
  <2>4. n <= m /\ m \in 0 .. MaxIndex /\ id.index < m
    BY <1>1, <2>1, <2>2 DEF Indices
  <2>5. \A j \in 1 .. Len(ev) : ev[j].id.index # id.index
    <3>1. \A j \in 1 .. Len(ev) : ev[j].id.index < n
      BY <1>1 DEF Stale
    <3>2. n \in Nat
      BY <1>1
    <3> QED BY <2>1, <3>1, <3>2
  <2>6. Len(d) = 0 /\ 1 .. Len(d) = {} /\ d \in Seq(AssetIds)
    BY <2>1
  <2> QED BY <2>3, <2>4, <2>5, <2>6 DEF Unused
<1>4. CASE c # <<>>
  <2>1. /\ Head(c) = c[1] /\ 1 \in 1 .. Len(c) /\ d = Tail(c)
        /\ d \in Seq(AssetIds) /\ Len(d) = Len(c) - 1 /\ Len(c) \in Nat
        /\ \A j \in 1 .. Len(d) : d[j] = c[j + 1]
    BY <1>1, <1>4 DEF Mints
  <2>2. \A j \in 1 .. Len(d) : j + 1 \in 1 .. Len(c) /\ j + 1 # 1 /\ j \in Nat
    BY <2>1
  <2>3. id.index = c[1].index /\ id.generation = c[1].generation + 1 /\ m = n
    BY <1>4, <2>1 DEF Mints, Id
  <2>4. c[1] \in AssetIds
    BY <1>1, <2>1, Member
  <2>5. s.storage[id.index] = Vacant /\ id.index < n
    BY <1>1, <2>1, <2>3 DEF Spare
  <2>6. n <= m /\ m \in 0 .. MaxIndex /\ id.index < m
    BY <1>1, <2>3, <2>5
  <2>7. ASSUME NEW j \in 1 .. Len(d)
        PROVE  /\ d[j].index # id.index
               /\ \E i \in 1 .. Len(c) : d[j] = c[i]
    <3>1. d[j] = c[j + 1] /\ j + 1 \in 1 .. Len(c) /\ j + 1 # 1
      BY <2>1, <2>2
    <3>2. c[j + 1].index # c[1].index
      BY <1>1, <2>1, <3>1 DEF Spare
    <3> QED BY <2>3, <3>1, <3>2
  <2>8. ASSUME NEW i \in 1 .. Len(d), NEW j \in 1 .. Len(d), d[i].index = d[j].index
        PROVE  i = j
    <3>1. d[j] = c[j + 1] /\ j + 1 \in 1 .. Len(c) /\ d[i] = c[i + 1] /\ i + 1 \in 1 .. Len(c)
      BY <2>1, <2>2
    <3>2. i + 1 = j + 1
      BY <1>1, <2>8, <3>1 DEF Spare
    <3> QED BY <2>2, <3>2
  <2>9. ASSUME NEW j \in 1 .. Len(ev), ev[j].id.index = id.index
        PROVE  ev[j].id.generation < id.generation
    <3>1. ev[j].id.generation <= c[1].generation
      BY <1>1, <2>1, <2>3, <2>9 DEF Stale
    <3>2. ev[j].id.generation \in Nat /\ c[1].generation \in Nat
      BY <1>2, <2>4, IdParts
    <3> QED BY <2>3, <3>1, <3>2
  <2> QED BY <2>1, <2>5, <2>6, <2>7, <2>8, <2>9 DEF Unused
<1> QED BY <1>3, <1>4

\* What s and u hold of the ids, in views that hide the records.
LEMMA MintsViews ==
    ASSUME NEW s, NEW n, NEW H, NEW q, NEW k, NEW ev, Good(s, n, H, q, k, ev),
           NEW id \in AssetIds, NEW o \in Owners, NEW u, NEW m, Mints(s, n, id, o, u, m)
    PROVE  /\ u.infos \in [AssetIds -> InfoKinds]
           /\ u.paths \in [Paths -> AssetIds \cup {NoId}]
           /\ u.storage \in [Indices -> Entries]
           /\ u.storage[id.index] = Entry(id.generation, IF o = Added THEN Added ELSE None)
           /\ \A i \in Indices : i # id.index => u.storage[i] = s.storage[i]
           /\ \A x \in AssetIds : x # id => u.infos[x] = s.infos[x]
           /\ u.infos[id] = IF o = Added THEN s.infos[id] ELSE Info(o, "loading")
           /\ \A p \in Paths : p # o => u.paths[p] = s.paths[p]
           /\ o \in Paths => u.paths[o] = id /\ s.paths[o] = NoId
<1>1. /\ s.infos \in [AssetIds -> InfoKinds] /\ s.paths \in [Paths -> AssetIds \cup {NoId}]
      /\ s.storage \in [Indices -> Entries]
  BY DEF Good, Typed
<1>2. id.index \in Indices /\ id.generation \in -1 .. MaxGeneration
  BY IdParts, AssetServerAssumption
<1>3. Entry(id.generation, IF o = Added THEN Added ELSE None) \in Entries
  BY <1>2 DEF Entry, Entries, Owners
<1>4. /\ u.storage \in [Indices -> Entries]
      /\ u.storage[id.index] = Entry(id.generation, IF o = Added THEN Added ELSE None)
      /\ \A i \in Indices : i # id.index => u.storage[i] = s.storage[i]
  BY <1>1, <1>2, <1>3 DEF Mints
<1>5. CASE o = Added
  <2>1. o \notin Paths /\ u.infos = s.infos /\ u.paths = s.paths
    BY <1>5, AssetServerAssumption DEF Mints
  <2> QED BY <1>1, <1>4, <1>5, <2>1
<1>6. CASE o # Added
  <2>1. /\ o \in Paths /\ s.paths[o] = NoId
        /\ u.infos = [s.infos EXCEPT ![id] = Info(o, "loading")]
        /\ u.paths = [s.paths EXCEPT ![o] = id]
    BY <1>6 DEF Mints, Owners
  <2>2. Info(o, "loading") \in InfoKinds
    BY <2>1 DEF Info, InfoKinds
  <2> QED BY <1>1, <1>4, <1>6, <2>1, <2>2
<1> QED BY <1>5, <1>6

LEMMA Minted ==
    ASSUME NEW s, NEW n, NEW H, NEW q, NEW k, NEW ev, Good(s, n, H, q, k, ev),
           NEW id \in AssetIds, NEW o \in Owners, NEW u, NEW m, Mints(s, n, id, o, u, m)
    PROVE  Good(u, m, H \cup {Handle(id, o)}, q, k, ev)
<1> DEFINE h == Handle(id, o)
           G == H \cup {h}
           i == id.index
<1>1. /\ Typed(s, n, H, q, ev) /\ k \in 0 .. Len(q)
      /\ Spare(s, n) /\ Mapped(s) /\ Named(s, H) /\ Named(s, Waiting(q, k))
      /\ Counted(s, H, q, k) /\ Stale(s, n, ev)
  BY DEF Good
<1>2. Unused(s, n, id, u, m, ev)
  BY MintsUnused
<1>3. /\ u.infos \in [AssetIds -> InfoKinds]
      /\ u.paths \in [Paths -> AssetIds \cup {NoId}]
      /\ u.storage \in [Indices -> Entries]
      /\ u.storage[i] = Entry(id.generation, IF o = Added THEN Added ELSE None)
      /\ \A j \in Indices : j # i => u.storage[j] = s.storage[j]
      /\ \A x \in AssetIds : x # id => u.infos[x] = s.infos[x]
      /\ u.infos[id] = IF o = Added THEN s.infos[id] ELSE Info(o, "loading")
      /\ \A p \in Paths : p # o => u.paths[p] = s.paths[p]
      /\ o \in Paths => u.paths[o] = id /\ s.paths[o] = NoId
  BY MintsViews
<1>4. /\ i \in Indices /\ id.generation \in 0 .. MaxGeneration
      /\ \A x \in AssetIds : x.index \in Indices /\ x.generation \in 0 .. MaxGeneration
      /\ \A x \in AssetIds : x.index = i /\ x.generation = id.generation => x = id
  BY IdParts
<1>5. /\ h \in Handles /\ h.id = id /\ h.of = o
  BY DEF Handles, Handle
<1> HIDE DEF h, i
<1>6. /\ o \in Paths \/ o = Added
      /\ Added \notin Paths /\ None \notin Paths /\ Added # None
  BY AssetServerAssumption DEF Owners, Added, None
<1>7. /\ u.storage[i] # Vacant /\ u.storage[i].generation = id.generation
      /\ u.storage[i].value = IF o = Added THEN Added ELSE None
      /\ s.storage[i] = Vacant /\ s.storage[i].generation = -1
  <2>1. id.generation # -1
    BY <1>4
  <2> QED BY <1>2, <1>3, <2>1 DEF Unused, Entry, Vacant, i
\* Ids that are live in s have another index, and live on.
<1>8. \A x \in AssetIds : Live(s, x) => x.index # i /\ Live(u, x)
  <2> SUFFICES ASSUME NEW x \in AssetIds, Live(s, x) PROVE x.index # i /\ Live(u, x)
    OBVIOUS
  <2>1. x.generation # -1 /\ x.index \in Indices
    BY <1>4
  <2>2. x.index # i
    BY <1>7, <2>1 DEF Live
  <2> QED BY <1>3, <2>1, <2>2 DEF Live
<1>9. \A x \in AssetIds : Live(u, x) => x = id \/ (x.index # i /\ Live(s, x))
  <2> SUFFICES ASSUME NEW x \in AssetIds, Live(u, x) PROVE x = id \/ (x.index # i /\ Live(s, x))
    OBVIOUS
  <2>1. CASE x.index = i
    BY <1>4, <1>7, <2>1 DEF Live
  <2>2. CASE x.index # i
    BY <1>3, <1>4, <2>2 DEF Live
  <2> QED BY <2>1, <2>2
<1>10. ~Live(s, id) /\ s.infos[id] = NoInfo
  <2>1. ~Live(s, id)
    BY <1>8 DEF i
  <2> QED BY <1>1, <2>1 DEF Mapped
<1>11. u.infos[id].path = PathOf(o) /\ u.infos[id].skip = 0
  BY <1>3, <1>6, <1>10 DEF PathOf, Info, NoInfo
<1>12. Typed(u, m, G, q, ev)
  BY <1>1, <1>2, <1>3, <1>5 DEF Typed, Unused
<1>13. Spare(u, m)
  <2>1. ASSUME NEW j \in 1 .. Len(u.recycled)
        PROVE  u.recycled[j].index < m /\ u.storage[u.recycled[j].index] = Vacant
    <3>1. PICK l \in 1 .. Len(s.recycled) : u.recycled[j] = s.recycled[l]
      BY <1>2 DEF Unused
    <3>2. u.recycled[j].index # i /\ n <= m /\ m \in 0 .. MaxIndex
      BY <1>2 DEF Unused, i
    <3>3. u.recycled[j].index < n /\ s.storage[u.recycled[j].index] = Vacant
      BY <1>1, <3>1 DEF Spare
    <3>4. u.recycled[j] \in AssetIds
      BY <1>2, Member DEF Unused
    <3>5. u.recycled[j].index \in Indices /\ n \in 0 .. MaxIndex
      BY <1>1, <1>4, <3>4 DEF Typed
    <3>6. u.recycled[j].index < m
      BY <3>2, <3>3, <3>5, AssetServerAssumption DEF Indices
    <3> QED BY <1>3, <3>2, <3>3, <3>5, <3>6
  <2>2. ASSUME NEW j \in Indices
        PROVE  u.storage[j] = Vacant \/ (u.storage[j].generation \in 0 .. MaxGeneration /\ j < m)
    <3>1. CASE j = i
      <4>1. i < m
        BY <1>2 DEF Unused, i
      <4> QED BY <1>4, <1>7, <3>1, <4>1
    <3>2. CASE j # i
      <4>1. u.storage[j] = s.storage[j]
        BY <1>3, <3>2
      <4>2. s.storage[j] = Vacant \/ (s.storage[j].generation \in 0 .. MaxGeneration /\ j < n)
        BY <1>1 DEF Spare
      <4>3. j < n => j < m
        BY <1>1, <1>2, AssetServerAssumption DEF Unused, Typed, Indices
      <4> QED BY <4>1, <4>2, <4>3
    <3> QED BY <3>1, <3>2
  <2>3. \A j, l \in 1 .. Len(u.recycled) : u.recycled[l].index = u.recycled[j].index => j = l
    BY <1>2 DEF Unused
  <2> QED BY <2>1, <2>2, <2>3 DEF Spare
<1>14. Mapped(u)
  <2>1. ASSUME NEW x \in AssetIds, u.infos[x].path = None
        PROVE  u.infos[x] = NoInfo /\ (Live(u, x) => u.storage[x.index].value = Added)
    <3>1. CASE x = id
      <4>1. o = Added
        BY <1>6, <1>11, <2>1, <3>1 DEF PathOf
      <4> QED BY <1>3, <1>7, <1>10, <3>1, <4>1 DEF i
    <3>2. CASE x # id
      <4>1. u.infos[x] = s.infos[x] /\ s.infos[x] = NoInfo
        BY <1>1, <1>3, <2>1, <3>2 DEF Mapped
      <4>2. ASSUME Live(u, x) PROVE u.storage[x.index].value = Added
        <5>1. x.index # i /\ Live(s, x) /\ x.index \in Indices
          BY <1>4, <1>9, <3>2, <4>2
        <5>2. s.infos[x].path = None
          BY <2>1, <4>1
        <5>3. s.storage[x.index].value = Added
          BY <1>1, <5>1, <5>2 DEF Mapped
        <5> QED BY <1>3, <5>1, <5>3
      <4> QED BY <4>1, <4>2
    <3> QED BY <3>1, <3>2
  <2>2. ASSUME NEW x \in AssetIds, u.infos[x].path # None
        PROVE  /\ Live(u, x) /\ u.paths[u.infos[x].path] = x
               /\ u.storage[x.index].value \in {None, u.infos[x].path}
    <3>1. CASE x = id
      <4>1. o # Added /\ o \in Paths /\ u.infos[x].path = o
        BY <1>6, <1>11, <2>2, <3>1 DEF PathOf
      <4> QED BY <1>3, <1>7, <3>1, <4>1 DEF Live, i
    <3>2. CASE x # id
      <4> DEFINE p == s.infos[x].path
      <4>1. u.infos[x] = s.infos[x] /\ p # None /\ p \in Paths
        <5>1. u.infos[x] = s.infos[x] /\ s.infos[x] \in InfoKinds
          BY <1>1, <1>3, <3>2 DEF Typed
        <5> QED BY <2>2, <5>1 DEF InfoKinds
      <4>2. Live(s, x) /\ s.paths[p] = x /\ s.storage[x.index].value \in {None, p}
        BY <1>1, <4>1 DEF Mapped
      <4>3. x.index # i /\ Live(u, x) /\ x.index \in Indices
        BY <1>4, <1>8, <4>2
      <4>4. p # o
        <5>1. x # NoId
          BY <1>4, AssetServerAssumption DEF NoId, Id, Indices
        <5> QED BY <1>3, <4>1, <4>2, <5>1
      <4> HIDE DEF p
      <4>5. u.paths[p] = x /\ u.storage[x.index] = s.storage[x.index]
        BY <1>3, <4>1, <4>2, <4>3, <4>4
      <4> QED BY <4>1, <4>2, <4>3, <4>5 DEF p
    <3> QED BY <3>1, <3>2
  <2>3. ASSUME NEW p \in Paths, u.paths[p] # NoId PROVE u.infos[u.paths[p]].path = p
    <3>1. CASE p = o
      <4>1. u.paths[p] = id /\ p # Added
        BY <1>3, <1>6, <3>1
      <4> QED BY <1>11, <3>1, <4>1 DEF PathOf
    <3>2. CASE p # o
      <4>1. u.paths[p] = s.paths[p] /\ s.infos[s.paths[p]].path = p
        BY <1>1, <1>3, <2>3, <3>2 DEF Mapped
      <4>2. s.paths[p] \in AssetIds
        BY <1>1, <2>3, <4>1 DEF Typed
      <4>3. s.paths[p] # id
        BY <1>6, <1>10, <4>1 DEF NoInfo
      <4> QED BY <1>3, <4>1, <4>2, <4>3
    <3> QED BY <3>1, <3>2
  <2> QED BY <2>1, <2>2, <2>3 DEF Mapped
\* Handles and drops of s are of other ids.
<1>15. ASSUME NEW S, Named(s, S), NEW x \in S, x \in Handles
       PROVE  x.id # id /\ Live(u, x.id) /\ u.infos[x.id].path = PathOf(x.of)
  <2>1. x.id \in AssetIds /\ Live(s, x.id) /\ s.infos[x.id].path = PathOf(x.of)
    BY <1>15 DEF Named, Handles
  <2>2. x.id # id /\ Live(u, x.id)
    BY <1>8, <1>10, <2>1
  <2> QED BY <1>3, <2>1, <2>2
<1>16. /\ \A x \in H : x \in Handles
       /\ \A x \in Waiting(q, k) : x \in Handles
  <2>1. \A j \in k + 1 .. Len(q) : j \in 1 .. Len(q)
    BY <1>1
  <2> QED BY <1>1, <2>1, Member DEF Typed, Waiting
<1>17. Named(u, G)
  <2>1. Live(u, id)
    BY <1>7 DEF Live, i
  <2> QED BY <1>1, <1>5, <1>11, <1>15, <1>16, <2>1 DEF Named
<1>18. Named(u, Waiting(q, k))
  BY <1>1, <1>15, <1>16 DEF Named
<1>19. Counted(u, G, q, k)
  <2> SUFFICES ASSUME NEW x \in AssetIds, Live(u, x)
               PROVE  Left(q, k, x) = u.infos[x].skip + (IF Held(G, x) THEN 0 ELSE 1)
    BY DEF Counted
  <2>1. CASE x = id
    <3>1. \A y \in Waiting(q, k) : y.id # id
      BY <1>1, <1>15, <1>16
    <3>2. Left(q, k, id) = 0
      BY <1>1, <3>1, LeftNone DEF Typed
    <3>3. Held(G, id)
      BY <1>5 DEF Held
    <3> QED BY <1>11, <2>1, <3>2, <3>3
  <2>2. CASE x # id
    <3>1. Live(s, x) /\ u.infos[x] = s.infos[x]
      BY <1>3, <1>9, <2>2
    <3>2. Held(G, x) <=> Held(H, x)
      BY <1>5, <2>2 DEF Held
    <3>3. Left(q, k, x) = s.infos[x].skip + (IF Held(H, x) THEN 0 ELSE 1)
      BY <1>1, <3>1 DEF Counted
    <3> QED BY <3>1, <3>2, <3>3
  <2> QED BY <2>1, <2>2
<1>20. Stale(u, m, ev)
  <2> SUFFICES ASSUME NEW j \in 1 .. Len(ev)
      PROVE  /\ ev[j].id.index < m /\ u.infos[ev[j].id].path \in {None, ev[j].of}
             /\ u.storage[ev[j].id.index] # Vacant =>
                   ev[j].id.generation <= u.storage[ev[j].id.index].generation
             /\ \A l \in 1 .. Len(u.recycled) :
                   u.recycled[l].index = ev[j].id.index =>
                       ev[j].id.generation <= u.recycled[l].generation
    BY DEF Stale
  <2> DEFINE e == ev[j].id
  <2>1. e \in AssetIds
    <3>1. ev[j] \in Results
      BY <1>1 DEF Typed
    <3> QED BY <3>1 DEF Results
  <2>2. /\ e.index < n /\ s.infos[e].path \in {None, ev[j].of}
        /\ s.storage[e.index] # Vacant => e.generation <= s.storage[e.index].generation
        /\ \A l \in 1 .. Len(s.recycled) :
              s.recycled[l].index = e.index => e.generation <= s.recycled[l].generation
    BY <1>1 DEF Stale
  <2>3. e.index = i => e.generation < id.generation
    BY <1>2 DEF Unused, i
  <2> HIDE DEF e
  <2>4. e.index \in Indices /\ e.generation \in 0 .. MaxGeneration
    BY <1>4, <2>1
  <2>5. e.index < m
    BY <1>1, <1>2, <2>2, <2>4, AssetServerAssumption DEF Unused, Typed, Indices
  <2>6. e # id
    <3> SUFFICES ASSUME e = id PROVE FALSE
      OBVIOUS
    <3>1. e.index = i
      BY DEF i
    <3> QED BY <1>4, <2>3, <3>1
  <2>7. u.infos[e].path \in {None, ev[j].of}
    BY <1>3, <2>1, <2>2, <2>6
  <2>8. u.storage[e.index] # Vacant => e.generation <= u.storage[e.index].generation
    <3>1. CASE e.index = i
      BY <1>4, <1>7, <2>3, <2>4, <3>1
    <3>2. CASE e.index # i
      BY <1>3, <2>2, <2>4, <3>2
    <3> QED BY <3>1, <3>2
  <2>9. ASSUME NEW l \in 1 .. Len(u.recycled), u.recycled[l].index = e.index
        PROVE  e.generation <= u.recycled[l].generation
    <3>1. \E j2 \in 1 .. Len(s.recycled) : u.recycled[l] = s.recycled[j2]
      BY <1>2 DEF Unused
    <3> QED BY <2>2, <2>9, <3>1
  <2> QED BY <2>5, <2>7, <2>8, <2>9 DEF e
<1> QED BY <1>1, <1>12, <1>13, <1>14, <1>17, <1>18, <1>19, <1>20 DEF Good, h

-----------------------------------------------------------------------------
(* What leaves the ids alone: u has other states and values than s, for    *)
(* the same assets.                                                        *)

Revises(s, u) ==
    /\ u.infos \in [AssetIds -> InfoKinds] /\ u.storage \in [Indices -> Entries]
    /\ u.paths = s.paths /\ u.recycled = s.recycled
    /\ \A id \in AssetIds :
        /\ u.infos[id].path = s.infos[id].path
        /\ s.infos[id].path = None => u.infos[id] = s.infos[id]
    /\ \A i \in Indices :
        /\ u.storage[i].generation = s.storage[i].generation
        /\ s.storage[i] = Vacant <=> u.storage[i] = Vacant
        /\ \/ u.storage[i].value = s.storage[i].value
           \/ \E id \in AssetIds :
                id.index = i /\ s.infos[id].path # None /\ u.storage[i].value = s.infos[id].path

LEMMA Revised ==
    ASSUME NEW s, NEW n, NEW H, NEW q, NEW k, NEW ev, Good(s, n, H, q, k, ev),
           NEW u, Revises(s, u)
    PROVE  /\ Typed(u, n, H, q, ev) /\ k \in 0 .. Len(q)
           /\ Spare(u, n) /\ Mapped(u) /\ Named(u, H) /\ Named(u, Waiting(q, k))
           /\ Stale(u, n, ev)
           /\ \A id \in AssetIds : Live(u, id) <=> Live(s, id)
<1>1. /\ Typed(s, n, H, q, ev) /\ k \in 0 .. Len(q)
      /\ Spare(s, n) /\ Mapped(s) /\ Named(s, H) /\ Named(s, Waiting(q, k))
      /\ Stale(s, n, ev)
  BY DEF Good
<1>2. /\ \A x \in AssetIds : x.index \in Indices /\ x.generation \in 0 .. MaxGeneration
      /\ \A x, y \in AssetIds : x.index = y.index /\ x.generation = y.generation => x = y
  BY IdParts
<1>3. \A id \in AssetIds : Live(u, id) <=> Live(s, id)
  BY <1>2 DEF Revises, Live
<1>4. Typed(u, n, H, q, ev)
  BY <1>1 DEF Typed, Revises
<1>5. Spare(u, n)
  <2>1. ASSUME NEW j \in 1 .. Len(s.recycled)
        PROVE  s.recycled[j].index < n /\ u.storage[s.recycled[j].index] = Vacant
    <3>1. s.recycled[j] \in AssetIds
      BY <1>1, Member DEF Typed
    <3>2. s.recycled[j].index \in Indices
      BY <1>2, <3>1
    <3> QED BY <1>1, <3>2 DEF Spare, Revises
  <2>2. \A i \in Indices :
          u.storage[i] = Vacant \/ (u.storage[i].generation \in 0 .. MaxGeneration /\ i < n)
    BY <1>1 DEF Spare, Revises
  <2>3. \A j, l \in 1 .. Len(s.recycled) : s.recycled[l].index = s.recycled[j].index => j = l
    BY <1>1 DEF Spare
  <2>4. u.recycled = s.recycled
    BY DEF Revises
  <2> QED BY <2>1, <2>2, <2>3, <2>4 DEF Spare
<1>6. Mapped(u)
  <2>1. ASSUME NEW x \in AssetIds, Live(s, x),
               u.storage[x.index].value # s.storage[x.index].value
        PROVE  s.infos[x].path # None /\ u.storage[x.index].value = s.infos[x].path
    <3>1. PICK y \in AssetIds : y.index = x.index /\ s.infos[y].path # None
                                /\ u.storage[x.index].value = s.infos[y].path
      BY <1>2, <2>1 DEF Revises
    <3>2. Live(s, y)
      BY <1>1, <3>1 DEF Mapped
    <3>3. y = x
      BY <1>2, <2>1, <3>1, <3>2 DEF Live
    <3> QED BY <3>1, <3>3
  <2>2. ASSUME NEW x \in AssetIds, u.infos[x].path = None
        PROVE  u.infos[x] = NoInfo /\ (Live(u, x) => u.storage[x.index].value = Added)
    <3>1. s.infos[x].path = None /\ u.infos[x] = s.infos[x]
      BY <2>2 DEF Revises
    <3> QED BY <1>1, <1>3, <2>1, <3>1 DEF Mapped
  <2>3. ASSUME NEW x \in AssetIds, u.infos[x].path # None
        PROVE  /\ Live(u, x) /\ u.paths[u.infos[x].path] = x
               /\ u.storage[x.index].value \in {None, u.infos[x].path}
    <3>1. s.infos[x].path # None /\ u.infos[x].path = s.infos[x].path /\ u.paths = s.paths
      BY <2>3 DEF Revises
    <3>2. /\ Live(s, x) /\ s.paths[s.infos[x].path] = x
          /\ s.storage[x.index].value \in {None, s.infos[x].path}
      BY <1>1, <3>1 DEF Mapped
    <3> QED BY <1>3, <2>1, <3>1, <3>2
  <2>4. ASSUME NEW p \in Paths, u.paths[p] # NoId PROVE u.infos[u.paths[p]].path = p
    <3>1. u.paths = s.paths /\ s.paths[p] \in AssetIds
      BY <1>1, <2>4 DEF Revises, Typed
    <3> QED BY <1>1, <2>4, <3>1 DEF Mapped, Revises
  <2> QED BY <2>2, <2>3, <2>4 DEF Mapped
<1>7. \A S : (Named(s, S) /\ \A x \in S : x \in Handles) => Named(u, S)
  BY <1>3 DEF Named, Handles, Revises
<1>8. /\ \A x \in H : x \in Handles
      /\ \A x \in Waiting(q, k) : x \in Handles
  <2>1. \A j \in k + 1 .. Len(q) : j \in 1 .. Len(q)
    BY <1>1
  <2> QED BY <1>1, <2>1, Member DEF Typed, Waiting
<1>9. Stale(u, n, ev)
  <2>1. \A j \in 1 .. Len(ev) : ev[j].id \in AssetIds
    <3>1. \A j \in 1 .. Len(ev) : ev[j] \in Results
      BY <1>1, Member DEF Typed
    <3> QED BY <3>1 DEF Results
  <2>2. \A j \in 1 .. Len(ev) : ev[j].id.index \in Indices
    BY <1>2, <2>1
  <2> QED BY <1>1, <2>1, <2>2 DEF Stale, Revises
<1> QED BY <1>1, <1>3, <1>4, <1>5, <1>6, <1>7, <1>8, <1>9

(* LoadKnown: another handle for a path that has an id.                    *)
LEMMA Handed ==
    ASSUME NEW s, NEW n, NEW H, NEW q, NEW k, NEW ev, Good(s, n, H, q, k, ev),
           NEW p \in Paths, s.paths[p] # NoId, NEW h, h = Handle(s.paths[p], p),
           NEW info \in InfoKinds, info.path = s.infos[s.paths[p]].path,
           info.skip = IF h \in H THEN s.infos[s.paths[p]].skip
                       ELSE s.infos[s.paths[p]].skip + 1,
           NEW u, u.infos = [s.infos EXCEPT ![s.paths[p]] = info],
           u.paths = s.paths, u.storage = s.storage, u.recycled = s.recycled
    PROVE  Good(u, n, H \cup {h}, q, k, ev)
<1> DEFINE id == s.paths[p]
<1>1. /\ Typed(s, n, H, q, ev) /\ Mapped(s) /\ Named(s, H) /\ Counted(s, H, q, k)
  BY DEF Good
<1>2. id \in AssetIds /\ s.infos[id].path = p
  BY <1>1 DEF Typed, Mapped
<1>3. p # None /\ p # Added /\ p \in Owners
  BY AssetServerAssumption DEF Owners
<1> HIDE DEF id
<1>4. h.id = id /\ h.of = p /\ h \in Handles
  BY <1>2, <1>3 DEF Handle, Handles, id
<1>5. /\ u.infos \in [AssetIds -> InfoKinds] /\ u.infos[id] = info
      /\ \A x \in AssetIds : x # id => u.infos[x] = s.infos[x]
  BY <1>1, <1>2 DEF Typed, id
<1>6. Revises(s, u)
  <2>1. \A x \in AssetIds :
          /\ u.infos[x].path = s.infos[x].path
          /\ s.infos[x].path = None => u.infos[x] = s.infos[x]
    BY <1>2, <1>3, <1>5 DEF id
  <2> QED BY <1>1, <1>5, <2>1 DEF Revises, Typed
<1>7. /\ Typed(u, n, H, q, ev) /\ k \in 0 .. Len(q)
      /\ Spare(u, n) /\ Mapped(u) /\ Named(u, H) /\ Named(u, Waiting(q, k))
      /\ Stale(u, n, ev)
      /\ \A x \in AssetIds : Live(u, x) <=> Live(s, x)
  BY <1>6, Revised
<1>8. Live(u, id) /\ u.infos[id].path = PathOf(p)
  <2>1. Live(s, id)
    BY <1>1, <1>2, <1>3 DEF Mapped
  <2> QED BY <1>2, <1>3, <1>5, <1>7, <2>1 DEF PathOf, id
<1>9. Typed(u, n, H \cup {h}, q, ev)
  BY <1>4, <1>7 DEF Typed
<1>10. Named(u, H \cup {h})
  BY <1>4, <1>7, <1>8 DEF Named
\* Whatever else has the id is the same handle.
<1>11. Held(H, id) <=> h \in H
  <2>1. ASSUME NEW g \in H, g.id = id PROVE g = h
    <3>1. s.infos[id].path = PathOf(g.of) /\ g \in Handles
      BY <1>1, <2>1 DEF Named, Typed
    <3>2. g.of = p
      BY <1>2, <1>3, <3>1 DEF PathOf
    <3> QED BY <1>4, <2>1, <3>1, <3>2 DEF Handles
  <2> QED BY <1>4, <2>1 DEF Held
<1>12. Counted(u, H \cup {h}, q, k)
  <2> SUFFICES ASSUME NEW x \in AssetIds, Live(u, x)
               PROVE  Left(q, k, x) = u.infos[x].skip + (IF Held(H \cup {h}, x) THEN 0 ELSE 1)
    BY DEF Counted
  <2>1. Left(q, k, x) = s.infos[x].skip + (IF Held(H, x) THEN 0 ELSE 1)
    BY <1>1, <1>7 DEF Counted
  <2>2. CASE x = id
    <3>1. Held(H \cup {h}, x)
      BY <1>4, <2>2 DEF Held
    <3>2. s.infos[id].skip \in Nat
      BY <1>1, <1>2 DEF Typed, InfoKinds
    <3>3. u.infos[x].skip = s.infos[id].skip + (IF Held(H, x) THEN 0 ELSE 1)
      BY <1>5, <1>11, <2>2, <3>2 DEF id
    <3> QED BY <2>1, <2>2, <3>1, <3>2, <3>3
  <2>3. CASE x # id
    <3>1. Held(H \cup {h}, x) <=> Held(H, x)
      BY <1>4, <2>3 DEF Held
    <3> QED BY <1>5, <2>1, <2>3, <3>1
  <2> QED BY <2>2, <2>3
<1> QED BY <1>7, <1>9, <1>10, <1>12 DEF Good

(* FinishLoad: a result for an asset that has a handle.                    *)
LEMMA ResultSent ==
    ASSUME NEW s, NEW n, NEW H, NEW q, NEW k, NEW ev, Good(s, n, H, q, k, ev),
           NEW e \in Results, Handle(e.id, e.of) \in H
    PROVE  Good(s, n, H, q, k, Append(ev, e))
<1> DEFINE r == Append(ev, e)
           m == Len(ev)
<1>1. /\ Typed(s, n, H, q, ev) /\ Spare(s, n) /\ Named(s, H) /\ Stale(s, n, ev)
  BY DEF Good
<1>2. /\ r \in Seq(Results) /\ m \in Nat /\ Len(r) = m + 1 /\ r[m + 1] = e
      /\ \A j \in 1 .. m : r[j] = ev[j]
  BY <1>1 DEF Typed
<1> HIDE DEF r, m
<1>3. e.id \in AssetIds /\ e.id.index \in Indices /\ e.id.generation \in 0 .. MaxGeneration
      /\ e.of \in Paths /\ e.of # Added
  <2>1. e.id \in AssetIds /\ e.of \in Paths
    BY DEF Results
  <2> QED BY <2>1, IdParts, AssetServerAssumption
<1>4. Live(s, e.id) /\ s.infos[e.id].path = e.of
  <2>1. Live(s, Handle(e.id, e.of).id)
        /\ s.infos[Handle(e.id, e.of).id].path = PathOf(Handle(e.id, e.of).of)
    BY <1>1 DEF Named
  <2> QED BY <1>3, <2>1 DEF Handle, PathOf
<1>5. s.storage[e.id.index] # Vacant /\ s.storage[e.id.index].generation = e.id.generation
  BY <1>3, <1>4 DEF Live, Vacant, Entry
<1>6. e.id.index < n
  BY <1>1, <1>3, <1>5 DEF Spare
<1>7. \A l \in 1 .. Len(s.recycled) : s.recycled[l].index # e.id.index
  BY <1>1, <1>5 DEF Spare
<1>8. Stale(s, n, r)
  <2>1. e.id.generation <= s.storage[e.id.index].generation
    BY <1>3, <1>5
  <2>2. \A j \in 1 .. m + 1 : j \in 1 .. m \/ j = m + 1
    BY <1>2
  <2>3. ASSUME NEW j \in 1 .. Len(r)
        PROVE /\ r[j].id.index < n /\ s.infos[r[j].id].path \in {None, r[j].of}
              /\ s.storage[r[j].id.index] # Vacant =>
                    r[j].id.generation <= s.storage[r[j].id.index].generation
              /\ \A l \in 1 .. Len(s.recycled) :
                    s.recycled[l].index = r[j].id.index =>
                        r[j].id.generation <= s.recycled[l].generation
    <3>1. CASE j \in 1 .. m
      <4>1. r[j] = ev[j] /\ j \in 1 .. Len(ev)
        BY <1>2, <3>1 DEF m
      <4> QED BY <1>1, <4>1 DEF Stale
    <3>2. CASE j = m + 1
      BY <1>2, <1>4, <1>6, <1>7, <2>1, <3>2
    <3> QED BY <1>2, <2>2, <2>3, <3>1, <3>2
  <2> QED BY <2>3 DEF Stale
<1>9. Typed(s, n, H, q, r)
  BY <1>1, <1>2 DEF Typed
<1> QED BY <1>8, <1>9 DEF Good, r

(* DropHandle: the last clone of a handle goes, its drop is yet to be read. *)
LEMMA Dropped ==
    ASSUME NEW s, NEW n, NEW H, NEW q, NEW k, NEW ev, Good(s, n, H, q, k, ev), NEW h \in H
    PROVE  Good(s, n, H \ {h}, Append(q, h), k, ev)
<1> DEFINE r == Append(q, h)
           m == Len(q)
<1>1. /\ Typed(s, n, H, q, ev) /\ k \in 0 .. m /\ Named(s, H) /\ Named(s, Waiting(q, k))
      /\ Counted(s, H, q, k)
  BY DEF Good
<1>2. h \in Handles /\ h.id \in AssetIds
  BY <1>1 DEF Typed, Handles
<1>3. /\ r \in Seq(Handles) /\ m \in Nat /\ Len(r) = m + 1 /\ r[m + 1] = h
      /\ \A j \in 1 .. m : r[j] = q[j]
  BY <1>1, <1>2 DEF Typed
<1>4. ASSUME NEW x PROVE Left(r, k, x) = Left(q, k, x) + (IF h.id = x THEN 1 ELSE 0)
                         /\ Left(q, k, x) \in Nat
  <2>1. q \in Seq(Handles) /\ k \in 0 .. Len(q)
    BY <1>1 DEF Typed
  <2> QED BY <1>2, <2>1, LeftAppended
<1> HIDE DEF r, m
<1>5. k \in 0 .. Len(r) /\ Typed(s, n, H \ {h}, r, ev) /\ Named(s, H \ {h})
  BY <1>1, <1>3 DEF Typed, Named
<1>6. Named(s, Waiting(r, k))
  <2>1. \A x \in Waiting(r, k) : x = h \/ x \in Waiting(q, k)
    <3>1. \A j \in k + 1 .. m + 1 : j = m + 1 \/ (j \in k + 1 .. m /\ j \in 1 .. m)
      BY <1>1, <1>3
    <3> QED BY <1>3, <3>1 DEF Waiting, m
  <2> QED BY <1>1, <2>1 DEF Named
<1>7. Counted(s, H \ {h}, r, k)
  <2> SUFFICES ASSUME NEW x \in AssetIds, Live(s, x)
               PROVE  Left(r, k, x) = s.infos[x].skip + (IF Held(H \ {h}, x) THEN 0 ELSE 1)
    BY DEF Counted
  <2>1. /\ Left(q, k, x) = s.infos[x].skip + (IF Held(H, x) THEN 0 ELSE 1)
        /\ s.infos[x].skip \in Nat
    BY <1>1 DEF Counted, Typed, InfoKinds
  <2>2. CASE x = h.id
    <3>1. Held(H, x)
      BY <2>2 DEF Held
    <3>2. ASSUME NEW g \in H, g.id = x PROVE g = h
      <4>1. PathOf(g.of) = PathOf(h.of) /\ g \in Handles
        BY <1>1, <2>2, <3>2 DEF Named, Typed
      <4>2. g.of = h.of
        BY <1>2, <4>1, AssetServerAssumption DEF PathOf, Handles, Owners
      <4> QED BY <1>2, <2>2, <3>2, <4>1, <4>2 DEF Handles
    <3>3. ~Held(H \ {h}, x)
      BY <3>2 DEF Held
    <3> QED BY <1>4, <2>1, <2>2, <3>1, <3>3
  <2>3. CASE x # h.id
    <3>1. Held(H \ {h}, x) <=> Held(H, x)
      BY <2>3 DEF Held
    <3> QED BY <1>4, <2>1, <2>3, <3>1
  <2> QED BY <2>2, <2>3
<1> QED BY <1>5, <1>6, <1>7 DEF Good, r

-----------------------------------------------------------------------------
(* ProcessDrop: the k-th drop of q is read in s.                           *)

Reads(s, H, q, k, d) ==
    /\ q[k] \in Handles /\ d \in AssetIds
    /\ Live(s, d) /\ s.infos[d].path = PathOf(q[k].of)
    /\ Waiting(q, k) \subseteq Waiting(q, k - 1)
    /\ \A id \in AssetIds :
        /\ Left(q, k, id) \in Nat
        /\ Live(s, id) => Left(q, k, id) + (IF d = id THEN 1 ELSE 0)
                            = s.infos[id].skip + (IF Held(H, id) THEN 0 ELSE 1)

LEMMA Reading ==
    ASSUME NEW s, NEW n, NEW H, NEW q, NEW k \in 1 .. Len(q), NEW ev,
           Good(s, n, H, q, k - 1, ev), NEW d, d = q[k].id
    PROVE  Reads(s, H, q, k, d)
<1>1. q \in Seq(Handles) /\ Named(s, Waiting(q, k - 1)) /\ Counted(s, H, q, k - 1)
  BY DEF Good, Typed
<1>2. q[k] \in Handles
  BY <1>1, Member
<1>3. q[k].id \in AssetIds
  BY <1>2 DEF Handles
<1>4. (k - 1) + 1 = k /\ k \in k .. Len(q) /\ \A j \in k + 1 .. Len(q) : j \in k .. Len(q)
  BY <1>1
<1>5. q[k] \in Waiting(q, k - 1) /\ Waiting(q, k) \subseteq Waiting(q, k - 1)
  BY <1>4 DEF Waiting
<1>6. Live(s, q[k].id) /\ s.infos[q[k].id].path = PathOf(q[k].of)
  BY <1>1, <1>5 DEF Named
<1>7. ASSUME NEW id \in AssetIds
      PROVE  /\ Left(q, k, id) \in Nat
             /\ Live(s, id) => Left(q, k, id) + (IF d = id THEN 1 ELSE 0)
                                 = s.infos[id].skip + (IF Held(H, id) THEN 0 ELSE 1)
  <2>1. /\ Left(q, k, id) \in Nat
        /\ Left(q, k - 1, id) = Left(q, k, id) + (IF d = id THEN 1 ELSE 0)
    BY <1>1, LeftAfter
  <2> QED BY <1>1, <2>1 DEF Counted
<1> QED BY <1>2, <1>3, <1>5, <1>6, <1>7 DEF Reads

LEMMA Updated ==
    ASSUME NEW S, NEW T, NEW f \in [S -> T], NEW x \in S, NEW y \in T,
           NEW g, g = [f EXCEPT ![x] = y]
    PROVE  g \in [S -> T] /\ g[x] = y /\ \A z \in S : z # x => g[z] = f[z]
OBVIOUS

LEMMA SkippedOne ==
    ASSUME NEW s, NEW n, NEW H, NEW q, NEW k \in 1 .. Len(q), NEW ev,
           Good(s, n, H, q, k - 1, ev), NEW id, id = q[k].id,
           s.infos[id].path # None, s.infos[id].skip > 0,
           NEW u, u.infos = [s.infos EXCEPT ![id].skip = @ - 1],
           u.paths = s.paths, u.storage = s.storage, u.recycled = s.recycled
    PROVE  Good(u, n, H, q, k, ev)
<1>1. /\ Typed(s, n, H, q, ev) /\ Named(s, Waiting(q, k - 1))
  BY DEF Good
<1>2. /\ id \in AssetIds /\ Live(s, id)
      /\ Waiting(q, k) \subseteq Waiting(q, k - 1)
      /\ \A x \in AssetIds :
            /\ Left(q, k, x) \in Nat
            /\ Live(s, x) => Left(q, k, x) + (IF id = x THEN 1 ELSE 0)
                               = s.infos[x].skip + (IF Held(H, x) THEN 0 ELSE 1)
  <2>1. Reads(s, H, q, k, id)
    BY Reading
  <2> QED BY <2>1 DEF Reads
<1>3. s.infos[id] \in InfoKinds /\ s.infos[id].skip \in Nat
  BY <1>1, <1>2 DEF Typed, InfoKinds
<1>4. /\ u.infos \in [AssetIds -> InfoKinds]
      /\ u.infos[id].skip = s.infos[id].skip - 1 /\ u.infos[id].path = s.infos[id].path
      /\ \A x \in AssetIds : x # id => u.infos[x] = s.infos[x]
  <2> DEFINE i == [s.infos[id] EXCEPT !.skip = @ - 1]
  <2>1. i \in InfoKinds /\ i.skip = s.infos[id].skip - 1 /\ i.path = s.infos[id].path
    BY <1>3 DEF InfoKinds
  <2>2. u.infos = [s.infos EXCEPT ![id] = i]
    BY <1>1, <1>2 DEF Typed
  <2>3. s.infos \in [AssetIds -> InfoKinds]
    BY <1>1 DEF Typed
  <2> HIDE DEF i
  <2>4. /\ u.infos \in [AssetIds -> InfoKinds] /\ u.infos[id] = i
        /\ \A x \in AssetIds : x # id => u.infos[x] = s.infos[x]
    BY <1>2, <2>1, <2>2, <2>3, Updated
  <2> QED BY <2>1, <2>4
<1>5. Revises(s, u)
  <2>1. \A x \in AssetIds :
          /\ u.infos[x].path = s.infos[x].path
          /\ s.infos[x].path = None => u.infos[x] = s.infos[x]
    BY <1>4
  <2> QED BY <1>1, <1>4, <2>1 DEF Revises, Typed
<1>6. /\ Typed(u, n, H, q, ev)
      /\ Spare(u, n) /\ Mapped(u) /\ Named(u, H) /\ Named(u, Waiting(q, k - 1))
      /\ Stale(u, n, ev)
      /\ \A x \in AssetIds : Live(u, x) <=> Live(s, x)
  BY <1>5, Revised
<1>7. Counted(u, H, q, k)
  <2> SUFFICES ASSUME NEW x \in AssetIds, Live(u, x)
               PROVE  Left(q, k, x) = u.infos[x].skip + (IF Held(H, x) THEN 0 ELSE 1)
    BY DEF Counted
  <2>1. /\ Left(q, k, x) \in Nat
        /\ Left(q, k, x) + (IF id = x THEN 1 ELSE 0)
              = s.infos[x].skip + (IF Held(H, x) THEN 0 ELSE 1)
    BY <1>2, <1>6
  <2>2. CASE x = id
    <3> DEFINE a == s.infos[x].skip
               b == u.infos[x].skip
               c == Left(q, k, x)
               held == IF Held(H, x) THEN 0 ELSE 1
    <3>1. a \in Nat /\ b = a - 1
      BY <1>3, <1>4, <2>2
    <3>2. c \in Nat /\ c + 1 = a + held
      BY <2>1, <2>2
    <3>3. held \in Nat
      OBVIOUS
    <3> HIDE DEF a, b, c, held
    <3>4. c = b + held
      BY <3>1, <3>2, <3>3
    <3> QED BY <3>4 DEF b, c, held
  <2>3. CASE x # id
    <3>1. u.infos[x].skip = s.infos[x].skip /\ s.infos[x].skip \in Nat
      BY <1>1, <1>4, <2>3 DEF Typed, InfoKinds
    <3> QED BY <2>1, <2>3, <3>1
  <2> QED BY <2>2, <2>3
<1>8. Named(u, Waiting(q, k))
  BY <1>2, <1>6 DEF Named
<1>9. k \in 0 .. Len(q)
  OBVIOUS
<1> QED BY <1>6, <1>7, <1>8, <1>9 DEF Good

Forgets(s, id, u) ==
    /\ u.infos = [s.infos EXCEPT ![id] = NoInfo]
    /\ u.paths = [p \in Paths |-> IF p = s.infos[id].path THEN NoId ELSE s.paths[p]]
    /\ u.storage = [s.storage EXCEPT ![id.index] = Vacant]
    /\ u.recycled = Append(s.recycled, id)

LEMMA ForgottenOne ==
    ASSUME NEW s, NEW n, NEW H, NEW q, NEW k \in 1 .. Len(q), NEW ev,
           Good(s, n, H, q, k - 1, ev), NEW id, id = q[k].id, s.infos[id].skip = 0,
           NEW u, Forgets(s, id, u)
    PROVE  Good(u, n, H, q, k, ev)
<1> DEFINE i == id.index
           c == s.recycled
           d == u.recycled
           m == Len(c)
           path == s.infos[id].path
<1>1. /\ Typed(s, n, H, q, ev) /\ Spare(s, n) /\ Mapped(s) /\ Named(s, H)
      /\ Named(s, Waiting(q, k - 1)) /\ Stale(s, n, ev)
  BY DEF Good
<1>2. /\ id \in AssetIds /\ Live(s, id)
      /\ Waiting(q, k) \subseteq Waiting(q, k - 1)
      /\ \A x \in AssetIds :
            /\ Left(q, k, x) \in Nat
            /\ Live(s, x) => Left(q, k, x) + (IF id = x THEN 1 ELSE 0)
                               = s.infos[x].skip + (IF Held(H, x) THEN 0 ELSE 1)
  <2>1. Reads(s, H, q, k, id)
    BY Reading
  <2> QED BY <2>1 DEF Reads
<1>3. /\ i \in Indices /\ id.generation \in 0 .. MaxGeneration
      /\ \A x \in AssetIds : x.index \in Indices /\ x.generation \in 0 .. MaxGeneration
      /\ \A x \in AssetIds : x.index = i /\ x.generation = id.generation => x = id
  BY <1>2, IdParts
\* It was the last drop, and nobody has a handle.
<1>4. ~Held(H, id) /\ Left(q, k, id) = 0
  BY <1>2
<1>5. \A x \in H \cup Waiting(q, k) : x \in Handles /\ x.id \in AssetIds /\ x.id # id
  <2>1. \A j \in k + 1 .. Len(q) : j \in 1 .. Len(q)
    OBVIOUS
  <2>2. \A x \in Waiting(q, k) : x \in Handles
    BY <1>1, <2>1, Member DEF Typed, Waiting
  <2>3. \A x \in Waiting(q, k) : x.id # id
    <3>1. q \in Seq(Handles) /\ k \in 0 .. Len(q)
      BY <1>1 DEF Typed
    <3> QED BY <1>4, <3>1, LeftNone
  <2>4. \A x \in H : x \in Handles /\ x.id # id
    BY <1>1, <1>4 DEF Typed, Held
  <2> QED BY <2>2, <2>3, <2>4 DEF Handles
<1>6. /\ d \in Seq(AssetIds) /\ m \in Nat /\ Len(d) = m + 1 /\ d[m + 1] = id
      /\ \A j \in 1 .. m : d[j] = c[j] /\ c[j] \in AssetIds
      /\ \A j \in 1 .. m + 1 : j \in 1 .. m \/ j = m + 1
  <2>1. c \in Seq(AssetIds) /\ d = Append(c, id)
    BY <1>1 DEF Typed, Forgets
  <2>2. \A j \in 1 .. m : c[j] \in AssetIds
    BY <2>1
  <2>3. id \in AssetIds
    BY <1>2
  <2> HIDE DEF c, d
  <2>4. d \in Seq(AssetIds) /\ m \in Nat /\ Len(d) = m + 1 /\ d[m + 1] = id
    BY <2>1, <2>3
  <2>5. \A j \in 1 .. m : d[j] = c[j]
    BY <2>1, <2>3
  <2>6. \A j \in 1 .. m + 1 : j \in 1 .. m \/ j = m + 1
    BY <2>4
  <2> QED BY <2>2, <2>4, <2>5, <2>6
<1>7. /\ u.infos \in [AssetIds -> InfoKinds] /\ u.infos[id] = NoInfo
      /\ \A x \in AssetIds : x # id => u.infos[x] = s.infos[x]
  <2>1. NoInfo \in InfoKinds
    BY DEF NoInfo, InfoKinds
  <2> QED BY <1>1, <1>2, <2>1 DEF Typed, Forgets
<1>8. /\ u.storage \in [Indices -> Entries] /\ u.storage[i] = Vacant
      /\ \A j \in Indices : j # i => u.storage[j] = s.storage[j]
  <2>1. Vacant \in Entries
    BY AssetServerAssumption DEF Vacant, Entry, Entries
  <2> QED BY <1>1, <1>3, <2>1 DEF Typed, Forgets
<1>9. /\ u.paths \in [Paths -> AssetIds \cup {NoId}]
      /\ \A p \in Paths : u.paths[p] = IF p = path THEN NoId ELSE s.paths[p]
  BY <1>1 DEF Typed, Forgets
<1>10. s.storage[i] # Vacant /\ s.storage[i].generation = id.generation
  BY <1>2, <1>3 DEF Live, Vacant, Entry
<1>11. Vacant.generation = -1
  BY DEF Vacant, Entry
<1>12. i \in Nat /\ i < n
  BY <1>1, <1>3, <1>10 DEF Spare, Indices
<1> HIDE DEF i, c, d, m, path
\* The other ids that live have other indices.
<1>13. \A x \in AssetIds : x # id => (Live(u, x) <=> Live(s, x)) /\ (Live(s, x) => x.index # i)
  <2> SUFFICES ASSUME NEW x \in AssetIds, x # id
               PROVE  (Live(u, x) <=> Live(s, x)) /\ (Live(s, x) => x.index # i)
    OBVIOUS
  <2>1. x.index \in Indices /\ x.generation # -1
    BY <1>3
  <2>2. CASE x.index = i
    <3>1. ~Live(s, x)
      BY <1>3, <1>10, <2>2 DEF Live
    <3>2. ~Live(u, x)
      BY <1>8, <1>11, <2>1, <2>2 DEF Live
    <3> QED BY <3>1, <3>2
  <2>3. CASE x.index # i
    BY <1>8, <2>1, <2>3 DEF Live
  <2> QED BY <2>2, <2>3
<1>14. ~Live(u, id)
  BY <1>3, <1>8, <1>11 DEF Live, i
<1>15. Typed(u, n, H, q, ev)
  BY <1>1, <1>6, <1>7, <1>8, <1>9 DEF Typed, d
<1>16. \A j \in 1 .. m : c[j].index # i /\ c[j].index < n /\ s.storage[c[j].index] = Vacant
  BY <1>1, <1>10 DEF Spare, c, m
<1>17. Spare(u, n)
  <2>1. ASSUME NEW j \in 1 .. m + 1
        PROVE  d[j].index < n /\ u.storage[d[j].index] = Vacant
    <3>1. CASE j = m + 1
      BY <1>6, <1>8, <1>12, <3>1 DEF i
    <3>2. CASE j \in 1 .. m
      <4>1. d[j] = c[j] /\ c[j].index \in Indices
        BY <1>3, <1>6, <3>2
      <4> QED BY <1>8, <1>16, <3>2, <4>1
    <3> QED BY <1>6, <3>1, <3>2
  <2>2. ASSUME NEW j \in 1 .. m + 1, NEW l \in 1 .. m + 1, d[l].index = d[j].index
        PROVE  j = l
    <3>1. CASE j \in 1 .. m /\ l \in 1 .. m
      <4>1. d[j] = c[j] /\ d[l] = c[l]
        BY <1>6, <3>1
      <4> QED BY <1>1, <2>2, <3>1, <4>1 DEF Spare, c, m
    <3>2. CASE j = m + 1 /\ l = m + 1
      BY <3>2
    <3>3. CASE j = m + 1 /\ l \in 1 .. m
      BY <1>6, <1>16, <2>2, <3>3 DEF i
    <3>4. CASE l = m + 1 /\ j \in 1 .. m
      BY <1>6, <1>16, <2>2, <3>4 DEF i
    <3> QED BY <1>6, <3>1, <3>2, <3>3, <3>4
  <2>3. \A j \in Indices :
          u.storage[j] = Vacant \/ (u.storage[j].generation \in 0 .. MaxGeneration /\ j < n)
    <3> SUFFICES ASSUME NEW j \in Indices
        PROVE u.storage[j] = Vacant \/ (u.storage[j].generation \in 0 .. MaxGeneration /\ j < n)
      OBVIOUS
    <3>1. s.storage[j] = Vacant \/ (s.storage[j].generation \in 0 .. MaxGeneration /\ j < n)
      BY <1>1 DEF Spare
    <3> QED BY <1>8, <3>1
  <2> QED BY <1>6, <2>1, <2>2, <2>3 DEF Spare, d
<1>18. Mapped(u)
  <2>1. ASSUME NEW x \in AssetIds
        PROVE  IF u.infos[x].path = None
               THEN u.infos[x] = NoInfo /\ (Live(u, x) => u.storage[x.index].value = Added)
               ELSE /\ Live(u, x) /\ u.paths[u.infos[x].path] = x
                    /\ u.storage[x.index].value \in {None, u.infos[x].path}
    <3>1. CASE x = id
      BY <1>7, <1>14, <3>1 DEF NoInfo
    <3>2. CASE x # id
      <4>1. u.infos[x] = s.infos[x] /\ x.index \in Indices
        BY <1>3, <1>7, <3>2
      <4>2. CASE s.infos[x].path = None
        <5>1. s.infos[x] = NoInfo /\ (Live(s, x) => s.storage[x.index].value = Added)
          BY <1>1, <4>2 DEF Mapped
        <5> QED BY <1>8, <1>13, <3>2, <4>1, <4>2, <5>1
      <4>3. CASE s.infos[x].path # None
        <5> DEFINE p == s.infos[x].path
        <5>1. Live(s, x) /\ s.paths[p] = x /\ s.storage[x.index].value \in {None, p}
          BY <1>1, <4>3 DEF Mapped
        <5>2. p \in Paths
          <6>1. s.infos[x] \in InfoKinds
            BY <1>1 DEF Typed
          <6> QED BY <4>3, <6>1 DEF InfoKinds
        <5>3. p # path
          <6> SUFFICES ASSUME p = path PROVE FALSE
            OBVIOUS
          <6>1. s.paths[path] = id
            BY <1>1, <1>2, <4>3 DEF Mapped, path
          <6> QED BY <3>2, <5>1, <6>1
        <5> HIDE DEF p
        <5>4. u.paths[p] = x /\ u.storage[x.index] = s.storage[x.index] /\ Live(u, x)
          BY <1>8, <1>9, <1>13, <3>2, <4>1, <5>1, <5>2, <5>3
        <5> QED BY <4>1, <4>3, <5>1, <5>4 DEF p
      <4> QED BY <4>2, <4>3
    <3> QED BY <3>1, <3>2
  <2>2. ASSUME NEW p \in Paths, u.paths[p] # NoId PROVE u.infos[u.paths[p]].path = p
    <3>1. p # path /\ u.paths[p] = s.paths[p]
      BY <1>9, <2>2
    <3>2. s.infos[s.paths[p]].path = p /\ s.paths[p] \in AssetIds
      BY <1>1, <2>2, <3>1 DEF Mapped, Typed
    <3>3. s.paths[p] # id
      BY <3>1, <3>2 DEF path
    <3> QED BY <1>7, <3>1, <3>2, <3>3
  <2> QED BY <2>1, <2>2 DEF Mapped
<1>19. ASSUME NEW S \in SUBSET (H \cup Waiting(q, k)), Named(s, S) PROVE Named(u, S)
  <2> SUFFICES ASSUME NEW x \in S PROVE Live(u, x.id) /\ u.infos[x.id].path = PathOf(x.of)
    BY DEF Named
  <2>1. x.id \in AssetIds /\ x.id # id
    BY <1>5
  <2>2. Live(s, x.id) /\ s.infos[x.id].path = PathOf(x.of)
    BY <1>19 DEF Named
  <2> QED BY <1>7, <1>13, <2>1, <2>2
<1>20. Named(u, H) /\ Named(u, Waiting(q, k))
  <2>1. Named(s, Waiting(q, k))
    BY <1>1, <1>2 DEF Named
  <2> QED BY <1>1, <1>19, <2>1
<1>21. Counted(u, H, q, k)
  <2> SUFFICES ASSUME NEW x \in AssetIds, Live(u, x)
               PROVE  Left(q, k, x) = u.infos[x].skip + (IF Held(H, x) THEN 0 ELSE 1)
    BY DEF Counted
  <2>1. x # id
    BY <1>14
  <2>2. Live(s, x) /\ u.infos[x] = s.infos[x]
    BY <1>7, <1>13, <2>1
  <2>3. Left(q, k, x) \in Nat
        /\ Left(q, k, x) + 0 = s.infos[x].skip + (IF Held(H, x) THEN 0 ELSE 1)
    BY <1>2, <2>1, <2>2
  <2> QED BY <2>2, <2>3
<1>22. Stale(u, n, ev)
  <2> SUFFICES ASSUME NEW j \in 1 .. Len(ev)
      PROVE  /\ ev[j].id.index < n /\ u.infos[ev[j].id].path \in {None, ev[j].of}
             /\ u.storage[ev[j].id.index] # Vacant =>
                   ev[j].id.generation <= u.storage[ev[j].id.index].generation
             /\ \A l \in 1 .. Len(u.recycled) :
                   u.recycled[l].index = ev[j].id.index =>
                       ev[j].id.generation <= u.recycled[l].generation
    BY DEF Stale
  <2> DEFINE e == ev[j].id
  <2>1. e \in AssetIds
    <3>1. ev[j] \in Results
      BY <1>1 DEF Typed
    <3> QED BY <3>1 DEF Results
  <2>2. /\ e.index < n /\ s.infos[e].path \in {None, ev[j].of}
        /\ s.storage[e.index] # Vacant => e.generation <= s.storage[e.index].generation
        /\ \A l \in 1 .. m : c[l].index = e.index => e.generation <= c[l].generation
    BY <1>1 DEF Stale, c, m
  <2> HIDE DEF e
  <2>3. e.index \in Indices
    BY <1>3, <2>1
  <2>4. u.infos[e].path \in {None, ev[j].of}
    BY <1>7, <2>1, <2>2 DEF NoInfo
  <2>5. u.storage[e.index] # Vacant => e.generation <= u.storage[e.index].generation
    BY <1>8, <2>2, <2>3
  <2>6. ASSUME NEW l \in 1 .. m + 1, d[l].index = e.index
        PROVE  e.generation <= d[l].generation
    <3>1. CASE l \in 1 .. m
      BY <1>6, <2>2, <2>6, <3>1
    <3>2. CASE l = m + 1
      <4>1. e.index = i /\ d[l] = id
        BY <1>6, <2>6, <3>2 DEF i
      <4> QED BY <1>10, <2>2, <4>1
    <3> QED BY <1>6, <3>1, <3>2
  <2> QED BY <1>6, <2>2, <2>4, <2>5, <2>6 DEF e, d
<1>23. k \in 0 .. Len(q)
  OBVIOUS
<1> QED BY <1>15, <1>17, <1>18, <1>20, <1>21, <1>22, <1>23 DEF Good

-----------------------------------------------------------------------------
(* The folds of track_assets and handle_internal_asset_events.             *)

Servers ==
    [infos : [AssetIds -> InfoKinds], paths : [Paths -> AssetIds \cup {NoId}],
     storage : [Indices -> Entries], recycled : Seq(AssetIds)]

LEMMA DropTyped ==
    ASSUME NEW s \in Servers, NEW drop \in Handles
    PROVE  /\ ProcessDrop(s, drop) \in Servers
           /\ Forgets(s, drop.id, Forget(s, drop.id))
<1> DEFINE id == drop.id
           i == [s.infos[id] EXCEPT !.skip = @ - 1]
<1>1. /\ s.infos \in [AssetIds -> InfoKinds] /\ s.paths \in [Paths -> AssetIds \cup {NoId}]
      /\ s.storage \in [Indices -> Entries] /\ s.recycled \in Seq(AssetIds)
  BY DEF Servers
<1>2. id \in AssetIds /\ id.index \in Indices
  <2>1. id \in AssetIds
    BY DEF Handles
  <2> QED BY <2>1, IdParts
<1>3. NoInfo \in InfoKinds /\ Vacant \in Entries
  BY AssetServerAssumption DEF NoInfo, InfoKinds, Vacant, Entry, Entries
<1>4. Forget(s, id) \in Servers
  <2>1. [s.infos EXCEPT ![id] = NoInfo] \in [AssetIds -> InfoKinds]
    BY <1>1, <1>3
  <2>2. [p \in Paths |-> IF p = s.infos[id].path THEN NoId ELSE s.paths[p]]
          \in [Paths -> AssetIds \cup {NoId}]
    BY <1>1
  <2>3. [s.storage EXCEPT ![id.index] = Vacant] \in [Indices -> Entries]
    BY <1>1, <1>3
  <2>4. Append(s.recycled, id) \in Seq(AssetIds)
    BY <1>1, <1>2
  <2> QED BY <2>1, <2>2, <2>3, <2>4 DEF Forget, Servers
<1>5. Forgets(s, id, Forget(s, id))
  BY DEF Forget, Forgets
<1>6. ASSUME s.infos[id].skip > 0 PROVE [s EXCEPT !.infos[id].skip = @ - 1] \in Servers
  <2>1. s.infos[id] \in InfoKinds
    BY <1>1, <1>2
  <2>2. i \in InfoKinds
    BY <1>6, <2>1 DEF InfoKinds
  <2> HIDE DEF i
  <2>3. [s.infos EXCEPT ![id] = i] \in [AssetIds -> InfoKinds]
    BY <1>1, <1>2, <2>2
  <2>4. [s EXCEPT !.infos[id].skip = @ - 1] = [s EXCEPT !.infos = [s.infos EXCEPT ![id] = i]]
    BY <1>1, <1>2 DEF i, Servers
  <2> QED BY <2>3, <2>4 DEF Servers
<1> QED BY <1>4, <1>5, <1>6 DEF ProcessDrop

LEMMA DropProcessed ==
    ASSUME NEW s \in Servers, NEW n, NEW H, NEW q, NEW k \in 1 .. Len(q), NEW ev,
           Good(s, n, H, q, k - 1, ev), NEW u, u = ProcessDrop(s, q[k])
    PROVE  u \in Servers /\ Good(u, n, H, q, k, ev)
<1> DEFINE d == q[k]
           id == d.id
<1>1. q[k] \in Handles /\ id \in AssetIds /\ s.infos[id].path = PathOf(q[k].of)
  <2>1. Reads(s, H, q, k, id)
    BY Reading
  <2> QED BY <2>1 DEF Reads
<1>2. u \in Servers /\ Forgets(s, id, Forget(s, id))
  BY <1>1, DropTyped
<1>3. s.infos[id].skip \in Nat
  BY <1>1 DEF Servers, InfoKinds
<1>4. CASE d.of = Added
  <2>1. s.infos[id].path = None
    BY <1>1, <1>4 DEF PathOf
  <2>2. s.infos[id].skip = 0
    BY <1>1, <2>1 DEF Good, Mapped, NoInfo
  <2>3. u = Forget(s, id)
    BY <1>4 DEF ProcessDrop
  <2> QED BY <1>2, <2>2, <2>3, ForgottenOne
<1>5. CASE d.of # Added
  <2>1. s.infos[id].path # None
    BY <1>1, <1>5, AssetServerAssumption DEF PathOf, Handles, Owners
  <2>2. CASE s.infos[id].skip > 0
    <3>1. u = [s EXCEPT !.infos[id].skip = @ - 1]
      BY <1>5, <2>1, <2>2 DEF ProcessDrop
    <3>2. /\ u.infos = [s.infos EXCEPT ![id].skip = @ - 1]
          /\ u.paths = s.paths /\ u.storage = s.storage /\ u.recycled = s.recycled
      BY <3>1 DEF Servers
    <3> QED BY <1>2, <2>1, <2>2, <3>2, SkippedOne
  <2>3. CASE s.infos[id].skip = 0
    <3>1. u = Forget(s, id)
      BY <1>5, <2>1, <2>3 DEF ProcessDrop
    <3> QED BY <1>2, <2>3, <3>1, ForgottenOne
  <2> QED BY <1>3, <2>2, <2>3
<1> QED BY <1>4, <1>5

LEMMA DropsProcessed ==
    ASSUME NEW t \in Servers, NEW n0, NEW H, NEW q, NEW ev, Good(t, n0, H, q, 0, ev),
           NEW n \in Nat, n = Len(q)
    PROVE  /\ FoldLeft(ProcessDrop, t, q) \in Servers
           /\ Good(FoldLeft(ProcessDrop, t, q), n0, H, q, n, ev)
<1> DEFINE Fold(g) == g = [s \in SUBSET DOMAIN q |->
                              IF s = {} THEN t ELSE ProcessDrop(g[s \ {Max(s)}], q[Max(s)])]
           fold == CHOOSE g : Fold(g)
           act == [x \in Servers \X (1 .. n) |-> ProcessDrop(x[1], q[x[2]])]
<1>1. DOMAIN q = 1 .. n /\ t \in Servers /\ \A i \in 1 .. n : q[i] \in Handles
  BY Member DEF Good, Typed
<1> HIDE DEF Fold, fold, act
<1>2. act \in [Servers \X (1 .. n) -> Servers]
  <2>1. ASSUME NEW x \in Servers, NEW i \in 1 .. n PROVE ProcessDrop(x, q[i]) \in Servers
    BY <1>1, DropTyped
  <2> QED BY <2>1 DEF act
<1>3. PICK g : Folds(g, n, Servers, act, t)
  BY <1>1, <1>2, FoldExists
<1>4. Fold(g)
  <2>1. ASSUME NEW s \in SUBSET (1 .. n), s # {}
        PROVE  g[s] = ProcessDrop(g[s \ {Max(s)}], q[Max(s)])
    <3> DEFINE k == Max(s)
    <3>1. k \in 1 .. n
      BY <2>1, MaxIs
    <3>2. g[s] = act[<<g[s \ {k}], k>>]
      BY <1>3, <2>1 DEF Folds
    <3> HIDE DEF k
    <3>3. <<g[s \ {k}], k>> \in Servers \X (1 .. n)
      BY <1>3, <3>1 DEF Folds
    <3> QED BY <3>2, <3>3 DEF k, act
  <2>2. g = [s \in SUBSET (1 .. n) |-> g[s]] /\ g[{}] = t
    BY <1>3 DEF Folds
  <2> QED BY <1>1, <2>1, <2>2 DEF Fold
<1>5. Fold(fold)
  BY <1>4 DEF fold
<1>6. FoldLeft(ProcessDrop, t, q) = fold[DOMAIN q]
  BY DEF FoldLeft, MapThenFoldSet, fold, Fold
<1>7. fold[{}] = t
  BY <1>1, <1>5 DEF Fold
<1>8. ASSUME NEW k \in 1 .. n
      PROVE  fold[1 .. k] = ProcessDrop(fold[1 .. k - 1], q[k])
  <2>1. /\ 1 .. k \in SUBSET DOMAIN q /\ 1 .. k # {}
        /\ Max(1 .. k) = k /\ (1 .. k) \ {k} = 1 .. k - 1
    BY <1>1, Prefix
  <2> QED BY <1>5, <2>1 DEF Fold
<1> DEFINE S == {m \in 0 .. n : fold[1 .. m] \in Servers /\ Good(fold[1 .. m], n0, H, q, m, ev)}
<1>9. 0 \in S
  <2>1. 1 .. 0 = {} /\ 0 \in 0 .. n
    OBVIOUS
  <2>2. t \in Servers /\ Good(t, n0, H, q, 0, ev)
    BY <1>1
  <2> QED BY <1>7, <2>1, <2>2
<1>10. ASSUME NEW m \in 1 .. n, m - 1 \in S PROVE m \in S
  <2> DEFINE v == fold[1 .. m - 1]
  <2>1. v \in Servers /\ Good(v, n0, H, q, m - 1, ev) /\ fold[1 .. m] = ProcessDrop(v, q[m])
    BY <1>8, <1>10
  <2> HIDE DEF v
  <2>2. fold[1 .. m] \in Servers /\ Good(fold[1 .. m], n0, H, q, m, ev)
    BY <1>1, <2>1, DropProcessed
  <2> QED BY <2>2
<1>11. n \in S
  <2> HIDE DEF S
  <2> QED BY <1>9, <1>10, Reaches
<1>12. fold[1 .. n] \in Servers /\ Good(fold[1 .. n], n0, H, q, n, ev)
  BY <1>11
<1> QED BY <1>1, <1>6, <1>12

Loads == [infos : [AssetIds -> InfoKinds], storage : [Indices -> Entries]]

\* What y is to s while results are read: nothing but load states and values differ.
AppliedTo(s, y) ==
    /\ y \in Loads
    /\ \A id \in AssetIds :
        /\ y.infos[id].path = s.infos[id].path /\ y.infos[id].skip = s.infos[id].skip
        /\ s.infos[id].path = None => y.infos[id] = s.infos[id]
    /\ \A i \in Indices :
        /\ y.storage[i].generation = s.storage[i].generation
        /\ s.storage[i] = Vacant <=> y.storage[i] = Vacant
        /\ \/ y.storage[i].value = s.storage[i].value
           \/ \E id \in AssetIds :
                id.index = i /\ s.infos[id].path # None /\ y.storage[i].value = s.infos[id].path

LEMMA ApplyTyped ==
    ASSUME NEW y \in Loads, NEW e \in Results
    PROVE  Apply(y, e) \in Loads
<1> DEFINE id == e.id
           info == [y.infos[id] EXCEPT !.state = e.state]
           entry == [y.storage[id.index] EXCEPT !.value = e.of]
<1>1. y.infos \in [AssetIds -> InfoKinds] /\ y.storage \in [Indices -> Entries]
  BY DEF Loads
<1>2. id \in AssetIds /\ id.index \in Indices /\ e.of \in Paths /\ e.state \in {"loaded", "failed"}
  <2>1. id \in AssetIds /\ e.of \in Paths /\ e.state \in {"loaded", "failed"}
    BY DEF Results
  <2> QED BY <2>1, IdParts
<1>3. info \in InfoKinds
  <2>1. y.infos[id] \in InfoKinds
    BY <1>1, <1>2
  <2> QED BY <1>2, <2>1 DEF InfoKinds
<1>4. entry \in Entries
  <2>1. y.storage[id.index] \in Entries
    BY <1>1, <1>2
  <2> QED BY <1>2, <2>1 DEF Entries, Owners
<1>5. /\ [y.infos EXCEPT ![id].state = e.state] = [y.infos EXCEPT ![id] = info]
      /\ [y.storage EXCEPT ![id.index].value = e.of] = [y.storage EXCEPT ![id.index] = entry]
  BY <1>1, <1>2
<1> HIDE DEF info, entry
<1>6. /\ [y.infos EXCEPT ![id] = info] \in [AssetIds -> InfoKinds]
      /\ [y.storage EXCEPT ![id.index] = entry] \in [Indices -> Entries]
  BY <1>1, <1>2, <1>3, <1>4
<1> QED BY <1>1, <1>5, <1>6 DEF Apply, Loads

LEMMA ResultApplied ==
    ASSUME NEW s, NEW n, NEW H, NEW q, NEW k, NEW ev, Good(s, n, H, q, k, ev),
           NEW y, AppliedTo(s, y), NEW j \in 1 .. Len(ev), NEW z, z = Apply(y, ev[j])
    PROVE  AppliedTo(s, z)
<1> DEFINE e == ev[j]
           id == e.id
           i == id.index
           info == [y.infos[id] EXCEPT !.state = e.state]
           entry == [y.storage[i] EXCEPT !.value = e.of]
<1>1. e \in Results /\ Mapped(s) /\ s.infos[id].path \in {None, e.of}
  BY DEF Good, Typed, Stale
<1>2. id \in AssetIds /\ i \in Indices /\ e.of \in Paths
  <2>1. id \in AssetIds /\ e.of \in Paths
    BY <1>1 DEF Results
  <2> QED BY <2>1, IdParts
<1>3. y \in Loads /\ z \in Loads
  BY <1>1, ApplyTyped DEF AppliedTo
<1>4. CASE y.infos[id].path = None
  BY <1>4 DEF Apply
<1>5. CASE y.infos[id].path # None
  <2>1. s.infos[id].path = e.of /\ s.infos[id].path # None
    BY <1>1, <1>2, <1>5 DEF AppliedTo
  <2>2. /\ y.infos \in [AssetIds -> InfoKinds] /\ y.infos[id] \in InfoKinds
        /\ y.storage \in [Indices -> Entries] /\ y.storage[i] \in Entries
    BY <1>2, <1>3 DEF Loads
  <2>3. info.path = y.infos[id].path /\ info.skip = y.infos[id].skip
    BY <2>2 DEF InfoKinds
  <2>4. entry.generation = y.storage[i].generation /\ entry.value = e.of
    BY <2>2 DEF Entries
  <2>5. z.infos = [y.infos EXCEPT ![id] = info]
    BY <1>2, <1>5, <2>2 DEF Apply
  <2>6. z.storage = IF e.state = "loaded" THEN [y.storage EXCEPT ![i] = entry] ELSE y.storage
    BY <1>2, <1>5, <2>2 DEF Apply
  <2>7. y.storage[i] # Vacant /\ entry # Vacant /\ s.storage[i] # Vacant
    <3>1. Live(s, id)
      BY <1>1, <1>2, <2>1 DEF Mapped
    <3>2. s.storage[i].generation # -1
      BY <1>2, <3>1, IdParts DEF Live
    <3>3. y.storage[i].generation # -1
      BY <1>2, <3>2 DEF AppliedTo
    <3> QED BY <2>4, <3>2, <3>3 DEF Vacant, Entry
  <2> HIDE DEF info, entry, i, e
  <2>8. z.infos[id] = info /\ \A x \in AssetIds : x # id => z.infos[x] = y.infos[x]
    BY <1>2, <2>2, <2>5
  <2>9. /\ z.storage[i] = y.storage[i] \/ z.storage[i] = entry
        /\ \A l \in Indices : l # i => z.storage[l] = y.storage[l]
    BY <1>2, <2>2, <2>6
  <2>10. \A x \in AssetIds :
          /\ z.infos[x].path = s.infos[x].path /\ z.infos[x].skip = s.infos[x].skip
          /\ s.infos[x].path = None => z.infos[x] = s.infos[x]
    BY <1>2, <2>1, <2>3, <2>8 DEF AppliedTo
  <2>11. ASSUME NEW l \in Indices
         PROVE  /\ z.storage[l].generation = s.storage[l].generation
                /\ s.storage[l] = Vacant <=> z.storage[l] = Vacant
                /\ \/ z.storage[l].value = s.storage[l].value
                   \/ \E x \in AssetIds :
                        /\ x.index = l /\ s.infos[x].path # None
                        /\ z.storage[l].value = s.infos[x].path
    <3>1. CASE z.storage[l] = y.storage[l]
      BY <3>1 DEF AppliedTo
    <3>2. CASE z.storage[l] # y.storage[l]
      <4>1. l = i /\ z.storage[l] = entry
        BY <2>9, <3>2
      <4>2. id.index = l
        BY <4>1 DEF i
      <4>3. z.storage[l].generation = s.storage[l].generation
        BY <1>2, <2>4, <4>1 DEF AppliedTo
      <4>4. s.storage[l] # Vacant /\ z.storage[l] # Vacant /\ z.storage[l].value = s.infos[id].path
        BY <2>1, <2>4, <2>7, <4>1
      <4> QED BY <1>2, <2>1, <4>2, <4>3, <4>4
    <3> QED BY <3>1, <3>2
  <2> QED BY <1>3, <2>10, <2>11 DEF AppliedTo
<1> QED BY <1>4, <1>5

LEMMA ResultsApplied ==
    ASSUME NEW s0, NEW n0, NEW H, NEW r, NEW k0, NEW q, Good(s0, n0, H, r, k0, q),
           NEW n \in Nat, n = Len(q), NEW t, AppliedTo(s0, t)
    PROVE  AppliedTo(s0, FoldLeft(Apply, t, q))
<1> DEFINE Fold(g) == g = [s \in SUBSET DOMAIN q |->
                              IF s = {} THEN t ELSE Apply(g[s \ {Max(s)}], q[Max(s)])]
           fold == CHOOSE g : Fold(g)
           act == [x \in Loads \X (1 .. n) |-> Apply(x[1], q[x[2]])]
<1>1. DOMAIN q = 1 .. n /\ t \in Loads /\ \A i \in 1 .. n : q[i] \in Results
  BY Member DEF Good, Typed, AppliedTo
<1> HIDE DEF Fold, fold, act
<1>2. act \in [Loads \X (1 .. n) -> Loads]
  <2>1. ASSUME NEW x \in Loads, NEW i \in 1 .. n PROVE Apply(x, q[i]) \in Loads
    BY <1>1, ApplyTyped
  <2> QED BY <2>1 DEF act
<1>3. PICK g : Folds(g, n, Loads, act, t)
  BY <1>1, <1>2, FoldExists
<1>4. Fold(g)
  <2>1. ASSUME NEW s \in SUBSET (1 .. n), s # {}
        PROVE  g[s] = Apply(g[s \ {Max(s)}], q[Max(s)])
    <3> DEFINE k == Max(s)
    <3>1. k \in 1 .. n
      BY <2>1, MaxIs
    <3>2. g[s] = act[<<g[s \ {k}], k>>]
      BY <1>3, <2>1 DEF Folds
    <3> HIDE DEF k
    <3>3. <<g[s \ {k}], k>> \in Loads \X (1 .. n)
      BY <1>3, <3>1 DEF Folds
    <3> QED BY <3>2, <3>3 DEF k, act
  <2>2. g = [s \in SUBSET (1 .. n) |-> g[s]] /\ g[{}] = t
    BY <1>3 DEF Folds
  <2> QED BY <1>1, <2>1, <2>2 DEF Fold
<1>5. Fold(fold)
  BY <1>4 DEF fold
<1>6. FoldLeft(Apply, t, q) = fold[DOMAIN q]
  BY DEF FoldLeft, MapThenFoldSet, fold, Fold
<1>7. fold[{}] = t
  BY <1>1, <1>5 DEF Fold
<1>8. ASSUME NEW k \in 1 .. n
      PROVE  fold[1 .. k] = Apply(fold[1 .. k - 1], q[k])
  <2>1. /\ 1 .. k \in SUBSET DOMAIN q /\ 1 .. k # {}
        /\ Max(1 .. k) = k /\ (1 .. k) \ {k} = 1 .. k - 1
    BY <1>1, Prefix
  <2> QED BY <1>5, <2>1 DEF Fold
<1> DEFINE S == {m \in 0 .. n : AppliedTo(s0, fold[1 .. m])}
<1>9. 0 \in S
  <2>1. 1 .. 0 = {} /\ 0 \in 0 .. n
    OBVIOUS
  <2>2. AppliedTo(s0, t)
    BY <1>1
  <2> QED BY <1>7, <2>1, <2>2
<1>10. ASSUME NEW m \in 1 .. n, m - 1 \in S PROVE m \in S
  <2> DEFINE v == fold[1 .. m - 1]
  <2>1. AppliedTo(s0, v) /\ fold[1 .. m] = Apply(v, q[m])
    BY <1>8, <1>10
  <2> HIDE DEF v
  <2>2. AppliedTo(s0, fold[1 .. m])
    BY <1>1, <2>1, ResultApplied
  <2> QED BY <2>2
<1>11. n \in S
  <2> HIDE DEF S
  <2> QED BY <1>9, <1>10, Reaches
<1>12. AppliedTo(s0, fold[1 .. n])
  BY <1>11
<1> QED BY <1>1, <1>6, <1>12

-----------------------------------------------------------------------------
(* The invariant of the ids in every state, and what it gives.             *)

Now == [infos |-> infos, paths |-> path_to_index, storage |-> storage, recycled |-> recycled]

IdInv ==
    /\ Good(Now, next_index, handles, drops, 0, events)
    /\ loading \subseteq handles /\ \A h \in loading : h.of \in Paths
    /\ provider \in {"real", "dead"} /\ dead_index = 0
    /\ building = "none" => provider = "real"

LEMMA NowIs ==
    /\ Now.infos = infos /\ Now.paths = path_to_index
    /\ Now.storage = storage /\ Now.recycled = recycled
BY DEF Now

LEMMA IdsInitially == Init => IdInv
<1> SUFFICES ASSUME Init PROVE IdInv
  OBVIOUS
<1>1. /\ infos = [id \in AssetIds |-> NoInfo] /\ path_to_index = [p \in Paths |-> NoId]
      /\ storage = [i \in Indices |-> Vacant] /\ recycled = <<>> /\ next_index = 0
      /\ handles = {} /\ drops = <<>> /\ loading = {} /\ events = <<>>
      /\ provider = "real" /\ dead_index = 0
  BY DEF Init
<1>2. NoInfo \in InfoKinds /\ Vacant \in Entries /\ Vacant.generation = -1
      /\ NoInfo.path = None /\ None \notin Paths
  BY AssetServerAssumption DEF NoInfo, InfoKinds, Vacant, Entry, Entries
<1>3. \A id \in AssetIds : id.index \in Indices /\ id.generation # -1
  BY IdParts
<1>4. 1 .. Len(recycled) = {} /\ 1 .. Len(events) = {} /\ Len(drops) = 0 /\ Waiting(drops, 0) = {}
  BY <1>1 DEF Waiting
<1>5. Typed(Now, next_index, handles, drops, events)
  BY <1>1, <1>2, NowIs, AssetServerAssumption DEF Typed
<1>6. Spare(Now, next_index) /\ Stale(Now, next_index, events)
  BY <1>1, <1>4, NowIs DEF Spare, Stale
<1>7. \A id \in AssetIds : ~Live(Now, id)
  BY <1>1, <1>2, <1>3, NowIs DEF Live
<1>8. Mapped(Now)
  BY <1>1, <1>2, <1>7, NowIs DEF Mapped
<1>9. Counted(Now, handles, drops, 0) /\ Named(Now, handles) /\ Named(Now, Waiting(drops, 0))
  BY <1>1, <1>4, <1>7 DEF Counted, Named
<1>10. Good(Now, next_index, handles, drops, 0, events)
  BY <1>4, <1>5, <1>6, <1>8, <1>9 DEF Good
<1> QED BY <1>1, <1>10 DEF IdInv

LEMMA AssetAdded ==
    ASSUME IdInv, Add
    PROVE  Good(Now', next_index', handles', drops', 0, events')
<1>1. PICK id \in AssetIds : ReserveReal(id, Added) /\ handles' = handles \cup {Handle(id, Added)}
  BY DEF Add
<1>2. infos' = infos /\ path_to_index' = path_to_index /\ drops' = drops /\ events' = events
  BY DEF Add, server, tasks
<1>3. Mints(Now, next_index, id, Added, Now', next_index')
  BY <1>1, <1>2, NowIs DEF Mints, ReserveReal, NextId, Now
<1>4. Added \in Owners /\ Good(Now, next_index, handles, drops, 0, events)
  BY DEF Owners, IdInv
<1>5. Good(Now', next_index', handles \cup {Handle(id, Added)}, drops, 0, events)
  BY <1>3, <1>4, Minted
<1> QED BY <1>1, <1>2, <1>5

LEMMA FreshlyLoaded ==
    ASSUME IdInv, building = "none", NEW p \in Paths, LoadFresh(p),
           drops' = drops, events' = events
    PROVE  /\ Good(Now', next_index', handles', drops', 0, events')
           /\ loading' \subseteq handles' /\ \A h \in loading' : h.of \in Paths
           /\ dead_index' = 0
<1>1. PICK id \in AssetIds :
        /\ ReserveHandle(id) /\ infos' = [infos EXCEPT ![id] = Info(p, "loading")]
        /\ path_to_index' = [path_to_index EXCEPT ![p] = id]
        /\ handles' = handles \cup {Handle(id, p)} /\ loading' = loading \cup {Handle(id, p)}
  BY DEF LoadFresh
<1>2. ReserveReal(id, None) /\ dead_index' = dead_index
  BY <1>1 DEF IdInv, ReserveHandle
<1>3. p \in Owners /\ p # Added
  BY AssetServerAssumption DEF Owners
<1>4. path_to_index[p] = NoId
  BY DEF LoadFresh
<1>5. Mints(Now, next_index, id, p, Now', next_index')
  BY <1>1, <1>2, <1>3, <1>4, NowIs DEF Mints, ReserveReal, NextId, Now
<1>6. Good(Now', next_index', handles \cup {Handle(id, p)}, drops, 0, events)
  BY <1>3, <1>5, Minted DEF IdInv
<1>7. Handle(id, p).of = p
  BY DEF Handle
<1> QED BY <1>1, <1>2, <1>6, <1>7 DEF IdInv

LEMMA KnownLoaded ==
    ASSUME IdInv, NEW p \in Paths, LoadKnown(p), drops' = drops, events' = events
    PROVE  /\ Good(Now', next_index', handles', drops', 0, events')
           /\ loading' \subseteq handles' /\ \A h \in loading' : h.of \in Paths
           /\ dead_index' = 0
<1> DEFINE id == path_to_index[p]
           h == Handle(id, p)
           again == infos[id].state = "failed"
           info == [infos[id] EXCEPT !.state = IF again THEN "loading" ELSE @]
           new == HandOut(info, h \in handles)
<1>1. /\ id # NoId /\ infos' = [infos EXCEPT ![id] = new]
      /\ handles' = handles \cup {h}
      /\ loading' = IF again THEN loading \cup {h} ELSE loading
      /\ path_to_index' = path_to_index /\ storage' = storage /\ recycled' = recycled
      /\ next_index' = next_index /\ dead_index' = dead_index
  BY DEF LoadKnown, allocator
<1>2. Good(Now, next_index, handles, drops, 0, events)
  BY DEF IdInv
<1>3. id \in AssetIds /\ infos[id] \in InfoKinds
  BY <1>1, <1>2, NowIs DEF Good, Typed
<1>4. /\ info \in InfoKinds /\ info.path = infos[id].path /\ info.skip = infos[id].skip
  BY <1>3 DEF InfoKinds
<1> HIDE DEF info
<1>5. /\ new \in InfoKinds /\ new.path = infos[id].path
      /\ new.skip = IF h \in handles THEN infos[id].skip ELSE infos[id].skip + 1
  BY <1>4 DEF HandOut, InfoKinds
<1>6. /\ Now'.infos = [infos EXCEPT ![id] = new] /\ Now'.paths = path_to_index
      /\ Now'.storage = storage /\ Now'.recycled = recycled
  BY <1>1 DEF Now
<1> HIDE DEF new
<1>7. Good(Now', next_index, handles \cup {h}, drops, 0, events)
  <2>1. /\ Now.paths[p] # NoId /\ h = Handle(Now.paths[p], p)
        /\ new.path = Now.infos[Now.paths[p]].path
        /\ new.skip = IF h \in handles THEN Now.infos[Now.paths[p]].skip
                      ELSE Now.infos[Now.paths[p]].skip + 1
        /\ Now'.infos = [Now.infos EXCEPT ![Now.paths[p]] = new]
        /\ Now'.paths = Now.paths /\ Now'.storage = Now.storage /\ Now'.recycled = Now.recycled
    BY <1>1, <1>5, <1>6, NowIs
  <2> HIDE DEF h
  <2> QED BY <1>2, <1>5, <2>1, Handed
<1>8. h.of = p
  BY DEF Handle
<1> HIDE DEF h, again
<1> QED BY <1>1, <1>7, <1>8 DEF IdInv

LEMMA LoadFinished ==
    ASSUME IdInv, NEW h, FinishLoad(h)
    PROVE  Good(Now', next_index', handles', drops', 0, events')
<1>1. PICK state \in {"loaded", "failed"} :
        events' = Append(events, [id |-> h.id, of |-> h.of, state |-> state])
  BY DEF FinishLoad
<1> DEFINE e == [id |-> h.id, of |-> h.of, state |-> state]
<1>2. h \in handles /\ h \in Handles /\ h.of \in Paths
  BY DEF IdInv, Good, Typed, FinishLoad
<1>3. e \in Results /\ e.id = h.id /\ e.of = h.of
  BY <1>2 DEF Results, Handles
<1>4. Handle(h.id, h.of) = h
  BY <1>2 DEF Handle, Handles
<1>5. /\ infos' = infos /\ path_to_index' = path_to_index /\ storage' = storage
      /\ recycled' = recycled /\ next_index' = next_index /\ handles' = handles
      /\ drops' = drops /\ events' = Append(events, e)
  BY <1>1 DEF FinishLoad, allocator, server
<1>6. Now' = Now
  BY <1>5 DEF Now
<1> HIDE DEF e
<1>7. Good(Now, next_index, handles, drops, 0, Append(events, e))
  BY <1>2, <1>3, <1>4, ResultSent DEF IdInv
<1> QED BY <1>5, <1>6, <1>7

LEMMA EventsHandled ==
    ASSUME IdInv, handle_internal_asset_events
    PROVE  Good(Now', next_index', handles', drops', 0, events')
<1> DEFINE t == [infos |-> infos, storage |-> storage]
           n == Len(events)
           s == FoldLeft(Apply, t, events)
<1>1. Good(Now, next_index, handles, drops, 0, events)
  BY DEF IdInv
<1>2. events \in Seq(Results) /\ n \in Nat /\ drops \in Seq(Handles)
  BY <1>1 DEF Good, Typed
<1>3. AppliedTo(Now, t)
  <2>1. t.infos = Now.infos /\ t.storage = Now.storage
    BY NowIs
  <2>2. t \in Loads
    BY <1>1, NowIs DEF Good, Typed, Loads
  <2> HIDE DEF t
  <2> QED BY <2>1, <2>2 DEF AppliedTo
<1>4. AppliedTo(Now, s)
  <2> HIDE DEF t
  <2> QED BY <1>1, <1>2, <1>3, ResultsApplied
<1>5. /\ infos' = s.infos /\ storage' = s.storage /\ path_to_index' = path_to_index
      /\ recycled' = recycled /\ next_index' = next_index /\ handles' = handles
      /\ drops' = drops /\ events' = <<>>
  BY DEF handle_internal_asset_events
<1> HIDE DEF s, t
<1>6. /\ Now'.infos = s.infos /\ Now'.storage = s.storage
      /\ Now'.paths = Now.paths /\ Now'.recycled = Now.recycled
  BY <1>5 DEF Now
<1>7. Revises(Now, Now')
  BY <1>4, <1>6 DEF Revises, AppliedTo, Loads
<1>8. /\ Typed(Now', next_index, handles, drops, events) /\ 0 \in 0 .. Len(drops)
      /\ Spare(Now', next_index) /\ Mapped(Now') /\ Named(Now', handles)
      /\ Named(Now', Waiting(drops, 0))
      /\ \A id \in AssetIds : Live(Now', id) <=> Live(Now, id)
  BY <1>1, <1>7, Revised
<1>9. Counted(Now', handles, drops, 0)
  BY <1>1, <1>4, <1>6, <1>8 DEF Good, Counted, AppliedTo
<1>10. Typed(Now', next_index, handles, drops, <<>>) /\ Stale(Now', next_index, <<>>)
  BY <1>8 DEF Typed, Stale
<1>11. Good(Now', next_index, handles, drops, 0, <<>>)
  BY <1>8, <1>9, <1>10 DEF Good
<1> QED BY <1>5, <1>11

LEMMA HandleDropped ==
    ASSUME IdInv, NEW h, DropHandle(h)
    PROVE  /\ Good(Now', next_index', handles', drops', 0, events')
           /\ loading' \subseteq handles' /\ \A g \in loading' : g.of \in Paths
<1>1. /\ infos' = infos /\ path_to_index' = path_to_index /\ storage' = storage
      /\ recycled' = recycled /\ next_index' = next_index /\ handles' = handles \ {h}
      /\ drops' = Append(drops, h) /\ events' = events /\ loading' = loading
      /\ h \in handles /\ h \notin loading
  BY DEF DropHandle, allocator, server, tasks
<1>2. Now' = Now
  BY <1>1 DEF Now
<1>3. Good(Now, next_index, handles \ {h}, Append(drops, h), 0, events)
  BY <1>1, Dropped DEF IdInv
<1> QED BY <1>1, <1>2, <1>3 DEF IdInv

LEMMA AssetsTracked ==
    ASSUME IdInv, track_assets
    PROVE  Good(Now', next_index', handles', drops', 0, events')
<1> DEFINE n == Len(drops)
           s == FoldLeft(ProcessDrop, Now, drops)
<1>1. Good(Now, next_index, handles, drops, 0, events)
  BY DEF IdInv
<1>2. drops \in Seq(Handles) /\ n \in Nat
  BY <1>1 DEF Good, Typed
<1>3. Now \in Servers
  BY <1>1, NowIs DEF Good, Typed, Servers, Now
<1>4. s \in Servers /\ Good(s, next_index, handles, drops, n, events)
  BY <1>1, <1>2, <1>3, DropsProcessed
<1>5. /\ infos' = s.infos /\ path_to_index' = s.paths /\ storage' = s.storage
      /\ recycled' = s.recycled /\ next_index' = next_index /\ handles' = handles
      /\ drops' = <<>> /\ events' = events
  BY DEF track_assets, Now, tasks
<1> HIDE DEF s
<1>6. Now' = s
  BY <1>4, <1>5 DEF Now, Servers
<1>7. Waiting(<<>>, 0) = {} /\ 0 \in 0 .. Len(<<>>) /\ <<>> \in Seq(Handles)
  BY DEF Waiting
<1>8. \A id : Left(<<>>, 0, id) = Left(drops, n, id)
  <2>1. 0 + 1 .. Len(<<>>) = {} /\ n + 1 .. Len(drops) = {}
    BY <1>2
  <2> QED BY <2>1 DEF Left
<1>9. Good(s, next_index, handles, <<>>, 0, events)
  <2>1. /\ Typed(s, next_index, handles, drops, events) /\ Spare(s, next_index) /\ Mapped(s)
        /\ Named(s, handles) /\ Counted(s, handles, drops, n) /\ Stale(s, next_index, events)
    BY <1>4 DEF Good
  <2>2. Typed(s, next_index, handles, <<>>, events) /\ Named(s, Waiting(<<>>, 0))
    BY <1>7, <2>1 DEF Typed, Named
  <2>3. Counted(s, handles, <<>>, 0)
    BY <1>8, <2>1 DEF Counted
  <2> QED BY <1>7, <2>1, <2>2, <2>3 DEF Good
<1> QED BY <1>5, <1>6, <1>9

LEMMA IdsKept == IdInv /\ [Next]_vars => IdInv'
<1> SUFFICES ASSUME IdInv, [Next]_vars PROVE IdInv'
  OBVIOUS
<1> DEFINE Kept == Good(Now', next_index', handles', drops', 0, events')
           Loading == loading' \subseteq handles' /\ \A h \in loading' : h.of \in Paths
<1>0. Kept /\ Loading /\ provider' \in {"real", "dead"} /\ dead_index' = 0
      /\ (building' = "none" => provider' = "real") => IdInv'
  BY DEF IdInv
<1> HIDE DEF Kept
<1>1. ASSUME UNCHANGED <<allocator, server, handles, drops, tasks>> PROVE Kept /\ Loading
  <2>1. /\ infos' = infos /\ path_to_index' = path_to_index /\ storage' = storage
        /\ recycled' = recycled /\ next_index' = next_index /\ handles' = handles
        /\ drops' = drops /\ events' = events /\ loading' = loading
    BY <1>1 DEF allocator, server, tasks
  <2>2. Now' = Now
    BY <2>1 DEF Now
  <2> QED BY <2>1, <2>2 DEF IdInv, Kept
<1>2. CASE Add
  <2>1. Kept
    BY <1>2, AssetAdded DEF Kept
  <2>2. /\ loading' = loading /\ handles \subseteq handles' /\ provider' = provider
        /\ dead_index' = dead_index /\ building' = building
    BY <1>2 DEF Add, tasks, throwaway
  <2> QED BY <1>0, <2>1, <2>2 DEF IdInv
<1>3. CASE handle_internal_asset_events
  <2>1. Kept
    BY <1>3, EventsHandled DEF Kept
  <2>2. /\ loading' = loading /\ handles' = handles /\ provider' = provider
        /\ dead_index' = dead_index /\ building' = building
    BY <1>3 DEF handle_internal_asset_events, throwaway
  <2> QED BY <1>0, <2>1, <2>2 DEF IdInv
<1>4. CASE track_assets
  <2>1. Kept
    BY <1>4, AssetsTracked DEF Kept
  <2>2. /\ loading' = loading /\ handles' = handles /\ provider' = provider
        /\ dead_index' = dead_index /\ building' = building
    BY <1>4 DEF track_assets, tasks, throwaway
  <2> QED BY <1>0, <2>1, <2>2 DEF IdInv
<1>5. ASSUME NEW p \in Paths, Load(p) PROVE IdInv'
  <2>1. /\ building # "none" => Handle(path_to_index[p], p) \in handles
        /\ LoadKnown(p) \/ LoadFresh(p)
        /\ drops' = drops /\ events' = events /\ provider' = provider /\ building' = building
    BY <1>5 DEF Load, throwaway
  <2>2. Kept /\ Loading /\ dead_index' = 0
    <3>1. CASE LoadKnown(p)
      BY <2>1, <3>1, KnownLoaded DEF Kept
    <3>2. CASE LoadFresh(p)
      <4>1. path_to_index[p] = NoId
        BY <3>2 DEF LoadFresh
      <4>2. \A h \in handles : h.id \in AssetIds
        BY DEF IdInv, Good, Typed, Handles
      <4>3. Handle(NoId, p) \notin handles
        BY <4>2 DEF Handle, NoId, Id, AssetIds, Indices
      <4> QED BY <2>1, <3>2, <4>1, <4>3, FreshlyLoaded DEF Kept
    <3> QED BY <1>5, <3>1, <3>2 DEF Load
  <2> QED BY <1>0, <2>1, <2>2 DEF IdInv
<1>6. ASSUME NEW h \in handles, FinishLoad(h) PROVE IdInv'
  <2>1. Kept
    BY <1>6, LoadFinished DEF Kept
  <2>2. /\ loading' = loading \ {h} /\ handles' = handles /\ provider' = provider
        /\ dead_index' = dead_index /\ building' = building
    BY <1>6 DEF FinishLoad, throwaway
  <2> QED BY <1>0, <2>1, <2>2 DEF IdInv
<1>7. ASSUME NEW h \in handles, DropHandle(h) PROVE IdInv'
  <2>1. Kept /\ Loading
    BY <1>7, HandleDropped DEF Kept
  <2>2. provider' = provider /\ dead_index' = dead_index /\ building' = building
    BY <1>7 DEF DropHandle, throwaway
  <2> QED BY <1>0, <2>1, <2>2 DEF IdInv
<1>8. CASE BuildThrowaway
  <2>1. /\ UNCHANGED <<allocator, server, handles, drops, tasks>>
        /\ provider' = "dead" /\ dead_index' = 0 /\ building' = "built"
    BY <1>8 DEF BuildThrowaway
  <2> QED BY <1>0, <1>1, <2>1
<1>9. CASE FinishThrowaway
  <2>1. /\ UNCHANGED <<allocator, server, handles, drops, tasks>>
        /\ provider' = provider /\ dead_index' = dead_index /\ building' = "finished"
    BY <1>9 DEF FinishThrowaway
  <2> QED BY <1>0, <1>1, <2>1 DEF IdInv
<1>10. CASE Harvest
  <2>1. /\ UNCHANGED <<allocator, server, handles, drops, tasks>>
        /\ provider' = "real" /\ dead_index' = dead_index
    BY <1>10 DEF Harvest, restore_asset_registrations
  <2> QED BY <1>0, <1>1, <2>1 DEF IdInv
<1>11. CASE UNCHANGED vars
  <2>1. /\ UNCHANGED <<allocator, server, handles, drops, tasks>>
        /\ provider' = provider /\ dead_index' = dead_index /\ building' = building
    BY <1>11 DEF vars, throwaway
  <2> QED BY <1>0, <1>1, <2>1 DEF IdInv
<1> QED BY <1>2, <1>3, <1>4, <1>5, <1>6, <1>7, <1>8, <1>9, <1>10, <1>11 DEF Next

-----------------------------------------------------------------------------
LEMMA InvariantKept == Spec => [](TableInv /\ IdInv)
<1>1. Init => TableInv /\ IdInv
  BY TableInitially, IdsInitially
<1>2. TableInv /\ IdInv /\ [Next]_vars => (TableInv /\ IdInv)'
  BY TableKept, IdsKept
<1> QED BY <1>1, <1>2, PTL DEF Spec

(* Every variable has its type, and where a path has an id there is an     *)
(* info for it, on which get_or_create_path_handle relies.                 *)
THEOREM TypeCorrect == Spec => []TypeOK
<1>1. TableInv /\ IdInv => TypeOK
  <2> SUFFICES ASSUME TableInv, IdInv PROVE TypeOK
    OBVIOUS
  <2>1. Typed(Now, next_index, handles, drops, events) /\ Mapped(Now)
    BY DEF IdInv, Good
  <2>2. /\ next_index \in 0 .. MaxIndex /\ recycled \in Seq(AssetIds)
        /\ storage \in [Indices -> Entries] /\ infos \in [AssetIds -> InfoKinds]
        /\ path_to_index \in [Paths -> AssetIds \cup {NoId}]
        /\ handles \in SUBSET Handles /\ drops \in Seq(Handles) /\ events \in Seq(Results)
    BY <2>1, NowIs DEF Typed
  <2>3. \A p \in Paths : path_to_index[p] # NoId => infos[path_to_index[p]].path = p
    BY <2>1, NowIs DEF Mapped
  <2>4. loading \in SUBSET Handles
    BY <2>2 DEF IdInv
  <2>5. provider \in {"real", "dead"} /\ dead_index \in 0 .. MaxIndex
    BY AssetServerAssumption DEF IdInv
  <2>6. table \in Tables /\ building \in {"none", "built", "finished"} /\ joins \in 0 .. MaxJoins
    BY DEF TableInv, TableOK
  <2> QED BY <2>2, <2>3, <2>4, <2>5, <2>6 DEF TypeOK, Entries, InfoKinds, Handles, Tables
<1> QED BY <1>1, InvariantKept, PTL

(* What a handle names is there, and is what the handle was made for: an   *)
(* index is reserved again only with a later generation, when nothing has  *)
(* the old id any more, and a result that comes late finds no info.        *)
THEOREM HandlesKeepTheirAsset == Spec => []HandlesNameTheirAsset
<1>1. IdInv => HandlesNameTheirAsset
  <2> SUFFICES ASSUME IdInv PROVE HandlesNameTheirAsset
    OBVIOUS
  <2>1. Typed(Now, next_index, handles, drops, events) /\ Mapped(Now) /\ Named(Now, handles)
    BY DEF IdInv, Good
  <2>2. \A id \in AssetIds : Tracked(id) => storage[id.index].generation = id.generation
    BY <2>1, NowIs DEF Mapped, Live, Tracked
  <2>3. ASSUME NEW h \in handles
        PROVE  /\ storage[h.id.index].generation = h.id.generation
               /\ storage[h.id.index].value \in {None, h.of}
               /\ \A g \in handles : g.id = h.id => g = h
    <3>1. h \in Handles /\ \A g \in handles : g \in Handles
      BY <2>1 DEF Typed
    <3>2. h.id \in AssetIds /\ (h.of = Added \/ h.of \in Paths) /\ Added # None
          /\ Added \notin Paths /\ None \notin Paths
      BY <3>1, AssetServerAssumption DEF Handles, Owners, Added, None
    <3>3. Live(Now, h.id) /\ infos[h.id].path = PathOf(h.of)
      BY <2>1, NowIs DEF Named
    <3>4. storage[h.id.index].value \in {None, h.of}
      <4>1. CASE h.of = Added
        BY <2>1, <3>2, <3>3, <4>1, NowIs DEF Mapped, PathOf
      <4>2. CASE h.of \in Paths
        BY <2>1, <3>2, <3>3, <4>2, NowIs DEF Mapped, PathOf
      <4> QED BY <3>2, <4>1, <4>2
    <3>5. ASSUME NEW g \in handles, g.id = h.id PROVE g = h
      <4>1. PathOf(g.of) = PathOf(h.of) /\ g \in Handles /\ g.of \in Owners
        BY <2>1, <3>1, <3>3, <3>5, NowIs DEF Named, Handles
      <4>2. g.of = h.of
        BY <3>2, <4>1 DEF PathOf, Owners
      <4> QED BY <3>1, <3>5, <4>1, <4>2 DEF Handles
    <3> QED BY <3>3, <3>4, <3>5, NowIs DEF Live
  <2> QED BY <2>2, <2>3 DEF HandlesNameTheirAsset
<1> QED BY <1>1, InvariantKept, PTL

(* An asset nobody has a handle of goes: the drops of an id that wait are  *)
(* those to be skipped and, if there is no handle, one more, which is the  *)
(* one that removes the asset (process_handle_drop).                       *)
THEOREM DroppedAssetsAreRemoved == Spec => []DroppedAssetsGo
<1>1. IdInv => DroppedAssetsGo
  <2> SUFFICES ASSUME IdInv, drops = <<>>
               PROVE  /\ \A i \in Indices : storage[i] # Vacant =>
                            \E h \in handles : h.id = Id(i, storage[i].generation)
                      /\ \A id \in AssetIds : Tracked(id) => \E h \in handles : h.id = id
    BY DEF DroppedAssetsGo
  <2>1. /\ Typed(Now, next_index, handles, drops, events) /\ Mapped(Now)
        /\ Spare(Now, next_index) /\ Counted(Now, handles, drops, 0)
    BY DEF IdInv, Good
  <2>2. \A id : Left(drops, 0, id) = 0
    <3>1. drops \in Seq(Handles) /\ 0 \in 0 .. Len(drops) /\ Waiting(drops, 0) = {}
      BY <2>1 DEF Typed, Waiting
    <3> QED BY <3>1, LeftNone
  <2>3. ASSUME NEW id \in AssetIds, Live(Now, id) PROVE \E h \in handles : h.id = id
    <3>1. infos[id].skip \in Nat
      BY <2>1, NowIs DEF Typed, InfoKinds
    <3>2. 0 = infos[id].skip + (IF Held(handles, id) THEN 0 ELSE 1)
      BY <2>1, <2>2, <2>3, NowIs DEF Counted
    <3> QED BY <3>1, <3>2 DEF Held
  <2>4. ASSUME NEW i \in Indices, storage[i] # Vacant
        PROVE  \E h \in handles : h.id = Id(i, storage[i].generation)
    <3> DEFINE id == Id(i, storage[i].generation)
    <3>1. storage[i].generation \in 0 .. MaxGeneration
      BY <2>1, <2>4, NowIs DEF Spare
    <3>2. id \in AssetIds /\ Live(Now, id)
      BY <3>1, NowIs DEF Id, AssetIds, Live
    <3> QED BY <2>3, <3>2
  <2>5. \A id \in AssetIds : Tracked(id) => Live(Now, id)
    BY <2>1, NowIs DEF Mapped, Tracked
  <2> QED BY <2>3, <2>4, <2>5
<1> QED BY <1>1, InvariantKept, PTL
=============================================================================
