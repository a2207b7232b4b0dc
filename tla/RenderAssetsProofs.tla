-------------------------- MODULE RenderAssetsProofs --------------------------
(***************************************************************************)
(* Theorems about the assets of the render worlds, for any number of       *)
(* worlds, assets and versions.  No world goes back to an older version of *)
(* an asset, whatever it misses of the messages: that rests on the order   *)
(* of the versions a world has, waits with and has extracted, and looks at *)
(* no message.  And a world that misses none has the last version: what it *)
(* has not is still to be heard of (RInv), and reading what it has not     *)
(* read is a fold that comes to the last word about each asset (NewsOf).   *)
(***************************************************************************)
EXTENDS RenderAssets, FoldLemmas

Single(copies) == \A c, d \in copies : c.of = d.of => c = d

VersionsTyped ==
    /\ version \in [Assets -> Dropped .. MaxVersion]
    /\ prepared \in [Worlds -> [Assets -> 0 .. MaxVersion]]
    /\ waiting \in [Worlds -> SUBSET Copies]
    /\ DOMAIN extracted = Worlds
    /\ \A w \in Worlds : extracted[w].copies \subseteq Copies

\* What world w has of an asset is no newer than what it waits with, that no
\* newer than what it has extracted, and that no newer than what there is.
InOrder(w) ==
    /\ Single(waiting[w]) /\ Single(extracted[w].copies)
    /\ \A c \in waiting[w] : prepared[w][c.of] <= c.version
    /\ \A c \in extracted[w].copies :
          /\ prepared[w][c.of] <= c.version
          /\ \A d \in waiting[w] : d.of = c.of => d.version <= c.version
    /\ \A a \in Assets : version[a] # Dropped =>
          /\ prepared[w][a] <= version[a]
          /\ \A c \in waiting[w] \cup extracted[w].copies :
                c.of = a => c.version <= version[a]

VersionsOrdered == VersionsTyped /\ \A w \in Worlds : InOrder(w)

-----------------------------------------------------------------------------
LEMMA VersionInIs ==
    ASSUME NEW copies \in SUBSET Copies, NEW a, NEW v
    PROVE  \/ \E c \in copies : c.of = a /\ VersionIn(copies, a, v) = c.version
           \/ a \notin Names(copies) /\ VersionIn(copies, a, v) = v
<1>1. CASE a \in Names(copies)
  <2>1. \E c \in copies : c.of = a
    BY <1>1 DEF Names
  <2>2. (CHOOSE c \in copies : c.of = a) \in copies
        /\ (CHOOSE c \in copies : c.of = a).of = a
    BY <2>1
  <2> QED
    BY <1>1, <2>2 DEF VersionIn
<1>2. CASE a \notin Names(copies)
  BY <1>2 DEF VersionIn
<1> QED
  BY <1>1, <1>2

LEMMA CopiesTyped ==
    ASSUME NEW c \in Copies
    PROVE  c.of \in Assets /\ c.version \in 1 .. MaxVersion /\ c = Copy(c.of, c.version)
BY DEF Copies, Copy

LEMMA OrderInit == Init => VersionsOrdered
<1> SUFFICES ASSUME Init PROVE VersionsOrdered
  OBVIOUS
<1>1. VersionsTyped
  BY RenderAssetsAssumption DEF Init, VersionsTyped, NothingExtracted, Dropped
<1>2. ASSUME NEW w \in Worlds PROVE InOrder(w)
  BY DEF Init, InOrder, NothingExtracted, Single
<1> QED
  BY <1>1, <1>2 DEF VersionsOrdered

\* Neither the copies nor the contents change.
LEMMA OrderSame ==
    ASSUME VersionsOrdered, UNCHANGED <<version, prepared, waiting, extracted>>
    PROVE  VersionsOrdered'
BY DEF VersionsOrdered, VersionsTyped, InOrder

\* A new version is newer than all of the old; what is dropped is not live.
LEMMA OrderChange ==
    ASSUME VersionsOrdered, NEW a \in Assets, ChangeAsset(a)
    PROVE  VersionsOrdered'
<1>1. UNCHANGED <<prepared, waiting, extracted>>
  BY DEF ChangeAsset, renderWorlds
<1>2. PICK v \in Dropped .. MaxVersion :
        /\ version' = [version EXCEPT ![a] = v]
        /\ v # Dropped => v = version[a] + 1 /\ version[a] # Dropped
  <2>1. CASE /\ version[a] \in 0 .. MaxVersion - 1
             /\ version' = [version EXCEPT ![a] = version[a] + 1]
    <3>1. /\ version[a] + 1 \in Dropped .. MaxVersion /\ version[a] # Dropped
      BY <2>1, RenderAssetsAssumption DEF Dropped
    <3> QED
      BY <2>1, <3>1
  <2>2. CASE version' = [version EXCEPT ![a] = Dropped]
    <3>1. Dropped \in Dropped .. MaxVersion
      BY RenderAssetsAssumption DEF Dropped
    <3> QED
      BY <2>2, <3>1
  <2> QED
    BY <2>1, <2>2 DEF ChangeAsset
<1>3. VersionsTyped'
  BY <1>1, <1>2 DEF VersionsOrdered, VersionsTyped
<1>4. ASSUME NEW w \in Worlds PROVE InOrder(w)'
  <2>1. InOrder(w)
    BY DEF VersionsOrdered
  <2>2. \A b \in Assets : version'[b] # Dropped =>
           version[b] # Dropped /\ version[b] <= version'[b]
    BY <1>2 DEF VersionsOrdered, VersionsTyped, Dropped
  <2>3. \A c \in waiting[w] \cup extracted[w].copies : c.of \in Assets /\ c.version \in Nat
    BY CopiesTyped DEF VersionsOrdered, VersionsTyped
  <2>4. \A b \in Assets : version'[b] # Dropped =>
           /\ prepared[w][b] <= version'[b]
           /\ \A c \in waiting[w] \cup extracted[w].copies : c.of = b => c.version <= version'[b]
    <3> SUFFICES ASSUME NEW b \in Assets, version'[b] # Dropped
                 PROVE  /\ prepared[w][b] <= version'[b]
                        /\ \A c \in waiting[w] \cup extracted[w].copies :
                              c.of = b => c.version <= version'[b]
      OBVIOUS
    <3>1. /\ prepared[w][b] \in Nat /\ version[b] \in Int /\ version'[b] \in Int
          /\ prepared[w][b] <= version[b] /\ version[b] <= version'[b]
          /\ \A c \in waiting[w] \cup extracted[w].copies : c.of = b => c.version <= version[b]
      BY <1>3, <2>1, <2>2 DEF InOrder, VersionsOrdered, VersionsTyped, Dropped
    <3> QED
      BY <2>3, <3>1
  <2> QED
    BY <1>1, <2>1, <2>4 DEF InOrder
<1> QED
  BY <1>3, <1>4 DEF VersionsOrdered

\* The copies extracted are of what there is now.
LEMMA OrderExtract ==
    ASSUME VersionsOrdered, NEW w \in Worlds, Extract(w)
    PROVE  VersionsOrdered'
<1>1. UNCHANGED <<version, prepared, waiting>>
  BY DEF Extract, mainWorld
<1>2. PICK fresh \in SUBSET Live :
        /\ extracted'[w].copies = {Copy(a, version[a]) : a \in fresh}
        /\ DOMAIN extracted' = Worlds
        /\ \A v \in Worlds \ {w} : extracted'[v] = extracted[v]
  <2> DEFINE news == FoldLeft(ReadEvent, [needed |-> {}, removed |-> {}], Unread(w))
             copies == {Copy(a, version[a]) : a \in news.needed \cap Live}
  <2>1. extracted' = [extracted EXCEPT ![w] = [copies |-> copies, removed |-> news.removed]]
    BY DEF Extract
  <2>2. news.needed \cap Live \in SUBSET Live
    OBVIOUS
  <2> HIDE DEF news
  <2> QED
    BY <2>1, <2>2 DEF VersionsOrdered, VersionsTyped
<1> DEFINE copies == {Copy(a, version[a]) : a \in fresh}
<1>3. \A c \in copies : /\ c.of \in Live /\ c.of \in Assets
                        /\ c.version = version[c.of] /\ c \in Copies
  BY RenderAssetsAssumption DEF Live, Copy, Copies, VersionsOrdered, VersionsTyped, Dropped
<1>4. Single(copies)
  BY DEF Single, Copy
<1> HIDE DEF copies
<1>5. VersionsTyped'
  BY <1>1, <1>2, <1>3 DEF VersionsOrdered, VersionsTyped, copies
<1>6. InOrder(w)'
  <2>1. InOrder(w) /\ extracted'[w].copies = copies
    BY <1>2 DEF VersionsOrdered, copies
  <2>2. \A c \in copies : version[c.of] # Dropped /\ version[c.of] \in Nat
    BY <1>3 DEF Live, Dropped, VersionsOrdered, VersionsTyped
  <2>3. \A c \in copies : /\ prepared[w][c.of] <= c.version
                          /\ \A d \in waiting[w] : d.of = c.of => d.version <= c.version
    BY <1>3, <2>1, <2>2 DEF InOrder
  <2>4. \A a \in Assets : version[a] # Dropped =>
           \A c \in copies : c.of = a => c.version <= version[a]
    BY <1>3, <2>2
  <2> QED
    BY <1>1, <1>4, <2>1, <2>3, <2>4 DEF InOrder
<1>7. ASSUME NEW v \in Worlds \ {w} PROVE InOrder(v)'
  <2>1. InOrder(v) /\ extracted'[v] = extracted[v]
    BY <1>2 DEF VersionsOrdered
  <2> QED
    BY <1>1, <2>1 DEF InOrder
<1> QED
  BY <1>5, <1>6, <1>7 DEF VersionsOrdered

\* What world w prepares is not older than what it had; what it puts off is
\* not older than what it prepares.
LEMMA PrepareOrdered ==
    ASSUME VersionsOrdered, NEW w \in Worlds,
           NEW late \in SUBSET (StillWanted(w) \cup extracted[w].copies),
           waiting' = [waiting EXCEPT ![w] = late],
           prepared' = [prepared EXCEPT ![w] = [a \in Assets |->
               IF a \in Names(extracted[w].copies) THEN VersionIn(extracted[w].copies \ late, a, 0)
               ELSE IF a \in extracted[w].removed THEN 0
               ELSE VersionIn(StillWanted(w) \ late, a, @[a])]],
           extracted' = [extracted EXCEPT ![w] = NothingExtracted],
           UNCHANGED version
    PROVE  /\ VersionsOrdered'
           /\ \A a \in Assets :
                 prepared'[w][a] \in {0} \cup prepared[w][a] .. MaxVersion
           /\ \A v \in Worlds \ {w} : prepared'[v] = prepared[v]
<1> DEFINE fresh == extracted[w].copies
           wanted == StillWanted(w)
           old == prepared[w]
           new == prepared'[w]
<1>1. /\ InOrder(w) /\ fresh \in SUBSET Copies /\ wanted \in SUBSET waiting[w]
      /\ waiting[w] \in SUBSET Copies /\ old \in [Assets -> 0 .. MaxVersion]
      /\ \A c \in wanted : c.of \notin Names(fresh)
      /\ late \in SUBSET Copies
  BY DEF VersionsOrdered, VersionsTyped, StillWanted
<1>2. \A a \in Assets :
         new[a] = IF a \in Names(fresh) THEN VersionIn(fresh \ late, a, 0)
                  ELSE IF a \in extracted[w].removed THEN 0
                  ELSE VersionIn(wanted \ late, a, old[a])
  BY DEF VersionsOrdered, VersionsTyped
<1>3. \A a \in Assets :
         \/ new[a] = 0
         \/ \E c \in fresh \ late : c.of = a /\ new[a] = c.version
         \/ \E c \in wanted \ late : c.of = a /\ new[a] = c.version
         \/ a \notin Names(fresh) /\ new[a] = old[a]
  <2> SUFFICES ASSUME NEW a \in Assets
               PROVE  \/ new[a] = 0
                      \/ \E c \in fresh \ late : c.of = a /\ new[a] = c.version
                      \/ \E c \in wanted \ late : c.of = a /\ new[a] = c.version
                      \/ a \notin Names(fresh) /\ new[a] = old[a]
    OBVIOUS
  <2> HIDE DEF fresh, wanted, old, new
  <2>1. fresh \ late \in SUBSET Copies /\ wanted \ late \in SUBSET Copies
    BY <1>1
  <2>2. CASE a \in Names(fresh)
    BY <1>2, <2>1, <2>2, VersionInIs
  <2>3. CASE a \notin Names(fresh) /\ a \in extracted[w].removed
    BY <1>2, <2>3
  <2>4. CASE a \notin Names(fresh) /\ a \notin extracted[w].removed
    <3>1. \/ \E c \in wanted \ late : /\ c.of = a
                                      /\ VersionIn(wanted \ late, a, old[a]) = c.version
          \/ VersionIn(wanted \ late, a, old[a]) = old[a]
      BY <2>1, VersionInIs
    <3>2. new[a] = VersionIn(wanted \ late, a, old[a])
      BY <1>2, <2>4
    <3> QED
      BY <2>4, <3>1, <3>2
  <2> QED
    BY <2>2, <2>3, <2>4
<1>4. /\ \A v \in Worlds \ {w} : /\ prepared'[v] = prepared[v] /\ waiting'[v] = waiting[v]
                                 /\ extracted'[v] = extracted[v]
      /\ waiting'[w] = late /\ extracted'[w].copies = {}
      /\ DOMAIN extracted' = Worlds /\ waiting' \in [Worlds -> SUBSET Copies]
      /\ DOMAIN prepared' = Worlds /\ prepared' = [v \in Worlds |-> prepared'[v]]
      /\ DOMAIN new = Assets /\ new = [a \in Assets |-> new[a]]
  BY <1>1 DEF VersionsOrdered, VersionsTyped, NothingExtracted
<1>5. /\ \A c \in fresh \cup waiting[w] : c.of \in Assets /\ c.version \in 1 .. MaxVersion
      /\ \A a \in Assets : old[a] \in 0 .. MaxVersion
  BY <1>1, CopiesTyped
<1>6. /\ Single(waiting[w]) /\ Single(fresh)
      /\ \A c \in fresh \cup waiting[w] : old[c.of] <= c.version
      /\ \A c \in fresh \cup waiting[w] :
            version[c.of] # Dropped => c.version <= version[c.of]
      /\ \A a \in Assets : version[a] # Dropped => old[a] <= version[a]
  BY <1>1, <1>5 DEF InOrder
<1> HIDE DEF fresh, wanted, old, new
<1>7. \A a \in Assets : /\ new[a] \in {0} \cup old[a] .. MaxVersion
                        /\ new[a] \in 0 .. MaxVersion
  <2> SUFFICES ASSUME NEW a \in Assets
               PROVE  new[a] \in {0} \cup old[a] .. MaxVersion /\ new[a] \in 0 .. MaxVersion
    OBVIOUS
  <2>1. MaxVersion \in Nat /\ old[a] \in 0 .. MaxVersion
    BY <1>5, RenderAssetsAssumption
  <2>2. \A c \in fresh \cup waiting[w] : c.of = a =>
           c.version \in old[a] .. MaxVersion /\ c.version \in 0 .. MaxVersion
    BY <1>5, <1>6, <2>1
  <2>3. new[a] = 0 \/ new[a] = old[a]
        \/ \E c \in fresh \cup waiting[w] : c.of = a /\ new[a] = c.version
    BY <1>1, <1>3
  <2> QED
    BY <2>1, <2>2, <2>3
<1>8. \A c \in late : new[c.of] <= c.version
  <2> SUFFICES ASSUME NEW c \in late PROVE new[c.of] <= c.version
    OBVIOUS
  <2>1. c \in fresh \/ c \in wanted
    BY DEF fresh, wanted
  <2>2. CASE c \in fresh
    <3>1. c.of \in Names(fresh)
      BY <2>2 DEF Names
    <3> QED
      BY <1>1, <1>3, <1>5, <1>6, <2>2, <3>1 DEF Single
  <2>3. CASE c \in wanted
    <3>1. c.of \notin Names(fresh) /\ \A d \in fresh : d.of # c.of
      BY <1>1, <2>3 DEF Names
    <3> QED
      BY <1>1, <1>3, <1>5, <1>6, <2>3, <3>1 DEF Single
  <2> QED
    BY <2>1, <2>2, <2>3
<1>9. Single(late)
  <2> SUFFICES ASSUME NEW c \in late, NEW d \in late, c.of = d.of PROVE c = d
    BY DEF Single
  <2>1. (c \in fresh \/ c \in wanted) /\ (d \in fresh \/ d \in wanted)
    BY DEF fresh, wanted
  <2>2. \A e \in wanted : \A f \in fresh : e.of # f.of
    BY <1>1 DEF Names
  <2> QED
    BY <1>1, <1>6, <2>1, <2>2 DEF Single
<1>10. \A a \in Assets : version[a] # Dropped =>
          new[a] <= version[a] /\ \A c \in late : c.of = a => c.version <= version[a]
  <2>1. \A c \in late : c \in fresh \cup waiting[w]
    BY <1>1 DEF fresh, wanted
  <2>2. \A a \in Assets : version[a] # Dropped => version[a] \in Nat
    BY DEF VersionsOrdered, VersionsTyped, Dropped
  <2> QED
    BY <1>1, <1>3, <1>5, <1>6, <2>1, <2>2
<1>11. VersionsTyped'
  <2>1. prepared'[w] \in [Assets -> 0 .. MaxVersion]
    BY <1>4, <1>7 DEF new
  <2>2. \A v \in Worlds : prepared'[v] \in [Assets -> 0 .. MaxVersion]
    BY <1>4, <2>1 DEF VersionsOrdered, VersionsTyped
  <2>3. prepared' \in [Worlds -> [Assets -> 0 .. MaxVersion]]
    BY <1>4, <2>2
  <2>4. \A v \in Worlds : extracted'[v].copies \subseteq Copies
    BY <1>4 DEF VersionsOrdered, VersionsTyped
  <2> QED
    BY <1>4, <2>3, <2>4 DEF VersionsOrdered, VersionsTyped
<1>12. InOrder(w)'
  BY <1>4, <1>8, <1>9, <1>10 DEF InOrder, Single, new
<1>13. ASSUME NEW v \in Worlds \ {w} PROVE InOrder(v)'
  <2>1. InOrder(v)
    BY DEF VersionsOrdered
  <2> QED
    BY <1>4, <2>1 DEF InOrder
<1> QED
  BY <1>4, <1>7, <1>11, <1>12, <1>13 DEF VersionsOrdered, old, new

LEMMA OrderStep ==
    ASSUME VersionsOrdered, [Next]_vars
    PROVE  /\ VersionsOrdered'
           /\ \A w \in Worlds, a \in Assets :
                 prepared'[w][a] \in {0} \cup prepared[w][a] .. MaxVersion
<1>1. UNCHANGED prepared =>
         \A w \in Worlds, a \in Assets :
             prepared'[w][a] \in {0} \cup prepared[w][a] .. MaxVersion
  BY RenderAssetsAssumption DEF VersionsOrdered, VersionsTyped
<1>2. ASSUME NEW a \in Assets, ChangeAsset(a)
      PROVE  VersionsOrdered' /\ UNCHANGED prepared
  BY <1>2, OrderChange DEF ChangeAsset, renderWorlds
<1>3. ASSUME NEW w \in Worlds, Join(w)
      PROVE  VersionsOrdered' /\ UNCHANGED prepared
  BY <1>3, OrderSame DEF Join, renderWorlds
<1>4. ASSUME NEW w \in Worlds, Extract(w)
      PROVE  VersionsOrdered' /\ UNCHANGED prepared
  BY <1>4, OrderExtract DEF Extract
<1>5. ASSUME NEW w \in Worlds, Prepare(w)
      PROVE  /\ VersionsOrdered'
             /\ \A v \in Worlds, a \in Assets :
                   prepared'[v][a] \in {0} \cup prepared[v][a] .. MaxVersion
  <2>1. /\ VersionsOrdered'
        /\ \A a \in Assets : prepared'[w][a] \in {0} \cup prepared[w][a] .. MaxVersion
        /\ \A v \in Worlds \ {w} : prepared'[v] = prepared[v]
    BY <1>5, PrepareOrdered DEF Prepare, mainWorld
  <2>2. \A v \in Worlds, a \in Assets : prepared[v][a] \in 0 .. MaxVersion
    BY DEF VersionsOrdered, VersionsTyped
  <2> QED
    BY <2>1, <2>2, RenderAssetsAssumption
<1>6. ASSUME RunSchedule PROVE VersionsOrdered' /\ UNCHANGED prepared
  BY <1>6, OrderSame DEF RunSchedule
<1>7. ASSUME UNCHANGED vars PROVE VersionsOrdered' /\ UNCHANGED prepared
  BY <1>7, OrderSame DEF vars, mainWorld, renderWorlds
<1> QED
  BY <1>1, <1>2, <1>3, <1>4, <1>5, <1>6, <1>7 DEF Next

THEOREM VersionsStayOrdered == Spec => []VersionsOrdered
<1>1. VersionsOrdered /\ [Next]_vars => VersionsOrdered'
  BY OrderStep
<1> QED
  BY <1>1, OrderInit, PTL DEF Spec

(* prepare_assets never replaces an asset by an older version of it, in a  *)
(* world that starved of messages too.                                     *)
THEOREM NeverGoesBack == Spec => NeverOlder
<1>1. VersionsOrdered /\ [Next]_vars =>
         [\A w \in Worlds, a \in Assets :
             prepared'[w][a] \in {0} \cup prepared[w][a] .. MaxVersion]_vars
  BY OrderStep
<1> QED
  BY <1>1, VersionsStayOrdered, PTL DEF Spec, NeverOlder

-----------------------------------------------------------------------------
(* What a world reads.  Going through the messages it has not read comes   *)
(* to this: an asset is removed when one of them says so, and needed when  *)
(* one says that it changed and no later one that it is unused.            *)

Events == [kind : {"changed", "unused"}, of : Assets]

\* What the events of q at the places s say, in the order of the places.
NewsOf(q, s) ==
    [needed |-> {a \in Assets : \E i \in s : /\ q[i] = Changed(a)
                                             /\ \A j \in s : j > i => q[j] # Unused(a)},
     removed |-> {a \in Assets : \E i \in s : q[i] = Unused(a)}]

LEMMA EventIs ==
    ASSUME NEW e \in Events
    PROVE  /\ e.of \in Assets
           /\ (e = Changed(e.of) /\ e.kind = "changed") \/ (e = Unused(e.of) /\ e.kind = "unused")
           /\ \A a : Changed(a) # Unused(e.of) /\ Unused(a) # Changed(e.of)
           /\ \A a : e = Changed(a) \/ e = Unused(a) => a = e.of
BY DEF Events, Changed, Unused

\* One more event, at the last place of s.
LEMMA NewsStep ==
    ASSUME NEW n \in Nat, NEW q \in [1 .. n -> Events], NEW s \in SUBSET (1 .. n),
           NEW k \in s, \A i \in s : i <= k
    PROVE  NewsOf(q, s) = ReadEvent(NewsOf(q, s \ {k}), q[k])
<1> DEFINE t == s \ {k}
           e == q[k].of
<1>1. q[k] \in Events /\ e \in Assets /\ \A i \in t : i \in 1 .. n /\ i < k
  BY EventIs
<1>2. s = t \cup {k} /\ k \notin t
  OBVIOUS
<1> HIDE DEF t
<1>3. \A i \in t : k > i /\ ~(i > k)
  BY <1>1
<1>4. ~(k > k)
  OBVIOUS
<1> DEFINE Need(a, x) == \E i \in x : q[i] = Changed(a) /\ \A j \in x : j > i => q[j] # Unused(a)
           Gone(a, x) == \E i \in x : q[i] = Unused(a)
<1>5. CASE q[k] = Unused(e) /\ q[k].kind = "unused"
  <2>1. /\ \A a : q[k] # Changed(a)
        /\ \A a : q[k] = Unused(a) <=> a = e
    BY <1>1, <1>5, EventIs
  <2>2. \A a : Need(a, s) <=> a # e /\ Need(a, t)
    BY <1>2, <1>3, <1>4, <2>1
  <2>3. \A a : Gone(a, s) <=> a = e \/ Gone(a, t)
    BY <1>2, <2>1
  <2> HIDE DEF Need, Gone, e
  <2>4. {a \in Assets : Need(a, s)} = {a \in Assets : Need(a, t)} \ {e}
    BY <2>2
  <2>5. {a \in Assets : Gone(a, s)} = {a \in Assets : Gone(a, t)} \cup {e}
    BY <1>1, <2>3
  <2>6. ReadEvent(NewsOf(q, t), q[k]) =
            [needed |-> NewsOf(q, t).needed \ {e}, removed |-> NewsOf(q, t).removed \cup {e}]
    BY <1>5 DEF ReadEvent, e
  <2>7. /\ NewsOf(q, t) = [needed |-> {a \in Assets : Need(a, t)}, removed |-> {a \in Assets : Gone(a, t)}]
        /\ NewsOf(q, s) = [needed |-> {a \in Assets : Need(a, s)}, removed |-> {a \in Assets : Gone(a, s)}]
    BY Zenon DEF NewsOf, Need, Gone
  <2> DEFINE N == {a \in Assets : Need(a, t)}
             G == {a \in Assets : Gone(a, t)}
  <2> HIDE DEF N, G
  <2>8. [needed |-> N, removed |-> G].needed = N /\ [needed |-> N, removed |-> G].removed = G
    OBVIOUS
  <2> QED BY <2>4, <2>5, <2>6, <2>7, <2>8, Zenon DEF t, N, G
<1>6. CASE q[k] = Changed(e) /\ q[k].kind = "changed"
  <2>1. /\ \A a : q[k] # Unused(a)
        /\ \A a : q[k] = Changed(a) <=> a = e
    BY <1>1, <1>6, EventIs
  <2>2. \A a : Need(a, s) <=> a = e \/ Need(a, t)
    BY <1>2, <1>3, <1>4, <2>1
  <2>3. \A a : Gone(a, s) <=> Gone(a, t)
    BY <1>2, <2>1
  <2> HIDE DEF Need, Gone, e
  <2>4. {a \in Assets : Need(a, s)} = {a \in Assets : Need(a, t)} \cup {e}
    BY <1>1, <2>2
  <2>5. {a \in Assets : Gone(a, s)} = {a \in Assets : Gone(a, t)}
    BY <2>3
  <2>6. /\ NewsOf(q, t) = [needed |-> {a \in Assets : Need(a, t)}, removed |-> {a \in Assets : Gone(a, t)}]
        /\ NewsOf(q, s) = [needed |-> {a \in Assets : Need(a, s)}, removed |-> {a \in Assets : Gone(a, s)}]
    BY Zenon DEF NewsOf, Need, Gone
  <2> DEFINE N == {a \in Assets : Need(a, t)}
             G == {a \in Assets : Gone(a, t)}
  <2>7. ReadEvent(NewsOf(q, t), q[k]) = [NewsOf(q, t) EXCEPT !.needed = @ \cup {e}]
    BY <1>6 DEF ReadEvent, e
  <2> HIDE DEF N, G
  <2>8. [[needed |-> N, removed |-> G] EXCEPT !.needed = @ \cup {e}] = [needed |-> N \cup {e}, removed |-> G]
    <3> DEFINE x == [needed |-> N, removed |-> G]
               y == [x EXCEPT !.needed = @ \cup {e}]
    <3>1. y \in [needed : {N \cup {e}}, removed : {G}]
      OBVIOUS
    <3>2. \A z \in [needed : {N \cup {e}}, removed : {G}] : z = [needed |-> N \cup {e}, removed |-> G]
      OBVIOUS
    <3> QED BY <3>1, <3>2
  <2> QED BY <2>4, <2>5, <2>6, <2>7, <2>8, Zenon DEF t, N, G
<1> QED BY <1>1, <1>5, <1>6, EventIs

LEMMA FoldIsNews ==
    ASSUME NEW n \in Nat, NEW q \in [1 .. n -> Events]
    PROVE  FoldLeft(ReadEvent, [needed |-> {}, removed |-> {}], q) = NewsOf(q, 1 .. n)
<1> DEFINE none == [needed |-> {}, removed |-> {}]
           Fold(g) == g = [s \in SUBSET DOMAIN q |->
                              IF s = {} THEN none
                              ELSE ReadEvent(g[s \ {Max(s)}], q[Max(s)])]
           closed == [s \in SUBSET DOMAIN q |-> NewsOf(q, s)]
           fold == CHOOSE g : Fold(g)
<1>1. DOMAIN q = 1 .. n
  OBVIOUS
<1>2. NewsOf(q, {}) = none
  BY DEF NewsOf
<1>3. Fold(closed)
  <2>1. ASSUME NEW s \in SUBSET DOMAIN q, s # {}
        PROVE  closed[s] = ReadEvent(closed[s \ {Max(s)}], q[Max(s)])
    <3> DEFINE k == Max(s)
    <3>0. s \in SUBSET (1 .. n)
      BY <1>1
    <3>1. k \in s /\ \A i \in s : i <= k
      BY <2>1, <3>0, MaxIs
    <3> HIDE DEF k
    <3>2. NewsOf(q, s) = ReadEvent(NewsOf(q, s \ {k}), q[k])
      BY <3>0, <3>1, NewsStep
    <3>3. s \ {k} \in SUBSET DOMAIN q
      OBVIOUS
    <3> QED BY <3>2, <3>3 DEF k
  <2> HIDE DEF none
  <2> QED BY <1>2, <2>1
<1>4. Fold(fold)
  BY <1>3
<1>5. FoldLeft(ReadEvent, none, q) = fold[DOMAIN q]
  BY DEF FoldLeft, MapThenFoldSet
<1> HIDE DEF fold, closed
<1> DEFINE S == {k \in 0 .. n : fold[1 .. k] = closed[1 .. k]}
<1>6. 0 \in S
  <2>1. 1 .. 0 = {} /\ {} \in SUBSET DOMAIN q
    OBVIOUS
  <2>2. fold[{}] = none /\ closed[{}] = none
    BY <1>3, <1>4, <2>1
  <2> HIDE DEF none
  <2> QED BY <2>1, <2>2
<1>7. ASSUME NEW k \in 1 .. n, k - 1 \in S PROVE k \in S
  <2>1. /\ 1 .. k \in SUBSET DOMAIN q /\ 1 .. k # {}
        /\ Max(1 .. k) = k /\ (1 .. k) \ {k} = 1 .. k - 1
    BY <1>1, Prefix
  <2>2. /\ fold[1 .. k] = ReadEvent(fold[1 .. k - 1], q[k])
        /\ closed[1 .. k] = ReadEvent(closed[1 .. k - 1], q[k])
    BY <1>3, <1>4, <2>1
  <2>3. fold[1 .. k - 1] = closed[1 .. k - 1]
    BY <1>7
  <2> QED BY <2>2, <2>3
<1>8. n \in S
  BY <1>6, <1>7, Reaches
<1>9. closed[1 .. n] = NewsOf(q, 1 .. n)
  BY <1>1 DEF closed
<1> QED BY <1>1, <1>5, <1>8, <1>9

-----------------------------------------------------------------------------
(* The inductive invariant of what reaches a world.  An asset a world has  *)
(* not the last contents of is still to be heard of: in the queue of the   *)
(* main world, in the messages before the world, or in what it extracted.  *)
(* A message in the older buffer survives the next update only if that is  *)
(* the second since the world last read: skipped says which it is.         *)

Que(e) == \E i \in 1 .. Len(queued) : queued[i] = e
Ahead(w, e) == \E i \in 1 .. Len(messages) :
                  messages[i] = e /\ i >= cursor[w] /\ (skipped[w] = 0 => i >= newer)
Gone(w, a) == prepared[w][a] = 0 /\ a \notin Names(waiting[w])

Posted ==
    /\ queued \in Seq(Events) /\ messages \in Seq(Events)
    /\ newer \in 1 .. Len(messages) + 1
    /\ cursor \in [Worlds -> 1 .. Len(messages) + 1]
    /\ skipped \in [Worlds -> 0 .. Starved]

Framed ==
    /\ worlds \subseteq Worlds /\ due \subseteq worlds /\ drawing \subseteq worlds
    /\ due \cap drawing = {}
    /\ extracted \in [Worlds -> [copies : SUBSET Copies, removed : SUBSET Assets]]
    /\ \A w \in Worlds \ drawing : extracted[w] = NothingExtracted
    /\ \A w \in Worlds : \A c \in extracted[w].copies : c.version = version[c.of]
    /\ \A w \in Worlds \ worlds : \A a \in Assets : Gone(w, a)

\* Nothing says that an asset that was not dropped is unused.
Silent ==
    \A a \in Assets : version[a] # Dropped =>
        /\ \A i \in 1 .. Len(queued) : queued[i] # Unused(a)
        /\ \A i \in 1 .. Len(messages) : messages[i] # Unused(a)
        /\ \A w \in Worlds : a \notin extracted[w].removed

Informed(w, a) ==
    /\ version[a] > 0 => \/ Que(Changed(a)) \/ Ahead(w, Changed(a))
                         \/ a \in Names(extracted[w].copies) \/ HasCurrent(w, a)
    /\ version[a] = Dropped => \/ Que(Unused(a)) \/ Ahead(w, Unused(a))
                               \/ a \in extracted[w].removed \/ Gone(w, a)

AllInformed == \A w \in worlds, a \in Assets : skipped[w] < Starved => Informed(w, a)

RInv == VersionsOrdered /\ Posted /\ Framed /\ Silent /\ AllInformed /\ IsFiniteSet(Live)

LEMMA ReachInit == Init => RInv
<1> SUFFICES ASSUME Init PROVE RInv
  OBVIOUS
<1>1. VersionsOrdered
  BY OrderInit
<1>2. Posted
  BY DEF Init, Posted, Starved
<1>3. Framed
  BY RenderAssetsAssumption DEF Init, Framed, NothingExtracted, Gone, Names
<1>4. Silent
  BY DEF Init, Silent, NothingExtracted
<1>5. version = [a \in Assets |-> 0]
  BY DEF Init
<1>6. AllInformed
  BY <1>5 DEF AllInformed, Informed, Dropped
<1>7. Live = {}
  BY <1>5 DEF Live
<1> QED BY <1>1, <1>2, <1>3, <1>4, <1>6, <1>7, FS_EmptySet DEF RInv

\* No frame goes on, so that nothing is extracted.
LEMMA BetweenFrames ==
    ASSUME RInv, due = {}, drawing = {}, NEW w \in Worlds
    PROVE  extracted[w].copies = {} /\ extracted[w].removed = {}
BY DEF RInv, Framed, NothingExtracted

LEMMA ReachChange ==
    ASSUME RInv, NEW a \in Assets, ChangeAsset(a)
    PROVE  RInv'
<1>1. due = {} /\ drawing = {} /\ UNCHANGED <<messages, newer, worlds, renderWorlds, frame, skipped>>
  BY DEF ChangeAsset
<1>2. UNCHANGED <<messages, newer, worlds, cursor, extracted, waiting, prepared, due, drawing, skipped>>
  BY <1>1 DEF renderWorlds, frame
<1>3. VersionsOrdered'
  BY OrderChange DEF RInv
<1>4. PICK e \in Events :
        /\ queued' = Append(queued, e)
        /\ \A b \in Assets : b # a => version'[b] = version[b] /\ e # Unused(b)
        /\ version[a] # Dropped
        /\ \/ version'[a] > 0 /\ version'[a] # Dropped /\ e = Changed(a)
           \/ version'[a] = Dropped /\ e = Unused(a)
  <2>0. version \in [Assets -> Dropped .. MaxVersion] /\ MaxVersion \in Nat
    BY RenderAssetsAssumption DEF RInv, VersionsOrdered, VersionsTyped
  <2>1. \A b : Changed(a) # Unused(b) /\ (b # a => Unused(a) # Unused(b))
    BY DEF Changed, Unused
  <2>2. Changed(a) \in Events /\ Unused(a) \in Events
    BY DEF Changed, Unused, Events
  <2>3. CASE /\ version[a] \in 0 .. MaxVersion - 1
             /\ version' = [version EXCEPT ![a] = @ + 1]
             /\ queued' = Append(queued, Changed(a))
    <3>1. version'[a] = version[a] + 1 /\ \A b \in Assets : b # a => version'[b] = version[b]
      BY <2>0, <2>3
    <3>2. version'[a] > 0 /\ version'[a] # Dropped /\ version[a] # Dropped
      BY <2>0, <2>3, <3>1 DEF Dropped
    <3> QED BY <2>1, <2>2, <2>3, <3>1, <3>2
  <2>4. CASE /\ a \in Live
             /\ version' = [version EXCEPT ![a] = Dropped]
             /\ queued' = Append(queued, Unused(a))
    <3>1. version'[a] = Dropped /\ \A b \in Assets : b # a => version'[b] = version[b]
      BY <2>0, <2>4
    <3>2. version[a] # Dropped
      BY <2>4 DEF Live, Dropped
    <3> QED BY <2>1, <2>2, <2>4, <3>1, <3>2
  <2> QED BY <2>3, <2>4 DEF ChangeAsset
<1>5. /\ queued' \in Seq(Events) /\ Len(queued') = Len(queued) + 1 /\ Len(queued) \in Nat
      /\ queued'[Len(queued) + 1] = e
      /\ \A i \in 1 .. Len(queued) : queued'[i] = queued[i]
  BY <1>4 DEF RInv, Posted
<1>6. Posted'
  BY <1>2, <1>5 DEF RInv, Posted
<1>7. Framed'
  <2>1. \A w \in Worlds : extracted[w].copies = {}
    BY <1>1, BetweenFrames
  <2> QED BY <1>2, <2>1 DEF RInv, Framed, Gone
<1>8. Silent'
  <2> SUFFICES ASSUME NEW b \in Assets, version'[b] # Dropped
               PROVE  /\ \A i \in 1 .. Len(queued') : queued'[i] # Unused(b)
                      /\ \A i \in 1 .. Len(messages') : messages'[i] # Unused(b)
                      /\ \A w \in Worlds : b \notin extracted'[w].removed
    BY DEF Silent
  <2>1. version[b] # Dropped /\ e # Unused(b)
    BY <1>4 DEF Changed, Unused
  <2>2. \A i \in 1 .. Len(queued') : i \in 1 .. Len(queued) \/ i = Len(queued) + 1
    BY <1>5
  <2> QED BY <1>2, <1>5, <2>1, <2>2 DEF RInv, Silent
<1>9. AllInformed'
  <2> SUFFICES ASSUME NEW w \in worlds, NEW b \in Assets, skipped[w] < Starved
               PROVE  Informed(w, b)'
    BY <1>2 DEF AllInformed
  <2>1. Que(e)'
    BY <1>5 DEF Que
  <2>2. CASE b = a
    <3>1. Que(e)' /\ (version'[a] > 0 => e = Changed(a)) /\ (version'[a] = Dropped => e = Unused(a))
      BY <1>4, <2>1 DEF Dropped
    <3> QED BY <2>2, <3>1 DEF Informed
  <2>3. CASE b # a
    <3>1. version'[b] = version[b] /\ Informed(w, b)
      BY <1>4, <2>3 DEF RInv, AllInformed
    <3>2. /\ Ahead(w, Changed(b)) => Ahead(w, Changed(b))'
          /\ Ahead(w, Unused(b)) => Ahead(w, Unused(b))'
          /\ HasCurrent(w, b) => HasCurrent(w, b)'
          /\ Gone(w, b) => Gone(w, b)'
      BY <1>2, <3>1 DEF Ahead, HasCurrent, Gone
    <3>3. /\ Que(Changed(b)) => Que(Changed(b))'
          /\ Que(Unused(b)) => Que(Unused(b))'
      BY <1>5 DEF Que
    <3> QED BY <1>2, <3>1, <3>2, <3>3 DEF Informed
  <2> QED BY <2>2, <2>3
<1>10. IsFiniteSet(Live')
  <2>1. Live' \subseteq Live \cup {a}
    BY <1>4 DEF Live
  <2>2. IsFiniteSet(Live \cup {a})
    BY FS_AddElement DEF RInv
  <2> QED BY <2>1, <2>2, FS_Subset
<1> QED BY <1>3, <1>6, <1>7, <1>8, <1>9, <1>10 DEF RInv

\* What replay_asset_events sends.
LEMMA ReplayIs ==
    ASSUME IsFiniteSet(Live)
    PROVE  /\ Replay \in Seq(Events)
           /\ \A i \in 1 .. Len(Replay) : \E a \in Live : Replay[i] = Changed(a)
           /\ \A a \in Live : \E i \in 1 .. Len(Replay) : Replay[i] = Changed(a)
<1> DEFINE f == [a \in Live |-> Changed(a)]
           S == {Changed(a) : a \in Live}
<1>1. IsFiniteSet({f[x] : x \in Live})
  BY FiniteImage
<1>2. {f[x] : x \in Live} = S
  OBVIOUS
<1>3. S \subseteq Events /\ \A a \in Live : Changed(a) \in S
  BY DEF Changed, Events, Live
<1>4. \A r \in S : \E a \in Live : r = Changed(a)
  OBVIOUS
<1>5. Replay = SetToSeq(S)
  BY DEF Replay
<1> HIDE DEF f, S
<1>6. Replay \in Seq(S) /\ \A x \in S : \E i \in 1 .. Len(Replay) : Replay[i] = x
  BY <1>1, <1>2, <1>5, SetToSeqIs
<1>7. Replay \in Seq(Events) /\ \A i \in 1 .. Len(Replay) : Replay[i] \in S
  BY <1>3, <1>6
<1> QED BY <1>3, <1>4, <1>6, <1>7

LEMMA ReachJoin ==
    ASSUME RInv, NEW w \in Worlds, Join(w)
    PROVE  RInv'
<1>1. /\ due = {} /\ drawing = {} /\ w \notin worlds /\ worlds' = worlds \cup {w}
      /\ messages' = messages \o Replay
      /\ UNCHANGED <<version, queued, newer, cursor, extracted, waiting, prepared, due, drawing, skipped>>
  BY DEF Join, renderWorlds, frame
<1>2. VersionsOrdered'
  BY <1>1, OrderSame DEF RInv
<1>3. /\ Replay \in Seq(Events)
      /\ \A i \in 1 .. Len(Replay) : \E a \in Live : Replay[i] = Changed(a)
      /\ \A a \in Live : \E i \in 1 .. Len(Replay) : Replay[i] = Changed(a)
  BY ReplayIs DEF RInv
<1> DEFINE n == Len(messages)
           m == Len(Replay)
<1>4. messages \in Seq(Events) /\ newer \in 1 .. n + 1 /\ cursor \in [Worlds -> 1 .. n + 1]
  BY DEF RInv, Posted
<1>5. /\ messages' \in Seq(Events) /\ n \in Nat /\ m \in Nat /\ Len(messages') = n + m
      /\ \A i \in 1 .. n : messages'[i] = messages[i]
      /\ \A i \in 1 .. m : messages'[n + i] = Replay[i]
  BY <1>1, <1>3, <1>4
<1> HIDE DEF n, m
<1>6. \A i \in 1 .. n + m : i \in 1 .. n \/ \E j \in 1 .. m : i = n + j
  <2> TAKE i \in 1 .. n + m
  <2>1. i \in 1 .. n \/ (i - n \in 1 .. m /\ i = n + (i - n))
    BY <1>5
  <2> QED BY <2>1
<1>7. \A i \in 1 .. n : i \in 1 .. n + m
  BY <1>5
<1>8. \A i \in 1 .. m : n + i \in 1 .. n + m /\ n + i >= newer /\ \A v \in Worlds : n + i >= cursor[v]
  BY <1>4, <1>5
<1>9. Posted'
  <2>1. 1 .. n + 1 \subseteq 1 .. n + m + 1
    BY <1>5
  <2>2. newer \in 1 .. n + m + 1 /\ cursor \in [Worlds -> 1 .. n + m + 1]
    BY <1>4, <2>1
  <2> QED BY <1>1, <1>5, <2>2 DEF RInv, Posted
<1>10. Framed'
  BY <1>1 DEF RInv, Framed, Gone
<1>11. Silent'
  <2> SUFFICES ASSUME NEW b \in Assets, version[b] # Dropped
               PROVE  \A i \in 1 .. n + m : messages'[i] # Unused(b)
    BY <1>1, <1>5 DEF RInv, Silent
  <2>1. \A a : Changed(a) # Unused(b)
    BY DEF Changed, Unused
  <2>2. \A i \in 1 .. n : messages[i] # Unused(b)
    BY DEF RInv, Silent, n
  <2> SUFFICES ASSUME NEW i \in 1 .. n + m PROVE messages'[i] # Unused(b)
    OBVIOUS
  <2>3. CASE i \in 1 .. n
    BY <1>5, <2>2, <2>3
  <2>4. CASE \E j \in 1 .. m : i = n + j
    <3>1. PICK j \in 1 .. m : i = n + j
      BY <2>4
    <3>2. messages'[i] = Replay[j] /\ \E a \in Live : Replay[j] = Changed(a)
      BY <1>3, <1>5, <3>1 DEF m
    <3> QED BY <2>1, <3>2
  <2> QED BY <1>6, <2>3, <2>4
<1>12. AllInformed'
  <2> SUFFICES ASSUME NEW v \in worlds', NEW b \in Assets, skipped[v] < Starved
               PROVE  Informed(v, b)'
    BY <1>1 DEF AllInformed
  <2>0. v \in Worlds
    BY <1>1 DEF RInv, Framed
  <2>1. ASSUME version[b] > 0 PROVE Ahead(v, Changed(b))'
    <3>1. PICK i \in 1 .. m : Replay[i] = Changed(b)
      BY <1>3, <2>1 DEF Live, m
    <3>2. messages'[n + i] = Changed(b) /\ n + i \in 1 .. Len(messages')
      BY <1>5, <1>8, <3>1
    <3>3. n + i >= cursor'[v] /\ n + i >= newer'
      BY <1>1, <1>8, <2>0
    <3> QED BY <3>2, <3>3 DEF Ahead
  <2>2. ASSUME version[b] = Dropped
        PROVE  (\/ Que(Unused(b)) \/ Ahead(v, Unused(b))
                \/ b \in extracted[v].removed \/ Gone(v, b))'
    <3>1. CASE v \in worlds
      <4>1. Informed(v, b)
        BY <3>1 DEF RInv, AllInformed
      <4>2. Ahead(v, Unused(b)) => Ahead(v, Unused(b))'
        BY <1>1, <1>5, <1>7 DEF Ahead, n
      <4>3. (Que(Unused(b)) => Que(Unused(b))') /\ (Gone(v, b) => Gone(v, b)')
        BY <1>1 DEF Que, Gone
      <4> QED BY <1>1, <2>2, <4>1, <4>2, <4>3 DEF Informed
    <3>2. CASE v \notin worlds
      BY <1>1, <2>0, <3>2 DEF RInv, Framed, Gone
    <3> QED BY <3>1, <3>2
  <2> QED BY <1>1, <2>1, <2>2 DEF Informed
<1> QED BY <1>1, <1>2, <1>9, <1>10, <1>11, <1>12 DEF RInv, Live

LEMMA Joined ==
    ASSUME NEW q \in Seq(Events), NEW r \in Seq(Events)
    PROVE  /\ q \o r \in Seq(Events) /\ Len(q \o r) = Len(q) + Len(r)
           /\ \A i \in 1 .. Len(q) : (q \o r)[i] = q[i]
           /\ \A i \in 1 .. Len(r) : (q \o r)[Len(q) + i] = r[i]
OBVIOUS

\* Messages after a schedule are messages from before or from the queue, and
\* what a world that has not starved has before it stays before it.
LEMMA Forwarded ==
    ASSUME RInv, RunSchedule
    PROVE  /\ messages' \in Seq(Events)
           /\ newer' \in 1 .. Len(messages') + 1
           /\ cursor' \in [Worlds -> 1 .. Len(messages') + 1]
           /\ skipped' \in [Worlds -> 0 .. Starved]
           /\ \A i \in 1 .. Len(messages') :
                 \/ \E j \in 1 .. Len(messages) : messages'[i] = messages[j]
                 \/ \E j \in 1 .. Len(queued) : messages'[i] = queued[j]
           /\ \A w \in worlds : skipped'[w] < Starved =>
                 /\ skipped[w] < Starved
                 /\ \A j \in 1 .. Len(queued) : \E i \in 1 .. Len(messages') :
                       /\ messages'[i] = queued[j] /\ i >= cursor'[w] /\ i >= newer'
                 /\ \A j \in 1 .. Len(messages) :
                       j >= cursor[w] /\ (skipped[w] = 0 => j >= newer) =>
                          \E i \in 1 .. Len(messages') :
                             /\ messages'[i] = messages[j] /\ i >= cursor'[w]
                             /\ skipped'[w] = 0 => i >= newer'
<1> DEFINE n == Len(messages)
           m == Len(queued)
<1>1. /\ messages \in Seq(Events) /\ queued \in Seq(Events) /\ n \in Nat /\ m \in Nat
      /\ newer \in 1 .. n + 1 /\ cursor \in [Worlds -> 1 .. n + 1]
      /\ skipped \in [Worlds -> 0 .. Starved] /\ worlds \subseteq Worlds
  BY DEF RInv, Posted, Framed
<1>2. CASE messages' = messages \o queued /\ UNCHANGED <<newer, cursor, skipped>>
  <2>1. /\ messages' \in Seq(Events) /\ Len(messages') = n + m
        /\ \A i \in 1 .. n : messages'[i] = messages[i]
        /\ \A i \in 1 .. m : messages'[n + i] = queued[i]
    BY <1>1, <1>2
  <2> HIDE DEF n, m
  <2>2. \A i \in 1 .. n + m : i \in 1 .. n \/ \E j \in 1 .. m : i = n + j
    <3> TAKE i \in 1 .. n + m
    <3>1. i \in 1 .. n \/ (i - n \in 1 .. m /\ i = n + (i - n))
      BY <1>1
    <3> QED BY <3>1
  <2>3. \A i \in 1 .. n : i \in 1 .. n + m
    BY <1>1
  <2>4. \A i \in 1 .. m : n + i \in 1 .. n + m /\ n + i >= newer /\ \A v \in Worlds : n + i >= cursor[v]
    BY <1>1
  <2>5. newer \in 1 .. n + m + 1 /\ cursor \in [Worlds -> 1 .. n + m + 1]
    <3>1. 1 .. n + 1 \subseteq 1 .. n + m + 1
      BY <1>1
    <3> QED BY <1>1, <3>1
  <2>6. \A i \in 1 .. n + m : \/ \E j \in 1 .. n : messages'[i] = messages[j]
                              \/ \E j \in 1 .. m : messages'[i] = queued[j]
    BY <2>1, <2>2
  <2>7. ASSUME NEW w \in worlds, NEW j \in 1 .. m
        PROVE  \E i \in 1 .. n + m : messages'[i] = queued[j] /\ i >= cursor[w] /\ i >= newer
    BY <1>1, <2>1, <2>4
  <2> QED BY <1>1, <1>2, <2>1, <2>3, <2>5, <2>6, <2>7 DEF n, m
<1>3. CASE MessageUpdate
  <2> DEFINE kept == SubSeq(messages, newer, n)
             l == n - newer + 1
  <2>1. kept \in Seq(Events) /\ Len(kept) = l /\ l \in Nat
        /\ \A i \in 1 .. l : kept[i] = messages[newer + i - 1]
    BY <1>1
  <2>2. messages' = kept \o queued
    BY <1>3 DEF MessageUpdate
  <2> HIDE DEF kept
  <2>3. /\ messages' \in Seq(Events) /\ Len(messages') = l + m
        /\ \A i \in 1 .. l : messages'[i] = kept[i]
        /\ \A i \in 1 .. m : messages'[l + i] = queued[i]
    <3> HIDE DEF l
    <3> QED BY <1>1, <2>1, <2>2, Joined
  <2>4. newer' = l + 1
    BY <1>1, <1>3 DEF MessageUpdate
  <2>5. /\ \A w \in Worlds : cursor'[w] = IF cursor[w] < newer THEN 1 ELSE cursor[w] - newer + 1
        /\ cursor' = [w \in Worlds |-> cursor'[w]]
    BY <1>3 DEF MessageUpdate, MoveCursors
  <2>6. /\ \A w \in Worlds : skipped'[w] = IF w \in worlds /\ skipped[w] < Starved
                                           THEN skipped[w] + 1 ELSE skipped[w]
        /\ skipped' = [w \in Worlds |-> skipped'[w]]
    BY <1>3 DEF MessageUpdate
  <2>7. \A w \in Worlds : cursor'[w] \in 1 .. l + 1
    BY <1>1, <2>5
  <2>8. \A w \in Worlds : skipped'[w] \in 0 .. Starved
    BY <1>1, <2>6 DEF Starved
  <2>9. \A j \in newer .. n : j - newer + 1 \in 1 .. l /\ messages'[j - newer + 1] = messages[j]
    <3> TAKE j \in newer .. n
    <3>1. j - newer + 1 \in 1 .. l /\ newer + (j - newer + 1) - 1 = j
      BY <1>1
    <3> QED BY <2>1, <2>3, <3>1
  <2>10. \A i \in 1 .. l : newer + i - 1 \in 1 .. n /\ messages'[i] = messages[newer + i - 1]
    BY <1>1, <2>1, <2>3
  <2>11. \A w \in worlds : skipped'[w] < Starved => skipped[w] = 0 /\ skipped'[w] = 1
    BY <1>1, <2>6 DEF Starved
  <2>12. ASSUME NEW w \in worlds, NEW j \in 1 .. n, j >= cursor[w], j >= newer
         PROVE  j \in newer .. n /\ j - newer + 1 >= cursor'[w]
    BY <1>1, <2>5, <2>12
  <2> HIDE DEF n, m, l
  <2>13. \A i \in 1 .. l + m : i \in 1 .. l \/ \E j \in 1 .. m : i = l + j
    <3> TAKE i \in 1 .. l + m
    <3>1. i \in 1 .. l \/ (i - l \in 1 .. m /\ i = l + (i - l))
      BY <1>1, <2>1
    <3> QED BY <3>1
  <2>14. /\ \A i \in 1 .. l : i \in 1 .. l + m
         /\ \A i \in 1 .. m : l + i \in 1 .. l + m /\ l + i >= l + 1
         /\ l + 1 \in 1 .. l + m + 1
         /\ 1 .. l + 1 \subseteq 1 .. l + m + 1
    BY <1>1, <2>1
  <2>15. cursor' \in [Worlds -> 1 .. l + m + 1] /\ skipped' \in [Worlds -> 0 .. Starved]
    BY <2>5, <2>6, <2>7, <2>8, <2>14
  <2>16. \A i \in 1 .. l + m : \/ \E j \in 1 .. n : messages'[i] = messages[j]
                               \/ \E j \in 1 .. m : messages'[i] = queued[j]
    BY <2>3, <2>10, <2>13
  <2>17. ASSUME NEW w \in worlds, NEW j \in 1 .. m
         PROVE  \E i \in 1 .. l + m : messages'[i] = queued[j] /\ i >= cursor'[w] /\ i >= newer'
    <3>1. l + j \in 1 .. l + m /\ messages'[l + j] = queued[j] /\ l + j >= newer'
      BY <2>3, <2>4, <2>14
    <3>2. l + j >= cursor'[w]
      BY <1>1, <2>1, <2>7
    <3> QED BY <3>1, <3>2
  <2>18. ASSUME NEW w \in worlds, NEW j \in 1 .. n, j >= cursor[w], j >= newer
         PROVE  \E i \in 1 .. l + m : messages'[i] = messages[j] /\ i >= cursor'[w]
    <3>1. j - newer + 1 \in 1 .. l /\ messages'[j - newer + 1] = messages[j]
      BY <2>9, <2>12, <2>18
    <3> QED BY <2>12, <2>14, <2>18, <3>1
  <2>19. \A w \in worlds : skipped'[w] < Starved =>
            skipped[w] = 0 /\ skipped'[w] # 0 /\ skipped[w] < Starved
    BY <2>11 DEF Starved
  <2>20. newer' \in 1 .. l + m + 1
    BY <2>4, <2>14
  <2> QED BY <2>3, <2>15, <2>16, <2>17, <2>18, <2>19, <2>20 DEF n, m
<1> QED BY <1>2, <1>3 DEF RunSchedule

LEMMA ReachSchedule ==
    ASSUME RInv, RunSchedule
    PROVE  RInv'
<1>1. /\ due = {} /\ drawing = {} /\ queued' = <<>> /\ due' \in SUBSET worlds
      /\ UNCHANGED <<version, worlds, extracted, waiting, prepared, drawing>>
  BY DEF RunSchedule
<1>2. VersionsOrdered'
  BY <1>1, OrderSame DEF RInv
<1>3. Posted'
  <2>1. queued' \in Seq(Events)
    BY <1>1
  <2> QED BY <2>1, Forwarded DEF Posted
<1>4. Framed'
  BY <1>1 DEF RInv, Framed, Gone
<1>5. Silent'
  <2> SUFFICES ASSUME NEW b \in Assets, version[b] # Dropped
               PROVE  \A i \in 1 .. Len(messages') : messages'[i] # Unused(b)
    BY <1>1 DEF RInv, Silent
  <2>1. /\ \A j \in 1 .. Len(queued) : queued[j] # Unused(b)
        /\ \A j \in 1 .. Len(messages) : messages[j] # Unused(b)
    BY DEF RInv, Silent
  <2>2. \A i \in 1 .. Len(messages') :
                 \/ \E j \in 1 .. Len(messages) : messages'[i] = messages[j]
                 \/ \E j \in 1 .. Len(queued) : messages'[i] = queued[j]
    BY Forwarded
  <2> QED BY <2>1, <2>2
<1>6. AllInformed'
  <2> SUFFICES ASSUME NEW w \in worlds, NEW b \in Assets, skipped'[w] < Starved
               PROVE  Informed(w, b)'
    BY <1>1 DEF AllInformed
  <2>1. /\ skipped[w] < Starved
        /\ \A j \in 1 .. Len(queued) : \E i \in 1 .. Len(messages') :
              /\ messages'[i] = queued[j] /\ i >= cursor'[w] /\ i >= newer'
        /\ \A j \in 1 .. Len(messages) :
              j >= cursor[w] /\ (skipped[w] = 0 => j >= newer) =>
                 \E i \in 1 .. Len(messages') :
                    /\ messages'[i] = messages[j] /\ i >= cursor'[w]
                    /\ skipped'[w] = 0 => i >= newer'
    BY Forwarded
  <2>2. Informed(w, b)
    BY <2>1 DEF RInv, AllInformed
  <2>3. /\ Ahead(w, Changed(b)) => Ahead(w, Changed(b))'
        /\ Ahead(w, Unused(b)) => Ahead(w, Unused(b))'
    BY <2>1 DEF Ahead
  <2>4. /\ Que(Changed(b)) => Ahead(w, Changed(b))'
        /\ Que(Unused(b)) => Ahead(w, Unused(b))'
    BY <2>1 DEF Ahead, Que
  <2>5. /\ HasCurrent(w, b) => HasCurrent(w, b)'
        /\ Gone(w, b) => Gone(w, b)'
    BY <1>1 DEF HasCurrent, Gone
  <2> QED BY <1>1, <2>2, <2>3, <2>4, <2>5 DEF Informed
<1> QED BY <1>1, <1>2, <1>3, <1>4, <1>5, <1>6 DEF RInv, Live

\* What w learns when it reads.
LEMMA ReadsNews ==
    ASSUME RInv, NEW w \in Worlds
    PROVE  LET news == FoldLeft(ReadEvent, [needed |-> {}, removed |-> {}], Unread(w))
           IN /\ news.removed \in SUBSET Assets
              /\ \A a \in Assets : version[a] # Dropped => a \notin news.removed
              /\ \A a \in Assets : Ahead(w, Unused(a)) => a \in news.removed
              /\ \A a \in Assets : version[a] # Dropped /\ Ahead(w, Changed(a)) => a \in news.needed
<1> DEFINE n == Len(messages)
           q == Unread(w)
           l == n - cursor[w] + 1
           news == FoldLeft(ReadEvent, [needed |-> {}, removed |-> {}], q)
<1>1. messages \in Seq(Events) /\ n \in Nat /\ cursor[w] \in 1 .. n + 1
  BY DEF RInv, Posted
<1>2. q \in Seq(Events) /\ Len(q) = l /\ l \in Nat
      /\ \A i \in 1 .. l : q[i] = messages[cursor[w] + i - 1]
  BY <1>1 DEF Unread
<1> HIDE DEF q
<1>3. q \in [1 .. l -> Events]
  BY <1>2
<1>4. news = NewsOf(q, 1 .. l)
  BY <1>2, <1>3, FoldIsNews
<1>5. /\ news.needed = {a \in Assets : \E i \in 1 .. l : /\ q[i] = Changed(a)
                                        /\ \A j \in 1 .. l : j > i => q[j] # Unused(a)}
      /\ news.removed = {a \in Assets : \E i \in 1 .. l : q[i] = Unused(a)}
  BY <1>4 DEF NewsOf
<1> HIDE DEF news
<1>6. \A i \in 1 .. l : cursor[w] + i - 1 \in 1 .. n
  BY <1>1
<1>7. \A j \in 1 .. n : j >= cursor[w] =>
         j - cursor[w] + 1 \in 1 .. l /\ q[j - cursor[w] + 1] = messages[j]
  <2> SUFFICES ASSUME NEW j \in 1 .. n, j >= cursor[w]
               PROVE  j - cursor[w] + 1 \in 1 .. l /\ q[j - cursor[w] + 1] = messages[j]
    OBVIOUS
  <2>1. j - cursor[w] + 1 \in 1 .. l /\ cursor[w] + (j - cursor[w] + 1) - 1 = j
    BY <1>1
  <2> QED BY <1>2, <2>1
<1>8. ASSUME NEW a \in Assets, version[a] # Dropped
      PROVE  \A i \in 1 .. l : q[i] # Unused(a)
  BY <1>2, <1>6, <1>8 DEF RInv, Silent, n
<1> HIDE DEF l
<1>9. ASSUME NEW a \in Assets, Ahead(w, Unused(a))
      PROVE  a \in news.removed
  <2>1. PICK j \in 1 .. n : messages[j] = Unused(a) /\ j >= cursor[w]
    BY <1>9 DEF Ahead, n
  <2>2. q[j - cursor[w] + 1] = Unused(a) /\ j - cursor[w] + 1 \in 1 .. l
    BY <1>7, <2>1
  <2> QED BY <1>5, <2>2
<1>10. ASSUME NEW a \in Assets, version[a] # Dropped, Ahead(w, Changed(a))
       PROVE  a \in news.needed
  <2>1. PICK j \in 1 .. n : messages[j] = Changed(a) /\ j >= cursor[w]
    BY <1>10 DEF Ahead, n
  <2>2. q[j - cursor[w] + 1] = Changed(a) /\ j - cursor[w] + 1 \in 1 .. l
    BY <1>7, <2>1
  <2> QED BY <1>5, <1>8, <1>10, <2>2
<1>11. \A a \in Assets : version[a] # Dropped => a \notin news.removed
  BY <1>5, <1>8
<1>12. news.removed \in SUBSET Assets
  BY <1>5
<1> QED BY <1>9, <1>10, <1>11, <1>12 DEF news, q

LEMMA ReachExtract ==
    ASSUME RInv, NEW w \in Worlds, Extract(w)
    PROVE  RInv'
<1> DEFINE news == FoldLeft(ReadEvent, [needed |-> {}, removed |-> {}], Unread(w))
           copies == {Copy(a, version[a]) : a \in news.needed \cap Live}
<1>1. /\ w \in due /\ due' = due \ {w} /\ drawing' = drawing \cup {w}
      /\ extracted' = [extracted EXCEPT ![w] = [copies |-> copies, removed |-> news.removed]]
      /\ cursor' = [cursor EXCEPT ![w] = Len(messages) + 1]
      /\ skipped' = [skipped EXCEPT ![w] = IF @ = Starved THEN @ ELSE 0]
      /\ UNCHANGED <<version, queued, messages, newer, worlds, waiting, prepared>>
  BY DEF Extract, mainWorld, Read
<1>2. /\ news.removed \in SUBSET Assets
      /\ \A a \in Assets : version[a] # Dropped => a \notin news.removed
      /\ \A a \in Assets : Ahead(w, Unused(a)) => a \in news.removed
      /\ \A a \in Assets : version[a] # Dropped /\ Ahead(w, Changed(a)) => a \in news.needed
  BY ReadsNews
<1> HIDE DEF news
<1>3. \A c \in copies : c \in Copies /\ c.of \in Live /\ c.version = version[c.of]
  BY RenderAssetsAssumption DEF Live, Copy, Copies, RInv, VersionsOrdered, VersionsTyped, Dropped
<1>4. \A a \in news.needed \cap Live : a \in Names(copies)
  <2> TAKE a \in news.needed \cap Live
  <2>1. Copy(a, version[a]) \in copies
    OBVIOUS
  <2>2. Copy(a, version[a]).of = a
    BY DEF Copy
  <2> HIDE DEF copies
  <2> QED BY <2>1, <2>2 DEF Names
<1> HIDE DEF copies
<1>5. /\ extracted'[w].copies = copies /\ extracted'[w].removed = news.removed
      /\ \A v \in Worlds \ {w} : extracted'[v] = extracted[v]
      /\ extracted' \in [Worlds -> [copies : SUBSET Copies, removed : SUBSET Assets]]
  BY <1>1, <1>2, <1>3 DEF RInv, Framed
<1>6. VersionsOrdered'
  BY OrderExtract DEF RInv
<1>7. /\ cursor'[w] = Len(messages) + 1 /\ \A v \in Worlds \ {w} : cursor'[v] = cursor[v]
      /\ (skipped'[w] = IF skipped[w] = Starved THEN Starved ELSE 0)
      /\ \A v \in Worlds \ {w} : skipped'[v] = skipped[v]
  BY <1>1 DEF RInv, Posted
<1>8. Posted'
  <2>1. Len(messages) + 1 \in 1 .. Len(messages) + 1 /\ 0 \in 0 .. Starved /\ Starved \in 0 .. Starved
    BY DEF RInv, Posted, Starved
  <2> QED BY <1>1, <2>1 DEF RInv, Posted
<1>9. Framed'
  <2>1. worlds' \subseteq Worlds /\ due' \subseteq worlds' /\ drawing' \subseteq worlds' /\ due' \cap drawing' = {}
    BY <1>1 DEF RInv, Framed
  <2>2. \A v \in Worlds \ drawing' : extracted'[v] = NothingExtracted
    BY <1>1, <1>5 DEF RInv, Framed
  <2>3. \A v \in Worlds : \A c \in extracted'[v].copies : c.version = version'[c.of]
    BY <1>1, <1>3, <1>5 DEF RInv, Framed
  <2>4. \A v \in Worlds \ worlds' : \A a \in Assets : Gone(v, a)'
    BY <1>1 DEF RInv, Framed, Gone
  <2> QED BY <1>5, <2>1, <2>2, <2>3, <2>4 DEF Framed
<1>10. Silent'
  BY <1>1, <1>2, <1>5 DEF RInv, Silent
<1>11. AllInformed'
  <2> SUFFICES ASSUME NEW v \in worlds, NEW b \in Assets, skipped'[v] < Starved
               PROVE  Informed(v, b)'
    BY <1>1 DEF AllInformed
  <2>0. v \in Worlds
    BY DEF RInv, Framed
  <2>1. skipped[v] < Starved
    BY <1>7, <2>0 DEF RInv, Posted, Starved
  <2>2. Informed(v, b)
    BY <2>1 DEF RInv, AllInformed
  <2>3. /\ Que(Changed(b)) => Que(Changed(b))'
        /\ Que(Unused(b)) => Que(Unused(b))'
        /\ HasCurrent(v, b) => HasCurrent(v, b)'
        /\ Gone(v, b) => Gone(v, b)'
    BY <1>1 DEF Que, HasCurrent, Gone
  <2>4. CASE v = w
    <3>1. extracted[w].copies = {} /\ extracted[w].removed = {}
      BY <1>1 DEF RInv, Framed, NothingExtracted
    <3>2. b \notin Names(extracted[w].copies)
      BY <3>1 DEF Names
    <3>3. version[b] > 0 /\ Ahead(w, Changed(b)) => b \in Names(copies)
      BY <1>2, <1>4 DEF Live, Dropped
    <3> QED BY <1>1, <1>2, <1>5, <2>2, <2>3, <2>4, <3>1, <3>2, <3>3 DEF Informed
  <2>5. CASE v # w
    <3>1. /\ Ahead(v, Changed(b)) => Ahead(v, Changed(b))'
          /\ Ahead(v, Unused(b)) => Ahead(v, Unused(b))'
      BY <1>1, <1>7, <2>0, <2>5 DEF Ahead
    <3>2. extracted'[v] = extracted[v]
      BY <1>5, <2>0, <2>5
    <3> QED BY <1>1, <2>2, <2>3, <3>1, <3>2 DEF Informed
  <2> QED BY <2>4, <2>5
<1> QED BY <1>1, <1>6, <1>8, <1>9, <1>10, <1>11 DEF RInv, Live

\* Of an asset with one copy, that is the version among the copies.
LEMMA VersionInOne ==
    ASSUME NEW copies \in SUBSET Copies, NEW c \in copies, Single(copies), NEW v
    PROVE  VersionIn(copies, c.of, v) = c.version
<1>1. c.of \in Names(copies)
  BY DEF Names
<1>2. PICK d \in copies : d.of = c.of /\ VersionIn(copies, c.of, v) = d.version
  BY <1>1, VersionInIs
<1> QED BY <1>2 DEF Single

LEMMA ReachPrepare ==
    ASSUME RInv, NEW w \in Worlds, Prepare(w)
    PROVE  RInv'
<1>1. /\ w \in drawing /\ due = {} /\ drawing' = drawing \ {w}
      /\ extracted' = [extracted EXCEPT ![w] = NothingExtracted]
      /\ UNCHANGED <<version, queued, messages, newer, worlds, cursor, due, skipped>>
  BY DEF Prepare, mainWorld
<1> DEFINE fresh == extracted[w].copies
           removed == extracted[w].removed
           wanted == StillWanted(w)
<1>2. PICK late \in SUBSET (wanted \cup fresh) :
        /\ waiting' = [waiting EXCEPT ![w] = late]
        /\ prepared' = [prepared EXCEPT ![w] = [a \in Assets |->
            IF a \in Names(fresh) THEN VersionIn(fresh \ late, a, 0)
            ELSE IF a \in removed THEN 0
            ELSE VersionIn(wanted \ late, a, @[a])]]
  BY DEF Prepare
<1>3. VersionsOrdered'
  BY <1>1, <1>2, PrepareOrdered DEF RInv
<1>4. /\ InOrder(w) /\ waiting[w] \in SUBSET Copies /\ fresh \in SUBSET Copies
      /\ DOMAIN waiting = Worlds /\ DOMAIN prepared = Worlds
      /\ wanted = {c \in waiting[w] : c.of \notin removed \cup Names(fresh)}
  BY DEF RInv, VersionsOrdered, VersionsTyped, StillWanted
<1>5. /\ waiting'[w] = late
      /\ \A a \in Assets : prepared'[w][a] =
            IF a \in Names(fresh) THEN VersionIn(fresh \ late, a, 0)
            ELSE IF a \in removed THEN 0
            ELSE VersionIn(wanted \ late, a, prepared[w][a])
      /\ \A v \in Worlds \ {w} : waiting'[v] = waiting[v] /\ prepared'[v] = prepared[v]
  BY <1>2, <1>4
<1>6. /\ extracted'[w] = NothingExtracted
      /\ \A v \in Worlds \ {w} : extracted'[v] = extracted[v]
      /\ extracted' \in [Worlds -> [copies : SUBSET Copies, removed : SUBSET Assets]]
  BY <1>1 DEF RInv, Framed, NothingExtracted
<1>7. /\ \A c \in fresh : c.version = version[c.of] /\ c.of \in Assets /\ c.version \in 1 .. MaxVersion
      /\ \A a \in Assets : version[a] # Dropped => a \notin removed
      /\ Single(fresh) /\ Single(waiting[w])
  BY <1>4, CopiesTyped DEF RInv, Framed, Silent, InOrder
<1> HIDE DEF fresh, removed, wanted
<1>8. /\ wanted \in SUBSET Copies /\ fresh \in SUBSET Copies /\ late \in SUBSET Copies
      /\ Single(fresh \ late) /\ Single(wanted \ late)
  BY <1>4, <1>7 DEF Single
<1>9. Posted'
  BY <1>1 DEF RInv, Posted
<1>10. Framed'
  <2>1. worlds' \subseteq Worlds /\ due' \subseteq worlds' /\ drawing' \subseteq worlds' /\ due' \cap drawing' = {}
    BY <1>1 DEF RInv, Framed
  <2>2. \A v \in Worlds \ drawing' : extracted'[v] = NothingExtracted
    BY <1>1, <1>6 DEF RInv, Framed
  <2>3. \A v \in Worlds : \A c \in extracted'[v].copies : c.version = version'[c.of]
    BY <1>1, <1>6 DEF RInv, Framed, NothingExtracted
  <2>4. \A v \in Worlds \ worlds' : \A a \in Assets : Gone(v, a)'
    <3>1. w \in worlds
      BY <1>1 DEF RInv, Framed
    <3> QED BY <1>1, <1>5, <3>1 DEF RInv, Framed, Gone
  <2> QED BY <1>6, <2>1, <2>2, <2>3, <2>4 DEF Framed
<1>11. Silent'
  BY <1>1, <1>6 DEF RInv, Silent, NothingExtracted
<1>12. ASSUME NEW a \in Assets, version[a] > 0, a \in Names(fresh) \/ HasCurrent(w, a)
       PROVE  HasCurrent(w, a)'
  <2>0. version[a] # Dropped /\ version[a] \in 1 .. MaxVersion /\ a \notin removed
    BY <1>7, <1>12 DEF Dropped, RInv, VersionsOrdered, VersionsTyped
  <2> SUFFICES \/ prepared'[w][a] = version[a] /\ a \notin Names(late)
               \/ prepared'[w][a] = 0 /\ {c \in late : c.of = a} = {Copy(a, version[a])}
    BY <1>1, <1>5 DEF HasCurrent
  <2>1. CASE a \in Names(fresh)
    <3>1. PICK c \in fresh : c.of = a
      BY <2>1 DEF Names
    <3>2. c = Copy(a, version[a]) /\ c.version = version[a]
      BY <1>7, <1>8, <3>1, CopiesTyped
    <3>3. \A d \in late : d.of = a => d = c
      BY <1>4, <1>7, <2>1, <3>1 DEF Single
    <3>4. prepared'[w][a] = VersionIn(fresh \ late, a, 0)
      BY <1>5, <2>1
    <3>5. CASE c \in late
      <4>1. a \notin Names(fresh \ late)
        BY <1>7, <3>1, <3>5 DEF Names, Single
      <4>2. prepared'[w][a] = 0
        BY <3>4, <4>1 DEF VersionIn
      <4> QED BY <3>1, <3>2, <3>3, <3>5, <4>2
    <3>6. CASE c \notin late
      <4>1. prepared'[w][a] = c.version
        BY <1>8, <3>1, <3>4, <3>6, VersionInOne
      <4>2. a \notin Names(late)
        BY <3>3, <3>6 DEF Names
      <4> QED BY <3>2, <4>1, <4>2
    <3> QED BY <3>5, <3>6
  <2>2. CASE a \notin Names(fresh)
    <3>1. prepared'[w][a] = VersionIn(wanted \ late, a, prepared[w][a]) /\ HasCurrent(w, a)
      BY <1>5, <1>12, <2>0, <2>2
    <3>2. \A d \in late : d.of = a => d \in wanted
      BY <2>2 DEF Names
    <3>3. \A d \in waiting[w] : d.of = a => d \in wanted
      BY <1>4, <2>0, <2>2
    <3>4. CASE prepared[w][a] = version[a] /\ a \notin Names(waiting[w])
      <4>1. \A d \in wanted : d.of # a
        BY <1>4, <3>4 DEF Names
      <4>2. a \notin Names(wanted \ late) /\ a \notin Names(late)
        BY <3>2, <4>1 DEF Names
      <4> QED BY <3>1, <3>4, <4>2 DEF VersionIn
    <3>5. CASE prepared[w][a] = 0 /\ {c \in waiting[w] : c.of = a} = {Copy(a, version[a])}
      <4> DEFINE c == Copy(a, version[a])
      <4>1. c.of = a /\ c.version = version[a]
        BY DEF Copy
      <4> HIDE DEF c
      <4>2. c \in waiting[w] /\ \A d \in waiting[w] : d.of = a => d = c
        BY <3>5 DEF c
      <4>3. c \in wanted /\ \A d \in wanted : d.of = a => d = c
        BY <1>4, <3>3, <4>1, <4>2
      <4>4. CASE c \in late
        <5>1. a \notin Names(wanted \ late)
          BY <4>3, <4>4 DEF Names
        <5>2. prepared'[w][a] = 0
          BY <3>1, <3>5, <5>1 DEF VersionIn
        <5> QED BY <3>2, <4>1, <4>3, <4>4, <5>2 DEF c
      <4>5. CASE c \notin late
        <5>1. prepared'[w][a] = c.version
          BY <1>8, <3>1, <4>1, <4>3, <4>5, VersionInOne
        <5>2. a \notin Names(late)
          BY <3>2, <4>3, <4>5 DEF Names
        <5> QED BY <4>1, <5>1, <5>2
      <4> QED BY <4>4, <4>5
    <3> QED BY <3>1, <3>4, <3>5 DEF HasCurrent
  <2> QED BY <2>1, <2>2
<1>13. ASSUME NEW a \in Assets, version[a] = Dropped, a \in removed \/ Gone(w, a)
       PROVE  Gone(w, a)'
  <2>1. a \notin Names(fresh)
    <3>1. \A c \in fresh : version[c.of] # Dropped
      BY <1>7, RenderAssetsAssumption DEF Dropped
    <3> QED BY <1>13, <3>1 DEF Names
  <2>2. \A c \in wanted : c.of # a
    BY <1>4, <1>13 DEF Gone, Names
  <2>3. a \notin Names(late) /\ a \notin Names(wanted \ late)
    BY <2>1, <2>2 DEF Names
  <2>4. prepared'[w][a] = 0
    BY <1>5, <1>13, <2>1, <2>3 DEF Gone, VersionIn
  <2> QED BY <1>5, <2>3, <2>4 DEF Gone
<1>14. AllInformed'
  <2> SUFFICES ASSUME NEW v \in worlds, NEW b \in Assets, skipped[v] < Starved
               PROVE  Informed(v, b)'
    BY <1>1 DEF AllInformed
  <2>0. v \in Worlds
    BY DEF RInv, Framed
  <2>1. Informed(v, b)
    BY DEF RInv, AllInformed
  <2>2. /\ Que(Changed(b)) => Que(Changed(b))'
        /\ Que(Unused(b)) => Que(Unused(b))'
        /\ Ahead(v, Changed(b)) => Ahead(v, Changed(b))'
        /\ Ahead(v, Unused(b)) => Ahead(v, Unused(b))'
    BY <1>1 DEF Que, Ahead
  <2>3. CASE v = w
    <3>1. version[b] > 0 /\ (b \in Names(extracted[w].copies) \/ HasCurrent(w, b)) => HasCurrent(w, b)'
      BY <1>12 DEF fresh
    <3>2. version[b] = Dropped /\ (b \in extracted[w].removed \/ Gone(w, b)) => Gone(w, b)'
      BY <1>13 DEF removed
    <3>3. version' = version
      BY <1>1
    <3> QED BY <2>1, <2>2, <2>3, <3>1, <3>2, <3>3 DEF Informed
  <2>4. CASE v # w
    <3>1. /\ HasCurrent(v, b) => HasCurrent(v, b)'
          /\ Gone(v, b) => Gone(v, b)'
      BY <1>1, <1>5, <2>0, <2>4 DEF HasCurrent, Gone
    <3>2. extracted'[v] = extracted[v]
      BY <1>6, <2>0, <2>4
    <3> QED BY <1>1, <2>1, <2>2, <3>1, <3>2 DEF Informed
  <2> QED BY <2>3, <2>4
<1> QED BY <1>1, <1>3, <1>9, <1>10, <1>11, <1>14 DEF RInv, Live

LEMMA ReachNext == RInv /\ [Next]_vars => RInv'
<1> SUFFICES ASSUME RInv, [Next]_vars PROVE RInv'
  OBVIOUS
<1>1. ASSUME NEW a \in Assets, ChangeAsset(a) PROVE RInv'
  BY <1>1, ReachChange
<1>2. ASSUME NEW w \in Worlds, Join(w) PROVE RInv'
  BY <1>2, ReachJoin
<1>3. ASSUME NEW w \in Worlds, Extract(w) PROVE RInv'
  BY <1>3, ReachExtract
<1>4. ASSUME NEW w \in Worlds, Prepare(w) PROVE RInv'
  BY <1>4, ReachPrepare
<1>5. ASSUME RunSchedule PROVE RInv'
  BY <1>5, ReachSchedule
<1>6. ASSUME UNCHANGED vars PROVE RInv'
  <2>1. UNCHANGED <<version, queued, messages, newer, worlds, cursor, extracted, waiting, prepared, due, drawing, skipped>>
    BY <1>6 DEF vars, mainWorld, renderWorlds, frame
  <2>2. VersionsOrdered'
    BY <2>1, OrderSame DEF RInv
  <2>3. Posted' /\ Framed' /\ Silent'
    BY <2>1 DEF RInv, Posted, Framed, Silent, Gone
  <2>4. AllInformed'
    BY <2>1 DEF RInv, AllInformed, Informed, Que, Ahead, HasCurrent, Gone
  <2> QED BY <2>1, <2>2, <2>3, <2>4 DEF RInv, Live
<1> QED BY <1>1, <1>2, <1>3, <1>4, <1>5, <1>6 DEF Next

LEMMA ReachInductive == Spec => []RInv
BY ReachInit, ReachNext, PTL DEF Spec

\* A world that is up to date has nothing to hear or to prepare first.
LEMMA NothingPending ==
    ASSUME RInv, NEW w \in Worlds, NEW a \in Assets, UpToDate(w), Announced(a)
    PROVE  /\ ~Que(Changed(a)) /\ ~Que(Unused(a))
           /\ ~Ahead(w, Changed(a)) /\ ~Ahead(w, Unused(a))
           /\ a \notin Names(extracted[w].copies) /\ a \notin extracted[w].removed
<1>1. Changed(a).of = a /\ Unused(a).of = a
  BY DEF Changed, Unused
<1>2. \A i \in 1 .. Len(queued) : queued[i].of # a
  BY DEF Announced, RInv, Posted
<1>3. ~Que(Changed(a)) /\ ~Que(Unused(a))
  BY <1>1, <1>2 DEF Que
<1>4. cursor[w] = Len(messages) + 1 /\ w \notin drawing
  BY DEF UpToDate
<1>5. \A i \in 1 .. Len(messages) : ~(i >= cursor[w])
  BY <1>4 DEF RInv, Posted
<1>6. ~Ahead(w, Changed(a)) /\ ~Ahead(w, Unused(a))
  BY <1>5 DEF Ahead
<1>7. extracted[w].copies = {} /\ extracted[w].removed = {}
  BY <1>4 DEF RInv, Framed, NothingExtracted
<1> QED BY <1>3, <1>6, <1>7 DEF Names

(* Every variable has its type and no cursor is ahead of the messages, for *)
(* any number of worlds, assets and versions.                              *)
THEOREM TypeCorrect == Spec => []TypeOK
<1>1. RInv => TypeOK
  <2> SUFFICES ASSUME RInv PROVE TypeOK
    OBVIOUS
  <2>1. {queued, messages} \subseteq Seq([kind : {"changed", "unused"}, of : Assets])
    BY DEF RInv, Posted, Events
  <2>2. {due, drawing} \subseteq SUBSET worlds /\ worlds \subseteq Worlds
    BY DEF RInv, Framed
  <2> QED BY <2>1, <2>2 DEF TypeOK, RInv, Posted, Framed, VersionsOrdered, VersionsTyped
<1> QED BY <1>1, ReachInductive, PTL

(* A world that was drawn and has not starved of messages has the last     *)
(* contents of every asset, or waits with them to prepare them: one that   *)
(* joined late, skipped frames or put assets off, too.                     *)
THEOREM AssetsArrive == Spec => []AssetsReachWorlds
<1>1. RInv => AssetsReachWorlds
  <2> SUFFICES ASSUME RInv, NEW w \in Worlds, NEW a \in Live, UpToDate(w),
                      skipped[w] < Starved, Announced(a)
               PROVE  HasCurrent(w, a)
    BY DEF AssetsReachWorlds
  <2>1. a \in Assets /\ version[a] > 0 /\ w \in worlds
    BY DEF Live, UpToDate
  <2>2. Informed(w, a)
    BY <2>1 DEF RInv, AllInformed
  <2> QED BY <2>1, <2>2, NothingPending DEF Informed
<1> QED BY <1>1, ReachInductive, PTL

(* Such a world keeps nothing of an asset whose last handle is gone.       *)
THEOREM UnusedAssetsAreFreed == Spec => []UnusedAssetsGo
<1>1. RInv => UnusedAssetsGo
  <2> SUFFICES ASSUME RInv, NEW w \in Worlds, NEW a \in Assets, version[a] = Dropped,
                      UpToDate(w), skipped[w] < Starved, Announced(a)
               PROVE  prepared[w][a] = 0 /\ a \notin Names(waiting[w])
    BY DEF UnusedAssetsGo
  <2>1. Informed(w, a)
    BY DEF RInv, AllInformed, UpToDate
  <2> QED BY <2>1, NothingPending DEF Informed, Gone
<1> QED BY <1>1, ReachInductive, PTL
=============================================================================
