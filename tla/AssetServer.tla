------------------------------ MODULE AssetServer ------------------------------
(***************************************************************************)
(* The asset server the game shares between the long-lived app and the     *)
(* throwaway apps it builds for the render worlds of late joiners          *)
(* (bevy_pbr_game/src/shared_assets.rs over the forked bevy_asset).        *)
(*                                                                         *)
(* For one asset type: ids are reserved from the allocator of the handle   *)
(* provider that is registered with the server, assets are loaded by path, *)
(* kept while there is a handle, and removed when the event its drop sends *)
(* is processed.  For the loaders: the table that every app built on the   *)
(* server registers its loaders with.                                      *)
(***************************************************************************)
EXTENDS Integers, Sequences, FiniteSets, SequencesExt

CONSTANTS
    Paths,          \* assets the server loads
    Loaders,        \* asset loader types of the plugin stack
    Preregistered,  \* those whose plugin reserves a slot before it registers
    MaxIndex,       \* bound on the indices of the asset type
    MaxGeneration,  \* bound on the generations of an index
    MaxJoins,       \* bound on the throwaway apps
    MaxDrops        \* bound on the drop events waiting

Added == "added"
None == "none"
Pending == -1       \* a slot whose loader is yet to be pushed

ASSUME AssetServerAssumption ==
    /\ {Added, None} \cap Paths = {}
    /\ IsFiniteSet(Loaders) /\ Preregistered \subseteq Loaders
    /\ MaxIndex \in Nat /\ MaxGeneration \in Nat /\ MaxJoins \in Nat /\ MaxDrops \in Nat

Indices == 0 .. MaxIndex - 1
AssetIds == [index : Indices, generation : 0 .. MaxGeneration]
Id(i, g) == [index |-> i, generation |-> g]
Owners == Paths \cup {Added}    \* what an asset was made for

VARIABLES
    next_index, recycled,   \* the allocator of the real world's Assets<A>
    storage,    \* its entries: None, or a generation and a value
    provider,   \* the allocator the server mints from: "real" or "dead"
    dead_index, \* next index of the throwaway's allocator
    infos,      \* AssetInfos.infos: an id's path, drops to skip, load state
    path_to_index,
    handles,    \* StrongHandles with a clone somewhere, with their asset's owner
    drops,      \* drop events the real Assets<A> has not read
    loading,    \* load tasks; each owns a clone of its handle
    events,     \* results of load tasks the server has not read
    table,      \* AssetLoaders
    building,   \* a throwaway app: none, its plugins built, or finished
    joins       \* throwaway apps built so far

allocator == <<next_index, recycled, storage>>
server == <<infos, path_to_index>>
tasks == <<loading, events>>
throwaway == <<building, joins>>
vars == <<allocator, provider, dead_index, server, handles, drops, tasks, table, throwaway>>

Handle(id, owner) == [id |-> id, of |-> owner]
Entry(generation, value) == [generation |-> generation, value |-> value]
Vacant == Entry(-1, None)
Info(path, state) == [path |-> path, skip |-> 0, state |-> state]
NoInfo == [path |-> None, skip |-> 0, state |-> None]
NoId == Id(-1, 0)
Tracked(id) == infos[id].path # None

-----------------------------------------------------------------------------
(* Faulty variants of definitions below, each a bug the code could have.   *)
(* No specification uses them; they show which property would notice.      *)

\* Upstream: the server keeps the throwaway's provider.
NothingRestored == "dead"

\* Upstream: reserving a loader type again appends a slot and shadows the old.
ReserveAgain(t, l) ==
    [slots |-> Append(t.slots, [of |-> l, build |-> Pending]),
     at |-> [t.at EXCEPT ![l] = Len(t.slots) + 1],
     reserved |-> t.reserved \cup {l}]

\* The path of an asset that goes stays in the table of paths.
ForgetsInfoOnly(s, id) ==
    [s EXCEPT !.infos[id] = NoInfo, !.storage[id.index] = Vacant, !.recycled = Append(@, id)]

\* Every further handle counts as if the earlier ones were gone.
SkipsAlways(info, alive) == [info EXCEPT !.skip = @ + 1]

-----------------------------------------------------------------------------
(* Ids (AssetIndexAllocator::reserve) and the storage they index.  What    *)
(* DenseAssetStorage::flush does later, before anything looks, is done at  *)
(* once here.                                                              *)

NextId == IF recycled = <<>> THEN Id(next_index, 0)
          ELSE Id(Head(recycled).index, Head(recycled).generation + 1)

\* An id for the real world, with a value already or not.
ReserveReal(id, value) ==
    /\ id = NextId /\ id \in AssetIds
    /\ next_index' = IF recycled = <<>> THEN next_index + 1 ELSE next_index
    /\ recycled' = IF recycled = <<>> THEN <<>> ELSE Tail(recycled)
    /\ storage' = [storage EXCEPT ![id.index] = Entry(id.generation, value)]

\* An id from the provider the server holds.
ReserveHandle(id) ==
    \/ provider = "real" /\ ReserveReal(id, None) /\ UNCHANGED dead_index
    \/ /\ provider = "dead"
       /\ id = Id(dead_index, 0) /\ id \in AssetIds
       /\ dead_index' = dead_index + 1
       /\ UNCHANGED allocator

-----------------------------------------------------------------------------
(* The table of loaders.                                                   *)

NoLoaders == [slots |-> <<>>, at |-> [l \in Loaders |-> 0], reserved |-> {}]

\* AssetLoaders::push, by the build-th app.
Push(t, l, build) ==
    IF t.at[l] > 0
    THEN [t EXCEPT !.slots[t.at[l]].build = build, !.reserved = @ \ {l}]
    ELSE [t EXCEPT !.slots = Append(@, [of |-> l, build |-> build]),
                   !.at[l] = Len(t.slots) + 1]

\* AssetLoaders::reserve.
Reserve(t, l) ==
    IF t.at[l] > 0 THEN t
    ELSE [slots |-> Append(t.slots, [of |-> l, build |-> Pending]),
          at |-> [t.at EXCEPT ![l] = Len(t.slots) + 1],
          reserved |-> t.reserved \cup {l}]

PushEach(t, S, build) == FoldLeft(LAMBDA u, l : Push(u, l, build), t, SetToSeq(S))
ReserveEach(t, S) == FoldLeft(Reserve, t, SetToSeq(S))

BuildPlugins(t, build) ==
    ReserveEach(PushEach(t, Loaders \ Preregistered, build), Preregistered)

FinishPlugins(t, build) == PushEach(t, Preregistered, build)

-----------------------------------------------------------------------------
Init ==
    /\ next_index = 0 /\ recycled = <<>> /\ storage = [i \in Indices |-> Vacant]
    /\ provider = "real" /\ dead_index = 0
    /\ infos = [id \in AssetIds |-> NoInfo]
    /\ path_to_index = [p \in Paths |-> NoId]
    /\ handles = {} /\ drops = <<>>
    /\ loading = {} /\ events = <<>>
    /\ table = FinishPlugins(BuildPlugins(NoLoaders, 0), 0)
    /\ building = "none" /\ joins = 0

\* Assets::add.
Add ==
    /\ building = "none"
    /\ \E id \in AssetIds :
        /\ ReserveReal(id, Added)
        /\ handles' = handles \cup {Handle(id, Added)}
    /\ UNCHANGED <<provider, dead_index, server, drops, tasks, table, throwaway>>

\* Without a handle, the drop of the last one is still to be read and must not count.
HandOut(info, alive) == IF alive THEN info ELSE [info EXCEPT !.skip = @ + 1]

\* get_or_create_path_handle: the asset is loaded again only if that failed.
LoadKnown(p) ==
    LET id == path_to_index[p]
        again == infos[id].state = "failed"
        info == [infos[id] EXCEPT !.state = IF again THEN "loading" ELSE @]
    IN /\ id # NoId
       /\ infos' = [infos EXCEPT ![id] = HandOut(info, Handle(id, p) \in handles)]
       /\ handles' = handles \cup {Handle(id, p)}
       /\ loading' = IF again THEN loading \cup {Handle(id, p)} ELSE loading
       /\ UNCHANGED <<allocator, dead_index, path_to_index>>

LoadFresh(p) ==
    /\ path_to_index[p] = NoId
    /\ \E id \in AssetIds :
        /\ ReserveHandle(id)
        /\ infos' = [infos EXCEPT ![id] = Info(p, "loading")]
        /\ path_to_index' = [path_to_index EXCEPT ![p] = id]
        /\ handles' = handles \cup {Handle(id, p)}
        /\ loading' = loading \cup {Handle(id, p)}

\* AssetServer::load, by the game or by a harvested world's RenderStartup.  The
\* plugins of a throwaway load shaders that the first render world, which stays, holds.
Load(p) ==
    /\ building # "none" => Handle(path_to_index[p], p) \in handles
    /\ LoadKnown(p) \/ LoadFresh(p)
    /\ UNCHANGED <<provider, drops, events, table, throwaway>>

\* A load task ends: it sends its result and lets go of its handle.
FinishLoad(h) ==
    /\ h \in loading
    /\ loading' = loading \ {h}
    /\ \E state \in {"loaded", "failed"} :
        events' = Append(events, [id |-> h.id, of |-> h.of, state |-> state])
    /\ UNCHANGED <<allocator, provider, dead_index, server, handles, drops, table, throwaway>>

\* A result counts if the asset is still wanted, by its id.
Apply(s, event) ==
    IF s.infos[event.id].path = None THEN s
    ELSE [infos |-> [s.infos EXCEPT ![event.id].state = event.state],
          storage |-> IF event.state = "loaded"
                      THEN [s.storage EXCEPT ![event.id.index].value = event.of]
                      ELSE s.storage]

handle_internal_asset_events ==
    /\ building = "none" /\ events # <<>>
    /\ LET s == FoldLeft(Apply, [infos |-> infos, storage |-> storage], events)
       IN infos' = s.infos /\ storage' = s.storage
    /\ events' = <<>>
    /\ UNCHANGED <<next_index, recycled, provider, dead_index, path_to_index, handles, drops,
                   loading, table, throwaway>>

\* The last clone of a handle is dropped, in any thread.
DropHandle(h) ==
    /\ h \in handles \ loading /\ Len(drops) < MaxDrops
    /\ handles' = handles \ {h}
    /\ drops' = Append(drops, h)
    /\ UNCHANGED <<allocator, provider, dead_index, server, tasks, table, throwaway>>

\* The asset goes, and its index may be used again.
Forget(s, id) ==
    [infos |-> [s.infos EXCEPT ![id] = NoInfo],
     paths |-> [p \in Paths |-> IF p = s.infos[id].path THEN NoId ELSE s.paths[p]],
     storage |-> [s.storage EXCEPT ![id.index] = Vacant],
     recycled |-> Append(s.recycled, id)]

\* process_handle_drop and remove_dropped.
ProcessDrop(s, drop) ==
    IF drop.of = Added THEN Forget(s, drop.id)
    ELSE IF s.infos[drop.id].path = None THEN s
    ELSE IF s.infos[drop.id].skip > 0 THEN [s EXCEPT !.infos[drop.id].skip = @ - 1]
    ELSE Forget(s, drop.id)

track_assets ==
    /\ building = "none" /\ drops # <<>>
    /\ LET s == FoldLeft(ProcessDrop, [infos |-> infos, paths |-> path_to_index,
                                       storage |-> storage, recycled |-> recycled], drops)
       IN /\ infos' = s.infos /\ path_to_index' = s.paths
          /\ storage' = s.storage /\ recycled' = s.recycled
    /\ drops' = <<>>
    /\ UNCHANGED <<next_index, provider, dead_index, handles, tasks, table, throwaway>>

-----------------------------------------------------------------------------
(* A player joins: harvest_render_app.                                     *)

\* Every init_asset registers the provider of a collection of the throwaway.
BuildThrowaway ==
    /\ building = "none" /\ joins < MaxJoins
    /\ building' = "built"
    /\ joins' = joins + 1
    /\ provider' = "dead" /\ dead_index' = 0
    /\ table' = BuildPlugins(table, joins')
    /\ UNCHANGED <<allocator, server, handles, drops, tasks>>

FinishThrowaway ==
    /\ building = "built"
    /\ building' = "finished"
    /\ table' = FinishPlugins(table, joins)
    /\ UNCHANGED <<allocator, provider, dead_index, server, handles, drops, tasks, joins>>

restore_asset_registrations == "real"

\* The throwaway is dropped without its render app, the server repaired.
Harvest ==
    /\ building = "finished"
    /\ building' = "none"
    /\ provider' = restore_asset_registrations
    /\ UNCHANGED <<allocator, dead_index, server, handles, drops, tasks, table, joins>>

-----------------------------------------------------------------------------
Next ==
    \/ Add \/ handle_internal_asset_events \/ track_assets
    \/ \E p \in Paths : Load(p)
    \/ \E h \in handles : FinishLoad(h) \/ DropHandle(h)
    \/ BuildThrowaway \/ FinishThrowaway \/ Harvest

Spec == Init /\ [][Next]_vars

-----------------------------------------------------------------------------
(* Properties.                                                             *)

Slots == [of : Loaders, build : {Pending} \cup 0 .. MaxJoins]
Results == [id : AssetIds, of : Paths, state : {"loaded", "failed"}]

(* Every variable has its type, and where a path has an id there is an     *)
(* info for it, on which get_or_create_path_handle relies.                 *)
TypeOK ==
    /\ next_index \in 0 .. MaxIndex /\ recycled \in Seq(AssetIds)
    /\ storage \in [Indices -> [generation : -1 .. MaxGeneration, value : Owners \cup {None}]]
    /\ provider \in {"real", "dead"} /\ dead_index \in 0 .. MaxIndex
    /\ infos \in [AssetIds -> [path : Paths \cup {None}, skip : Nat,
                               state : {None, "loading", "loaded", "failed"}]]
    /\ path_to_index \in [Paths -> AssetIds \cup {NoId}]
    /\ \A p \in Paths : path_to_index[p] # NoId => infos[path_to_index[p]].path = p
    /\ {handles, loading} \subseteq SUBSET [id : AssetIds, of : Owners]
    /\ drops \in Seq([id : AssetIds, of : Owners]) /\ events \in Seq(Results)
    /\ table \in [slots : Seq(Slots), at : [Loaders -> Nat], reserved : SUBSET Loaders]
    /\ building \in {"none", "built", "finished"} /\ joins \in 0 .. MaxJoins

(* What a handle names is there, and is what the handle was made for: no   *)
(* two assets share an id, none is removed while it has a handle, and no   *)
(* result of a load lands in an asset that came to use the index later.    *)
(* What the server tracks is in the storage, so that process_asset_load's  *)
(* insert cannot fail (loader.rs:334).                                     *)
HandlesNameTheirAsset ==
    /\ \A h \in handles :
        /\ storage[h.id.index].generation = h.id.generation
        /\ storage[h.id.index].value \in {None, h.of}
        /\ \A g \in handles : g.id = h.id => g = h
    /\ \A id \in AssetIds : Tracked(id) => storage[id.index].generation = id.generation

(* An asset nobody has a handle of goes: when all drops are processed only *)
(* assets with a handle have an entry, or an info in the server.           *)
DroppedAssetsGo ==
    drops = <<>> =>
        /\ \A i \in Indices : storage[i] # Vacant =>
               \E h \in handles : h.id = Id(i, storage[i].generation)
        /\ \A id \in AssetIds : Tracked(id) => \E h \in handles : h.id = id

(* However many players joined, each loader type has one slot, and between *)
(* two joins it is filled by the newest app's instance: no load waits for  *)
(* a loader that was registered long ago.                                  *)
OneSlotPerLoader ==
    /\ Len(table.slots) = Cardinality(Loaders)
    /\ \A l \in Loaders : table.slots[table.at[l]].of = l
    /\ building = "none" => \A l \in Loaders : table.slots[table.at[l]].build = joins
=============================================================================
