------------------------------ MODULE GameWorlds ------------------------------
(***************************************************************************)
(* The multi-user game (rust/bevy_pbr_game) over the forked bevy_render:   *)
(* one main world, and for each player a render world with a GPU of its    *)
(* own.  Players join and leave while the game runs; a render world is     *)
(* extracted only when its browser has acknowledged enough frames, so the  *)
(* worlds go at different paces.  What the main world spawns and despawns  *)
(* reaches each of them through a record queue; assets travel otherwise    *)
(* (RenderAssets).                                                         *)
(*                                                                         *)
(* An entity is named by its kind and its player: the camera and avatar    *)
(* attach_view spawns are the player's "view", the counter above the       *)
(* avatar is its "pip".  A render world has at most one entity for each.   *)
(***************************************************************************)
EXTENDS Integers, Sequences, FiniteSets, SequencesExt

CONSTANTS
    Clients,            \* browser tabs
    First,              \* the tab the app is built against
    Attentive,          \* tabs that acknowledge their frames
    Scorers,            \* players that score, and tabs whose GPU reports an
    ErrorProne,         \*     error: everyone, or fewer as a bound
    FramesInFlight,     \* frames without an acknowledgement (the code's is 3)
    TabsCloseEarly      \* a tab may close before its surface is created

Nobody == "nobody"

ASSUME GameWorldsAssumption ==
    /\ First \in Clients /\ Nobody \notin Clients
    /\ {Attentive, Scorers, ErrorProne} \subseteq SUBSET Clients
    /\ FramesInFlight \in Nat \ {0} /\ TabsCloseEarly \in BOOLEAN

Entities == [kind : {"view", "pip"}, of : Clients]
View(c) == [kind |-> "view", of |-> c]
Pip(c) == [kind |-> "pip", of |-> c]
Added(e) == [kind |-> "added", of |-> e]
Removed(e) == [kind |-> "removed", of |-> e]

VARIABLES
    conn,       \* each tab: away, unclaimed, playing (claimed) or closed
    pending,    \* Client.vsync_pending: frames presented and not acknowledged
    at,         \* where the runner is in its loop
    players,    \* the clients with a PlayerView
    worlds,     \* render sub-apps in the app
    queues,     \* PendingSyncEntity.queues, None when no longer open
    index,      \* each render world's SyncQueueIndex
    synced,     \* main entities with SyncToRenderWorld
    rows,       \* RenderEntity: the world a main entity's row points into
    map,        \* MainToRenderEntityMap of each world
    staged,     \* the entities extraction left for the render schedule
    errors,     \* none, caught by the device's handler, or rendering stopped
    surfaces,   \* worlds that have created their window's surface
    ready, todo, \* worlds of this frame; those still to extract or update
    panicked

tabs == <<conn, pending>>
mainWorld == <<synced, rows>>
syncState == <<queues, index, map>>
renderState == <<staged, errors, surfaces>>
frame == <<ready, todo>>
roster == <<players, worlds>>
vars == <<tabs, at, roster, syncState, mainWorld, renderState, frame, panicked>>

Queue(records) == [open |-> TRUE, records |-> records]
NoQueue == [open |-> FALSE, records |-> <<>>]

Init ==
    /\ conn = [c \in Clients |-> IF c = First THEN "playing" ELSE "away"]
    /\ pending = [c \in Clients |-> 0]
    /\ at = "top"
    /\ players = {First}
    /\ worlds = {First}
    /\ queues = <<Queue(<<Added(View(First))>>)>>
    /\ index = [c \in Clients |-> 1]
    /\ synced = {View(First)}
    /\ rows = [e \in Entities |-> Nobody]
    /\ map = [c \in Clients |-> {}]
    /\ staged = [c \in Clients |-> {}]
    /\ errors = [c \in Clients |-> "none"]
    /\ surfaces = {}
    /\ ready = {} /\ todo = {}
    /\ panicked = FALSE

PushTo(open, records) ==
    [i \in DOMAIN open |-> IF open[i].open THEN Queue(open[i].records \o records) ELSE open[i]]

Closed(c) == conn[c] = "closed"

-----------------------------------------------------------------------------
(* Faulty variants of definitions below, each a bug the code could have.   *)
(* No specification uses them; they show which property would notice.      *)

\* A late world starts with an empty queue.
SeedNothing == <<>>

\* The index of a world that goes is taken over by the next.
ForgetsNoQueue(open, gone) == open

\* A frame is for everyone or for nobody.
AllOrNobody == IF \A c \in players : pending[c] < FramesInFlight \/ Closed(c)
               THEN {c \in players : ~Closed(c)} ELSE {}

\* No pacing at all.
Unpaced == {c \in players : ~Closed(c)}

-----------------------------------------------------------------------------
(* The tabs, on the reader threads.                                        *)

Connect(c) ==
    /\ conn[c] = "away"
    /\ conn' = [conn EXCEPT ![c] = "unclaimed"]
    /\ UNCHANGED <<pending, at, roster, syncState, mainWorld, renderState, frame, panicked>>

\* The waits for frames not yet shown are abandoned with the connection.
Close(c) ==
    /\ conn[c] \in {"unclaimed", "playing"}
    /\ TabsCloseEarly \/ c \in surfaces \/ c \notin ready
    /\ conn' = [conn EXCEPT ![c] = "closed"]
    /\ pending' = [pending EXCEPT ![c] = 0]
    /\ UNCHANGED <<at, roster, syncState, mainWorld, renderState, frame, panicked>>

Acknowledge(c) ==
    /\ conn[c] = "playing" /\ pending[c] > 0
    /\ pending' = [pending EXCEPT ![c] = @ - 1]
    /\ UNCHANGED <<conn, at, roster, syncState, mainWorld, renderState, frame, panicked>>

\* The handler DeviceErrorHandler::new registered keeps the first error.
DeviceError(c) ==
    /\ c \in ErrorProne
    /\ conn[c] = "playing" /\ c \in worlds
    /\ errors[c] = "none"
    /\ errors' = [errors EXCEPT ![c] = "caught"]
    /\ UNCHANGED <<tabs, at, roster, syncState, mainWorld, staged,
                   surfaces, frame, panicked>>

-----------------------------------------------------------------------------
(* The runner: joins, departures, one step of the game, one frame for each *)
(* world that is ready.                                                    *)

\* The queue of a world that is registered holds what is there already.
Seed == SetToSeq({Added(e) : e \in synced})

\* Harvest a render app, register it, replay the asset events, attach a view.
Join(c) ==
    /\ at = "top"
    /\ conn[c] = "unclaimed"
    /\ conn' = [conn EXCEPT ![c] = "playing"]
    /\ players' = players \cup {c}
    /\ worlds' = worlds \cup {c}
    /\ queues' = PushTo(Append(queues, Queue(Seed)), <<Added(View(c))>>)
    /\ index' = [index EXCEPT ![c] = Len(queues) + 1]
    /\ synced' = synced \cup {View(c)}
    /\ UNCHANGED <<pending, at, map, rows, staged, errors,
                   surfaces, ready, todo, panicked>>

\* unregister_render_world: the indices of the others stay valid.
Unregister(open, gone) ==
    [i \in DOMAIN open |-> IF \E c \in gone : index[c] = i THEN NoQueue ELSE open[i]]

Departures ==
    /\ at = "top"
    /\ \A c \in Clients : conn[c] # "unclaimed"
    /\ at' = "gate"
    /\ LET gone == {c \in players : Closed(c)}
           unregistered == gone \ {First}
       IN /\ players' = players \ gone
          /\ worlds' = worlds \ unregistered
          /\ synced' = synced \ {View(c) : c \in gone}
          /\ queues' = Unregister(PushTo(queues, SetToSeq({Removed(View(c)) : c \in gone})),
                                  unregistered)
    /\ UNCHANGED <<tabs, index, map, rows, renderState, ready,
                   todo, panicked>>

\* MIN_STEP is not over; the loop starts again, with what is new.
TooEarly ==
    /\ at = "gate"
    /\ \E c \in Clients : conn[c] = "unclaimed" \/ (c \in players /\ Closed(c))
    /\ at' = "top"
    /\ UNCHANGED <<tabs, roster, syncState, mainWorld, renderState, frame, panicked>>

\* The pips over the heads of those who scored; those of leavers go.
UpdateScorePips(scored) ==
    LET born == {Pip(c) : c \in scored} \ synced
        gone == {e \in synced : e.kind = "pip" /\ View(e.of) \notin synced}
    IN /\ synced' = (synced \cup born) \ gone
       /\ queues' = PushTo(queues, SetToSeq({Removed(e) : e \in gone})
                                   \o SetToSeq({Added(e) : e \in born}))

Paced == {c \in players : pending[c] < FramesInFlight /\ ~Closed(c)}

\* One step of the shared simulation, and the worlds that get a frame of it.
RunSchedule ==
    /\ at = "gate"
    /\ \E scored \in SUBSET (players \cap Scorers) : UpdateScorePips(scored)
    /\ ready' = Paced
    /\ todo' = ready'
    /\ at' = IF ready' = {} THEN "top" ELSE "extract"
    /\ UNCHANGED <<tabs, roster, index, map, rows, staged, errors, surfaces,
                   panicked>>

\* A record names an entity of the main world, which may be gone by now.
ApplyRecord(m, record) ==
    IF record.kind = "removed" THEN m \ {record.of}
    ELSE IF record.of \in synced THEN m \cup {record.of} ELSE m

\* update_state, entity_sync_system and the extract schedule, in that order.
Extract(w) ==
    /\ at = "extract" /\ w \in todo
    /\ errors' = [errors EXCEPT ![w] = IF @ = "caught" THEN "stopped" ELSE @]
    /\ LET queue == queues[index[w]]
           mine == FoldLeft(ApplyRecord, map[w], queue.records)
       IN /\ map' = [map EXCEPT ![w] = mine]
          /\ queues' = IF queue.open THEN [queues EXCEPT ![index[w]] = Queue(<<>>)] ELSE queues
          /\ rows' = [e \in Entities |-> IF e \in mine \cap synced THEN w
                                     ELSE IF e \in synced THEN rows[e] ELSE Nobody]
          /\ staged' = [staged EXCEPT ![w] =
                {e \in synced : rows'[e] = w}]
    /\ todo' = IF todo = {w} THEN ready ELSE todo \ {w}
    /\ at' = IF todo = {w} THEN "update" ELSE at
    /\ UNCHANGED <<tabs, roster, index, synced,
                   surfaces, ready, panicked>>

\* The render schedule: create the surface before the first frame, present.
Render(w) ==
    /\ surfaces' = surfaces \cup {w}
    /\ pending' = [pending EXCEPT ![w] = IF Closed(w) THEN @ ELSE @ + 1]

Update(w) ==
    /\ at = "update" /\ w \in todo
    /\ todo' = todo \ {w}
    /\ IF errors[w] = "stopped"
       THEN UNCHANGED <<pending, surfaces, panicked>>
       ELSE IF w \notin surfaces /\ Closed(w)
       THEN panicked' = TRUE /\ UNCHANGED <<pending, surfaces>>
       ELSE Render(w) /\ UNCHANGED panicked
    /\ UNCHANGED <<conn, roster, syncState, mainWorld, staged, errors, at, ready>>

EndFrame ==
    /\ at = "update" /\ todo = {}
    /\ at' = "top"
    /\ ready' = {}
    /\ staged' = [c \in Clients |-> {}]
    /\ UNCHANGED <<tabs, roster, syncState, mainWorld, errors, surfaces, todo, panicked>>

-----------------------------------------------------------------------------
Tab(c) == Connect(c) \/ Close(c) \/ Acknowledge(c) \/ DeviceError(c)

Runner ==
    \/ \E c \in Clients : Join(c)
    \/ Departures \/ RunSchedule \/ EndFrame
    \/ \E w \in Clients : Extract(w) \/ Update(w)

Next ==
    /\ ~panicked
    /\ \/ \E c \in Clients : Tab(c)
       \/ Runner \/ TooEarly

Spec == Init /\ [][Next]_vars

(* The runner goes on, and the attentive tabs acknowledge their frames.    *)
FairSpec ==
    /\ Spec
    /\ WF_vars(~panicked /\ Runner)
    /\ \A c \in Attentive : WF_vars(~panicked /\ Acknowledge(c))

-----------------------------------------------------------------------------
(* Properties.                                                             *)

Records == [kind : {"added", "removed"}, of : Entities]

(* Every variable has its type.  In particular no tab ever has more frames *)
(* to acknowledge than may be in flight.                                   *)
TypeOK ==
    /\ conn \in [Clients -> {"away", "unclaimed", "playing", "closed"}]
    /\ pending \in [Clients -> 0 .. FramesInFlight]
    /\ at \in {"top", "gate", "extract", "update"}
    /\ players \subseteq worlds /\ worlds \subseteq Clients
    /\ queues \in Seq([open : BOOLEAN, records : Seq(Records)])
    /\ index \in [Clients -> DOMAIN queues]
    /\ synced \subseteq Entities /\ rows \in [Entities -> Clients \cup {Nobody}]
    /\ {map, staged} \subseteq [Clients -> SUBSET Entities]
    /\ errors \in [Clients -> {"none", "caught", "stopped"}]
    /\ {surfaces, ready, todo} \subseteq SUBSET Clients

(* A world that was rendered shows every entity of the scene and no other, *)
(* however many frames it skipped, whoever joined or left meanwhile, and   *)
(* though the rows of the main world pointed into another world before.    *)
WorldsMirrorScene ==
    at = "update" => \A w \in ready : map[w] = synced /\ staged[w] = synced

(* Each world in the app has a queue of its own that is still filled, and  *)
(* nothing is recorded for a world that went.                              *)
QueuesBelongToWorlds ==
    \A i \in DOMAIN queues :
        queues[i].open = (Cardinality({w \in worlds : index[w] = i}) = 1)

Rendered == IF at = "update" THEN {w \in ready \ todo : errors[w] # "stopped"} ELSE {}

(* A tab that goes away does not take the game down for everyone.          *)
TabsDoNotStopTheGame == ~panicked

(* A tab that acknowledges its frames is drawn again and again, whether    *)
(* other tabs acknowledge theirs or not.                                   *)
SlowTabsDelayNobody ==
    \A c \in Attentive :
        []<>(c \in Rendered \/ conn[c] # "playing" \/ errors[c] # "none")
=============================================================================
