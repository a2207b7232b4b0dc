----------------------------- MODULE RenderAssets -----------------------------
(***************************************************************************)
(* How an asset of the main world gets to several render worlds.  A change *)
(* is announced by a message that is kept for two message updates; every   *)
(* render world reads the messages with a cursor of its own, whenever it   *)
(* is extracted, copies what changed and prepares the copies for its GPU,  *)
(* at once or in a later frame when the budget of this one is spent.  A    *)
(* world that joins late is helped by a replay of messages for everything  *)
(* there is (bevy_pbr_game/src/main.rs, bevy_render/src/render_asset.rs).  *)
(***************************************************************************)
EXTENDS Integers, Sequences, FiniteSets, SequencesExt

CONSTANTS
    Worlds,         \* render worlds, of players there from the start or not
    First,          \* the render world of the first player
    Assets,
    MaxVersion      \* bound on the number of contents an asset has in turn

Dropped == -1

ASSUME RenderAssetsAssumption == First \in Worlds /\ MaxVersion \in Nat \ {0}

VARIABLES
    version,    \* contents of each asset in Assets<A>: 0 before it is added
    queued,     \* Assets.queued_events
    messages,   \* Messages<AssetEvent>, oldest first ...
    newer,      \* ... and where the newer of its two buffers begins
    worlds,     \* the render worlds in the app
    cursor,     \* each one's asset-event cursor: the next message to read
    extracted,  \* ExtractedAssets of each world
    waiting,    \* PrepareNextFrameAssets of each world
    prepared,   \* RenderAssets: the version each world has of each asset
    due,        \* worlds that are extracted in this frame, and not yet ...
    drawing,    \* ... and worlds extracted and not yet rendered
    skipped     \* history: message updates since a world's last extraction,
                \* Starved once there were two

mainWorld == <<version, queued, messages, newer>>
renderWorlds == <<cursor, extracted, waiting, prepared>>
frame == <<due, drawing>>
vars == <<mainWorld, worlds, renderWorlds, frame, skipped>>

Starved == 2
Changed(a) == [kind |-> "changed", of |-> a]
Unused(a) == [kind |-> "unused", of |-> a]
Copy(a, v) == [of |-> a, version |-> v]
Copies == [of : Assets, version : 1 .. MaxVersion]
Names(copies) == {c.of : c \in copies}
Live == {a \in Assets : version[a] > 0}
NothingExtracted == [copies |-> {}, removed |-> {}]

Init ==
    /\ version = [a \in Assets |-> 0]
    /\ queued = <<>> /\ messages = <<>> /\ newer = 1
    /\ worlds = {First}
    /\ cursor = [w \in Worlds |-> 1]
    /\ extracted = [w \in Worlds |-> NothingExtracted]
    /\ waiting = [w \in Worlds |-> {}]
    /\ prepared = [w \in Worlds |-> [a \in Assets |-> 0]]
    /\ due = {} /\ drawing = {}
    /\ skipped = [w \in Worlds |-> 0]

-----------------------------------------------------------------------------
(* Faulty variants of definitions below, each a bug the code could have.   *)
(* No specification uses them; they show which property would notice.      *)

\* The worlds share one cursor, as upstream.
SharesCursor(w) == [v \in Worlds |-> Len(messages) + 1]

\* A cursor that is not moved with what the update drops.
KeepsCursors == cursor

\* What waits is prepared whatever was extracted meanwhile.
PreparesAll(w) == waiting[w]

\* An asset whose last handle is dropped is read as one removed.
IgnoresUnused(news, event) ==
    IF event.kind = "changed" THEN [news EXCEPT !.needed = @ \cup {event.of}] ELSE news

-----------------------------------------------------------------------------
(* The main world.                                                         *)

\* An asset is added when its loader is done, modified, and removed with its
\* last handle (Assets::track_assets); its id is not used again.
ChangeAsset(a) ==
    /\ due = {} /\ drawing = {}
    /\ \/ /\ version[a] \in 0 .. MaxVersion - 1
          /\ version' = [version EXCEPT ![a] = @ + 1]
          /\ queued' = Append(queued, Changed(a))
       \/ /\ a \in Live
          /\ version' = [version EXCEPT ![a] = Dropped]
          /\ queued' = Append(queued, Unused(a))
    /\ UNCHANGED <<messages, newer, worlds, renderWorlds, frame, skipped>>

\* replay_asset_events: past the queued events, straight to the messages.
Replay == SetToSeq({Changed(a) : a \in Live})

\* A new world has a cursor at the oldest message there is.
Join(w) ==
    /\ due = {} /\ drawing = {}
    /\ w \notin worlds
    /\ worlds' = worlds \cup {w}
    /\ messages' = messages \o Replay
    /\ UNCHANGED <<version, queued, newer, renderWorlds, frame, skipped>>

\* Positions are relative to the oldest message, which message_update_system
\* changes: the older buffer goes, read or not.
MoveCursors == [w \in Worlds |-> IF cursor[w] < newer THEN 1 ELSE cursor[w] - newer + 1]

MessageUpdate ==
    /\ messages' = SubSeq(messages, newer, Len(messages)) \o queued
    /\ newer' = Len(messages) - newer + 2
    /\ cursor' = MoveCursors
    /\ skipped' = [w \in Worlds |-> IF w \in worlds /\ skipped[w] < Starved
                                    THEN skipped[w] + 1 ELSE skipped[w]]

\* One default schedule, with a message update or (no fixed step was due)
\* without; asset_events announces what was queued.  The runner then decides
\* which worlds get a frame.
RunSchedule ==
    /\ due = {} /\ drawing = {}
    /\ \/ MessageUpdate
       \/ messages' = messages \o queued /\ UNCHANGED <<newer, cursor, skipped>>
    /\ queued' = <<>>
    /\ due' \in SUBSET worlds
    /\ UNCHANGED <<version, worlds, extracted, waiting, prepared, drawing>>

-----------------------------------------------------------------------------
(* A render world.                                                         *)

ReadEvent(news, event) ==
    IF event.kind = "changed" THEN [news EXCEPT !.needed = @ \cup {event.of}]
    ELSE [needed |-> news.needed \ {event.of}, removed |-> news.removed \cup {event.of}]

Unread(w) == SubSeq(messages, cursor[w], Len(messages))
Read(w) == [cursor EXCEPT ![w] = Len(messages) + 1]

Extract(w) ==
    /\ w \in due
    /\ LET news == FoldLeft(ReadEvent, [needed |-> {}, removed |-> {}], Unread(w))
       IN extracted' = [extracted EXCEPT ![w] =
                [copies |-> {Copy(a, version[a]) : a \in news.needed \cap Live},
                 removed |-> news.removed]]
    /\ cursor' = Read(w)
    /\ skipped' = [skipped EXCEPT ![w] = IF @ = Starved THEN @ ELSE 0]
    /\ due' = due \ {w}
    /\ drawing' = drawing \cup {w}
    /\ UNCHANGED <<mainWorld, worlds, waiting, prepared>>

\* Assets that waited, without the ones removed or extracted again.
StillWanted(w) ==
    {c \in waiting[w] : c.of \notin extracted[w].removed \cup Names(extracted[w].copies)}

\* The version of a that is among the copies, v if there is none.
VersionIn(copies, a, v) ==
    IF a \in Names(copies) THEN (CHOOSE c \in copies : c.of = a).version ELSE v

\* prepare_assets: first what waited, then the removals, then what was extracted.
\* late are the copies beyond the byte budget or that ask for another try.
Prepare(w) ==
    /\ w \in drawing /\ due = {}
    /\ \E late \in SUBSET (StillWanted(w) \cup extracted[w].copies) :
        /\ waiting' = [waiting EXCEPT ![w] = late]
        /\ prepared' = [prepared EXCEPT ![w] = [a \in Assets |->
            IF a \in Names(extracted[w].copies) THEN VersionIn(extracted[w].copies \ late, a, 0)
            ELSE IF a \in extracted[w].removed THEN 0
            ELSE VersionIn(StillWanted(w) \ late, a, @[a])]]
    /\ extracted' = [extracted EXCEPT ![w] = NothingExtracted]
    /\ drawing' = drawing \ {w}
    /\ UNCHANGED <<mainWorld, worlds, cursor, due, skipped>>

-----------------------------------------------------------------------------
Next ==
    \/ \E a \in Assets : ChangeAsset(a)
    \/ \E w \in Worlds : Join(w) \/ Extract(w) \/ Prepare(w)
    \/ RunSchedule

Spec == Init /\ [][Next]_vars

-----------------------------------------------------------------------------
(* Properties.                                                             *)

(* Every variable has its type; no cursor is ahead of the messages.        *)
TypeOK ==
    /\ version \in [Assets -> Dropped .. MaxVersion]
    /\ {queued, messages} \subseteq Seq([kind : {"changed", "unused"}, of : Assets])
    /\ newer \in 1 .. Len(messages) + 1
    /\ cursor \in [Worlds -> 1 .. Len(messages) + 1]
    /\ extracted \in [Worlds -> [copies : SUBSET Copies, removed : SUBSET Assets]]
    /\ waiting \in [Worlds -> SUBSET Copies]
    /\ prepared \in [Worlds -> [Assets -> 0 .. MaxVersion]]
    /\ {due, drawing} \subseteq SUBSET worlds /\ worlds \subseteq Worlds
    /\ skipped \in [Worlds -> 0 .. Starved]

\* w has been extracted in this frame and rendered, or no frame goes on.
UpToDate(w) == w \in worlds /\ cursor[w] = Len(messages) + 1 /\ w \notin drawing
Announced(a) == \A i \in DOMAIN queued : queued[i].of # a

\* w has the last version of a, or waits with that one to prepare it.
HasCurrent(w, a) ==
    \/ prepared[w][a] = version[a] /\ a \notin Names(waiting[w])
    \/ prepared[w][a] = 0 /\ {c \in waiting[w] : c.of = a} = {Copy(a, version[a])}

(* A world that was drawn and has not starved has, or is about to prepare, *)
(* the last contents of every asset, if it joined late, skipped a frame or *)
(* had to put assets off as well.                                          *)
AssetsReachWorlds ==
    \A w \in Worlds, a \in Live :
        UpToDate(w) /\ skipped[w] < Starved /\ Announced(a) => HasCurrent(w, a)

(* Such a world keeps nothing of an asset whose last handle is gone, and   *)
(* has nothing of it left to prepare.                                      *)
UnusedAssetsGo ==
    \A w \in Worlds, a \in Assets :
        version[a] = Dropped /\ UpToDate(w) /\ skipped[w] < Starved /\ Announced(a)
            => prepared[w][a] = 0 /\ a \notin Names(waiting[w])

(* No world goes back to an older version of an asset, starved or not.     *)
NeverOlder ==
    [][\A w \in Worlds, a \in Assets :
            prepared'[w][a] \in {0} \cup prepared[w][a] .. MaxVersion]_vars
=============================================================================
