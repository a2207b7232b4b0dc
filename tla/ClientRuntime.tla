---------------------------- MODULE ClientRuntime ----------------------------
(***************************************************************************)
(* The life of a connected client in the Rust runtime                      *)
(* (rust/remote-wgpu-runtime/src/lib.rs): the accept thread and its        *)
(* connection limit, one reader thread per connection, the registry and    *)
(* the queue of unclaimed clients, the bounded event queue, the count of   *)
(* presented frames the winit loop paces itself on, and who owns a client  *)
(* until Client::drop frees it.                                            *)
(*                                                                         *)
(* Every call into the C library is made under one lock.  What happens     *)
(* under it in one go is one step; a present, which touches the atomic     *)
(* counter between two calls, is three.  A client is owned by its reader   *)
(* thread, the unclaimed queue, the application's handles and one          *)
(* reference leaked into every vsync callback that is pending.             *)
(*                                                                         *)
(* Each present is followed by one wait for it, so on the C side (see      *)
(* RemoteAdapter) the waits of a client are as many as its unacknowledged  *)
(* presents and each PresentDone calls one: waits counts them.             *)
(***************************************************************************)
EXTENDS Integers, Sequences, FiniteSets

CONSTANTS
    Ids,                \* client ids, in the order connections are accepted
    Apps,               \* application threads
    NoOne,              \* no thread, no client
    MAX_CONNECTIONS,
    MAX_PENDING_EVENTS,
    MaxEvents,          \* bound on the events a client sends
    MaxPresents,        \* bound on the frames presented to a client
    MaxHandles          \* bound on the handles the application holds on a client

ASSUME ClientRuntimeAssumption ==
    /\ Ids \subseteq Nat /\ IsFiniteSet(Ids) /\ IsFiniteSet(Apps)
    /\ NoOne \notin Ids \cup Apps
    /\ MAX_CONNECTIONS \in Nat \ {0}
    /\ MAX_PENDING_EVENTS \in Nat \ {0}
    /\ MaxEvents \in Nat
    /\ MaxPresents \in Nat
    /\ MaxHandles \in Nat \ {0}

VARIABLES
    live,           \* connections counted by the accept thread
    admitting,      \* the accept thread has passed the limit check
    reader,         \* where the reader thread of a connection is
    lock,           \* the application thread inside a present, or NoOne
    app,            \* what an application thread is doing, and to whom
    clients,        \* the registry: weak references
    unclaimed,      \* strong references
    handles,        \* strong references the application holds
    events,         \* Client.events
    disconnected,   \* Client.disconnected
    vsync_pending,  \* Client.vsync_pending
    connected,      \* the C adapter may call send_cb and event_cb
    waits,          \* vsync callbacks pending in the C adapter
    freed,          \* Client::drop has run to the end
    sent,           \* history: events the client has sent
    presents,       \* history: frames presented
    delivered       \* history: "Disconnected" events the application has read

accepting == <<live, admitting>>
listing == <<clients, unclaimed>>
native == <<connected, waits>>
history == <<sent, presents, delivered>>
vars == <<accepting, reader, lock, app, listing, handles, events, disconnected,
          vsync_pending, native, freed, history>>

-----------------------------------------------------------------------------
(* Reader threads.  "accepted" is before the Client exists; "greeting" and *)
(* "pumping" are the two read loops of pump_client; "listing" and          *)
(* "queueing" publish the client; "ended" to "reporting" are the steps of  *)
(* mark_disconnected; "leaving" is the end of connect_client.              *)
ReaderPlaces == {"absent", "accepted", "greeting", "listing", "queueing", "pumping",
                 "ended", "severing", "unlisting", "unqueueing", "reporting",
                 "leaving", "dropping", "returned", "gone"}
Owning == {"greeting", "listing", "queueing", "pumping", "ended", "severing",
           "unlisting", "unqueueing", "reporting", "leaving"}

AppPlaces == {"free", "presenting", "requested", "registering", "dropping"}
Free == [pc |-> "free", id |-> NoOne]
Doing(pc, id) == [pc |-> pc, id |-> id]

Occurrences(seq, x) == Cardinality({i \in DOMAIN seq : seq[i] = x})

\* No list of clients names one twice.
Without(seq, x) ==
    IF \E i \in DOMAIN seq : seq[i] = x
    THEN LET at == CHOOSE i \in DOMAIN seq : seq[i] = x
         IN  SubSeq(seq, 1, at - 1) \o SubSeq(seq, at + 1, Len(seq))
    ELSE seq

With(f, id, value) == [f EXCEPT ![id] = value]

Moves(id, from, to) ==
    /\ reader[id] = from
    /\ reader' = With(reader, id, to)

\* The strong count of a client.
Strong(id) ==
    (IF reader[id] \in Owning THEN 1 ELSE 0)
    + Occurrences(unclaimed, id) + handles[id] + waits[id]

Init ==
    /\ live = 0
    /\ admitting = FALSE
    /\ reader = [id \in Ids |-> "absent"]
    /\ lock = NoOne
    /\ app = [a \in Apps |-> Free]
    /\ clients = <<>>
    /\ unclaimed = <<>>
    /\ handles = [id \in Ids |-> 0]
    /\ events = [id \in Ids |-> <<>>]
    /\ disconnected = [id \in Ids |-> FALSE]
    /\ vsync_pending = [id \in Ids |-> 0]
    /\ connected = [id \in Ids |-> FALSE]
    /\ waits = [id \in Ids |-> 0]
    /\ freed = [id \in Ids |-> FALSE]
    /\ sent = [id \in Ids |-> 0]
    /\ presents = [id \in Ids |-> 0]
    /\ delivered = [id \in Ids |-> 0]

-----------------------------------------------------------------------------
(* Faulty variants of definitions below, each a bug the code could have.   *)
(* No specification uses them; they show which property would notice.      *)

\* Connections are counted but not limited.
AdmitAny ==
    /\ ~admitting
    /\ admitting' = TRUE
    /\ UNCHANGED <<live, reader, lock, app, listing, handles, events, disconnected,
                   vsync_pending, native, freed, history>>

\* An early return skips the counting down.
NoClientUncounted(id) ==
    /\ Moves(id, "accepted", "gone")
    /\ UNCHANGED <<accepting, lock, app, listing, handles, events, disconnected,
                   vsync_pending, native, freed, history>>

\* A hang-up in the handshake skips mark_disconnected.
HangUpUnmarked(id) ==
    /\ reader[id] \in {"greeting", "pumping"}
    /\ reader' = With(reader, id, IF reader[id] = "greeting" THEN "leaving" ELSE "ended")
    /\ UNCHANGED <<accepting, lock, app, listing, handles, events, disconnected,
                   vsync_pending, native, freed, history>>

\* Disconnect frees the pending vsync waits without calling them.
SeverUncalled(id) ==
    /\ Moves(id, "severing", "unlisting")
    /\ lock = NoOne
    /\ connected' = With(connected, id, FALSE)
    /\ waits' = With(waits, id, 0)
    /\ UNCHANGED <<accepting, lock, app, listing, handles, events, disconnected,
                   vsync_pending, freed, history>>

\* The last event is dropped like any other when the queue is full.
ReportIfRoom(id) ==
    /\ Moves(id, "reporting", "leaving")
    /\ events' = IF Len(events[id]) >= MAX_PENDING_EVENTS THEN events
                 ELSE With(events, id, Append(events[id], "Disconnected"))
    /\ UNCHANGED <<accepting, lock, app, listing, handles, disconnected, vsync_pending,
                   native, freed, history>>

\* A wait on a severed adapter is queued like any other.
OnNextVsyncQueues(a) ==
    /\ app[a].pc = "requested"
    /\ app' = With(app, a, Free)
    /\ lock' = NoOne
    /\ waits' = With(waits, app[a].id, waits[app[a].id] + 1)
    /\ UNCHANGED <<accepting, reader, listing, handles, events, disconnected,
                   vsync_pending, connected, freed, history>>

-----------------------------------------------------------------------------
(* The accept thread.                                                      *)

NextId(id) == reader[id] = "absent" /\ \A other \in Ids : other < id => reader[other] # "absent"

\* A connection beyond the limit is refused, which changes nothing.
Admit ==
    /\ ~admitting
    /\ live < MAX_CONNECTIONS
    /\ admitting' = TRUE
    /\ UNCHANGED <<live, reader, lock, app, listing, handles, events, disconnected,
                   vsync_pending, native, freed, history>>

SpawnReader(id) ==
    /\ admitting
    /\ NextId(id)
    /\ admitting' = FALSE
    /\ live' = live + 1
    /\ reader' = With(reader, id, "accepted")
    /\ UNCHANGED <<lock, app, listing, handles, events, disconnected, vsync_pending,
                   native, freed, history>>

-----------------------------------------------------------------------------
(* Reader threads.                                                         *)

\* A plain HTTP request, or a connection that fails before it is a websocket.
NoClient(id) ==
    /\ Moves(id, "accepted", "returned")
    /\ UNCHANGED <<accepting, lock, app, listing, handles, events, disconnected,
                   vsync_pending, native, freed, history>>

CreateClient(id) ==
    /\ Moves(id, "accepted", "greeting")
    /\ lock = NoOne
    /\ connected' = With(connected, id, TRUE)
    /\ UNCHANGED <<accepting, lock, app, listing, handles, events, disconnected,
                   vsync_pending, waits, freed, history>>

HandshakeDone(id) ==
    /\ Moves(id, "greeting", "listing")
    /\ lock = NoOne
    /\ UNCHANGED <<accepting, lock, app, listing, handles, events, disconnected,
                   vsync_pending, native, freed, history>>

List(id) ==
    /\ Moves(id, "listing", "queueing")
    /\ clients' = Append(clients, id)
    /\ UNCHANGED <<accepting, lock, app, unclaimed, handles, events, disconnected,
                   vsync_pending, native, freed, history>>

Queue(id) ==
    /\ Moves(id, "queueing", "pumping")
    /\ unclaimed' = Append(unclaimed, id)
    /\ UNCHANGED <<accepting, lock, app, clients, handles, events, disconnected,
                   vsync_pending, native, freed, history>>

\* event_cb: while the queue is full its oldest event goes.
ReceiveEvent(id) ==
    /\ reader[id] \in {"greeting", "pumping"}
    /\ lock = NoOne
    /\ sent[id] < MaxEvents
    /\ sent' = With(sent, id, sent[id] + 1)
    /\ LET full == Len(events[id]) >= MAX_PENDING_EVENTS
           kept == IF full THEN Tail(events[id]) ELSE events[id]
       IN  events' = With(events, id, Append(kept, "input"))
    /\ UNCHANGED <<accepting, reader, lock, app, listing, handles, disconnected,
                   vsync_pending, native, freed, presents, delivered>>

\* vsync_cb: the frame is counted off and the callback's reference dropped.
ReceivePresentDone(id) ==
    /\ reader[id] = "pumping"
    /\ lock = NoOne
    /\ waits[id] > 0
    /\ waits' = With(waits, id, waits[id] - 1)
    /\ vsync_pending' = With(vsync_pending, id, vsync_pending[id] - 1)
    /\ UNCHANGED <<accepting, reader, lock, app, listing, handles, events, disconnected,
                   connected, freed, history>>

\* The socket closes, or the client breaks the protocol.
HangUp(id) ==
    /\ reader[id] \in {"greeting", "pumping"}
    /\ reader' = With(reader, id, "ended")
    /\ UNCHANGED <<accepting, lock, app, listing, handles, events, disconnected,
                   vsync_pending, native, freed, history>>

FlagDisconnected(id) ==
    /\ Moves(id, "ended", "severing")
    /\ disconnected' = With(disconnected, id, TRUE)
    /\ UNCHANGED <<accepting, lock, app, listing, handles, events, vsync_pending,
                   native, freed, history>>

\* wgpuRemoteAdapterDisconnect: every pending vsync callback is called.
Sever(id) ==
    /\ Moves(id, "severing", "unlisting")
    /\ lock = NoOne
    /\ connected' = With(connected, id, FALSE)
    /\ waits' = With(waits, id, 0)
    /\ vsync_pending' = With(vsync_pending, id, vsync_pending[id] - waits[id])
    /\ UNCHANGED <<accepting, lock, app, listing, handles, events, disconnected, freed,
                   history>>

Unlist(id) ==
    /\ Moves(id, "unlisting", "unqueueing")
    /\ clients' = Without(clients, id)
    /\ UNCHANGED <<accepting, lock, app, unclaimed, handles, events, disconnected,
                   vsync_pending, native, freed, history>>

Unqueue(id) ==
    /\ Moves(id, "unqueueing", "reporting")
    /\ unclaimed' = Without(unclaimed, id)
    /\ UNCHANGED <<accepting, lock, app, clients, handles, events, disconnected,
                   vsync_pending, native, freed, history>>

\* The last event is queued whatever the length of the queue.
ReportDisconnected(id) ==
    /\ Moves(id, "reporting", "leaving")
    /\ events' = With(events, id, Append(events[id], "Disconnected"))
    /\ UNCHANGED <<accepting, lock, app, listing, handles, disconnected, vsync_pending,
                   native, freed, history>>

\* The reader drops its reference; the last one runs Client::drop.
ReaderLeaves(id) ==
    /\ Moves(id, "leaving", IF Strong(id) = 1 THEN "dropping" ELSE "returned")
    /\ UNCHANGED <<accepting, lock, app, listing, handles, events, disconnected,
                   vsync_pending, native, freed, history>>

\* Client::drop severs the adapter again, then frees what it sends through.
DropClient(id) ==
    /\ lock = NoOne
    /\ connected' = With(connected, id, FALSE)
    /\ waits' = With(waits, id, 0)
    /\ vsync_pending' = With(vsync_pending, id, vsync_pending[id] - waits[id])
    /\ freed' = With(freed, id, TRUE)
    /\ UNCHANGED <<accepting, lock, listing, handles, events, disconnected, history>>

ReaderDrops(id) ==
    /\ Moves(id, "dropping", "returned")
    /\ DropClient(id)
    /\ UNCHANGED app

ReaderReturns(id) ==
    /\ Moves(id, "returned", "gone")
    /\ live' = live - 1
    /\ UNCHANGED <<admitting, lock, app, listing, handles, events, disconnected,
                   vsync_pending, native, freed, history>>

-----------------------------------------------------------------------------
(* Application threads.                                                    *)

\* try_next_client, and the check next_client repeats until it succeeds.
ClaimClient(a) ==
    /\ app[a] = Free
    /\ unclaimed # <<>>
    /\ unclaimed' = Tail(unclaimed)
    /\ handles' = With(handles, Head(unclaimed), handles[Head(unclaimed)] + 1)
    /\ UNCHANGED <<accepting, reader, lock, app, clients, events, disconnected,
                   vsync_pending, native, freed, history>>

\* Runtime::clients and default_client take a handle on a listed client.
UpgradeListed(a, id) ==
    /\ app[a] = Free
    /\ Occurrences(clients, id) > 0
    /\ Strong(id) > 0
    /\ handles[id] < MaxHandles
    /\ handles' = With(handles, id, handles[id] + 1)
    /\ UNCHANGED <<accepting, reader, lock, app, listing, events, disconnected,
                   vsync_pending, native, freed, history>>

PollEvent(a, id) ==
    /\ app[a] = Free
    /\ handles[id] > 0
    /\ events[id] # <<>>
    /\ events' = With(events, id, Tail(events[id]))
    /\ delivered' = IF Head(events[id]) = "Disconnected"
                    THEN With(delivered, id, delivered[id] + 1)
                    ELSE delivered
    /\ UNCHANGED <<accepting, reader, lock, app, listing, handles, disconnected,
                   vsync_pending, native, freed, sent, presents>>

\* SurfaceTexture::present holds a handle of its own until it returns.
Presenters(id) == {a \in Apps : app[a].id = id}

wgpuSurfacePresent(a, id) ==
    /\ app[a] = Free
    /\ handles[id] > Cardinality(Presenters(id))
    /\ presents[id] < MaxPresents
    /\ lock = NoOne
    /\ lock' = a
    /\ app' = With(app, a, Doing("presenting", id))
    /\ presents' = With(presents, id, presents[id] + 1)
    /\ UNCHANGED <<accepting, reader, listing, handles, events, disconnected,
                   vsync_pending, native, freed, sent, delivered>>

vsync_requested(a) ==
    LET id == app[a].id IN
    /\ app[a].pc = "presenting"
    /\ app' = With(app, a, Doing("requested", id))
    /\ vsync_pending' = With(vsync_pending, id, vsync_pending[id] + 1)
    /\ UNCHANGED <<accepting, reader, lock, listing, handles, events, disconnected,
                   native, freed, history>>

\* On a severed adapter the callback is called from inside the registration.
wgpuRemoteSurfaceOnNextVsync(a) ==
    LET id == app[a].id IN
    /\ app[a].pc = "requested"
    /\ app' = With(app, a, Free)
    /\ lock' = NoOne
    /\ IF connected[id]
       THEN waits' = With(waits, id, waits[id] + 1) /\ UNCHANGED vsync_pending
       ELSE /\ vsync_pending' = With(vsync_pending, id, vsync_pending[id] - 1)
            /\ UNCHANGED waits
    /\ UNCHANGED <<accepting, reader, listing, handles, events, disconnected, connected,
                   freed, history>>

DropHandle(a, id) ==
    /\ app[a] = Free
    /\ handles[id] > Cardinality(Presenters(id))
    /\ handles' = With(handles, id, handles[id] - 1)
    /\ app' = IF Strong(id) = 1 THEN With(app, a, Doing("dropping", id)) ELSE app
    /\ UNCHANGED <<accepting, reader, lock, listing, events, disconnected,
                   vsync_pending, native, freed, history>>

AppDrops(a) ==
    /\ app[a].pc = "dropping"
    /\ DropClient(app[a].id)
    /\ app' = With(app, a, Free)
    /\ UNCHANGED reader

-----------------------------------------------------------------------------
(* What a reader thread does unasked, once its connection has ended.       *)
Teardown(id) ==
    \/ FlagDisconnected(id) \/ Sever(id) \/ Unlist(id) \/ Unqueue(id)
    \/ ReportDisconnected(id) \/ ReaderLeaves(id) \/ ReaderDrops(id) \/ ReaderReturns(id)

Reader(id) ==
    \/ NoClient(id) \/ CreateClient(id) \/ HandshakeDone(id) \/ List(id) \/ Queue(id)
    \/ ReceiveEvent(id) \/ ReceivePresentDone(id) \/ HangUp(id)
    \/ Teardown(id)

App(a) ==
    \/ ClaimClient(a)
    \/ \E id \in Ids : UpgradeListed(a, id) \/ PollEvent(a, id)
                       \/ wgpuSurfacePresent(a, id) \/ DropHandle(a, id)
    \/ vsync_requested(a) \/ wgpuRemoteSurfaceOnNextVsync(a) \/ AppDrops(a)

Next ==
    \/ Admit
    \/ \E id \in Ids : SpawnReader(id) \/ Reader(id)
    \/ \E a \in Apps : App(a)

Spec == Init /\ [][Next]_vars

(* Threads run: a reader finishes its teardown and an application thread   *)
(* what it has begun.  The application lets go of what it holds.  No peer  *)
(* has to connect, speak or hang up.  A thread that waits for the C lock   *)
(* gets it: the frames presented are bounded, so weak fairness suffices.   *)
FairSpec ==
    /\ Spec
    /\ \A id \in Ids : WF_vars(Teardown(id))
    /\ \A a \in Apps :
          /\ WF_vars(vsync_requested(a))
          /\ WF_vars(wgpuRemoteSurfaceOnNextVsync(a))
          /\ WF_vars(AppDrops(a))
    /\ \A id \in Ids : WF_vars(\E a \in Apps : DropHandle(a, id))

-----------------------------------------------------------------------------
(* Properties.                                                             *)

TypeOK ==
    /\ live \in 0 .. MAX_CONNECTIONS
    /\ admitting \in BOOLEAN
    /\ reader \in [Ids -> ReaderPlaces]
    /\ lock \in Apps \cup {NoOne}
    /\ app \in [Apps -> [pc : AppPlaces, id : Ids \cup {NoOne}]]
    /\ clients \in Seq(Ids)
    /\ unclaimed \in Seq(Ids)
    /\ handles \in [Ids -> Nat]
    /\ events \in [Ids -> Seq({"input", "Disconnected"})]
    /\ disconnected \in [Ids -> BOOLEAN]
    /\ vsync_pending \in [Ids -> Nat]
    /\ connected \in [Ids -> BOOLEAN]
    /\ waits \in [Ids -> Nat]
    /\ freed \in [Ids -> BOOLEAN]
    /\ sent \in [Ids -> Nat]
    /\ presents \in [Ids -> Nat]
    /\ delivered \in [Ids -> Nat]

(* The connection counter is the number of connections whose thread runs,  *)
(* on every way a connection can end; counted from it, the limit holds.    *)
LiveExact ==
    live = Cardinality({id \in Ids : reader[id] \notin {"absent", "gone"}})

(* Once nobody owns a client the C library cannot call into it any more    *)
(* (its send and event callbacks are gone), no vsync callback that would   *)
(* hold it is pending, no frame is counted as pending, and the registry    *)
(* does not name it: Client::drop may free it while objects of the         *)
(* application still hold the C adapter.                                   *)
SafeToFree ==
    \A id \in Ids :
        Strong(id) = 0 => /\ ~connected[id]
                          /\ vsync_pending[id] = 0
                          /\ Occurrences(clients, id) = 0

(* The frames counted as pending are those the C library still owes a      *)
(* callback for, plus one a present has counted and not registered yet:    *)
(* the counter cannot underflow, and a client is not paced on frames that  *)
(* nothing will acknowledge.                                               *)
VsyncExact ==
    \A id \in Ids :
        vsync_pending[id] =
            waits[id] + Cardinality({a \in Apps : app[a] = Doing("requested", id)})

(* A client's Disconnected event is queued once, behind every other event, *)
(* and the bound on the queue never discards it.                           *)
DisconnectedKept ==
    \A id \in Ids :
        LET reported == disconnected[id]
                        /\ reader[id] \in {"leaving", "dropping", "returned", "gone"}
        IN  /\ Occurrences(events[id], "Disconnected") + delivered[id]
                  = IF reported THEN 1 ELSE 0
            /\ \A i \in DOMAIN events[id] :
                  events[id][i] = "Disconnected" => i = Len(events[id])
            /\ Len(events[id]) <= MAX_PENDING_EVENTS + 1

(* A client whose connection has ended is freed once the application has   *)
(* let go of it, whatever it was doing with it when the connection ended.  *)
Released == \A id \in Ids : disconnected[id] ~> freed[id]
=============================================================================
