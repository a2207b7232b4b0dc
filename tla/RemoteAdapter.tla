---------------------------- MODULE RemoteAdapter ----------------------------
(***************************************************************************)
(* The asynchronous half of the C library (remote_webgpu.c and             *)
(* remote_methods.c): requests that wait for a reply of the client, vsync  *)
(* waits, the map state and reference count of the objects requests hold,  *)
(* AbandonRequests and Disconnect.                                         *)
(*                                                                         *)
(* The library is single-threaded and runs application callbacks from      *)
(* inside its own calls, so what interleaves is not threads but a call     *)
(* suspended in a callback and the calls that callback makes.  The stack   *)
(* of library calls under way is modelled explicitly: frame[depth] is the  *)
(* innermost one.  The application has control when no call is under way   *)
(* or the innermost one is in a callback.                                  *)
(*                                                                         *)
(* A request and a vsync wait are named by their future id.  request_id    *)
(* grows with it in rw_request_create, so "the newest request" is the one  *)
(* with the largest id; the request list is LIFO and the wait list FIFO,   *)
(* which lets both be sets.  A callback that is a null pointer behaves     *)
(* like one that does nothing (for a loaded texture: like one that         *)
(* releases it), so every entry has a callback here.                       *)
(***************************************************************************)
EXTENDS Integers, FiniteSets

CONSTANTS
    Buffers,      \* the application's buffers
    Textures,     \* textures loaded from a URL
    None,         \* no handle (a null pointer)
    PlainTypes,   \* the commands without a payload in the reply that are used
    MaxFuture,    \* bound on next_future_id
    MaxPresents,  \* bound on the presents the application makes
    MaxDepth,     \* bound on the nesting the application makes calls at
    MaxRefs       \* bound on the references the application holds on a handle

Handles == Buffers \cup Textures

ASSUME RemoteAdapterAssumption ==
    /\ None \notin Handles
    /\ Buffers \cap Textures = {}
    /\ PlainTypes \subseteq {"POP_ERROR", "WORK_DONE", "COMPILATION"}
    /\ MaxFuture \in Nat \ {0}
    /\ MaxPresents \in Nat
    /\ MaxDepth \in Nat \ {0}
    /\ MaxRefs \in Nat \ {0}

VARIABLES
    connected,      \* send # NULL
    next_future_id,
    entry,          \* what was registered under an id, kept after it fired
    requests,       \* ids on adapter->requests
    vsync_waits,    \* ids on adapter->vsync_waits
    presents_sent,
    presents_done,
    map_state,      \* RemoteHandle.map_state of a buffer
    refcount,       \* RemoteHandle.obj.refcount
    created,        \* handles allocated so far
    depth,          \* number of library calls under way
    frame,          \* the library calls under way
    appRefs,        \* history: references the application owns
    calls           \* history: how often the callback of an id has been called

adapter == <<connected, next_future_id, requests, vsync_waits,
             presents_sent, presents_done>>
handles == <<map_state, refcount, created, appRefs>>
stack == <<depth, frame>>
vars == <<adapter, entry, handles, stack, calls>>

-----------------------------------------------------------------------------
Ids == 1 .. MaxFuture

\* An application call at depth MaxDepth - 1 suspends at most two calls, and
\* the release one of them ends with at most one more.
Levels == 1 .. MaxDepth + 2

RequestTypes == PlainTypes \cup {"MAP", "TEXTURE_LOAD"}
EntryTypes == RequestTypes \cup {"VSYNC", "unissued"}

\* seq: the present a wait waits for; since (history): presents_done when it was
\* registered.
Entry == [type : EntryTypes, handle : Handles \cup {None}, seq : Nat, since : Nat]
Unissued == [type |-> "unissued", handle |-> None, seq |-> 0, since |-> 0]
Request(type, h) == [type |-> type, handle |-> h, seq |-> 0, since |-> 0]
VsyncWait(seq, since) == [type |-> "VSYNC", handle |-> None, seq |-> seq, since |-> since]

(* A library call under way.  pc is where it goes on: "requests" and       *)
(* "waits" are the two loops of AbandonRequests (list: what they have      *)
(* detached and not called yet), "vsync" is the loop of PresentDone,       *)
(* "unmap" and "present" are the rest of wgpuBufferUnmap and               *)
(* wgpuSurfacePresent after their send, "end" has nothing left to do.      *)
(* calling: it is in a callback, and when that returns it releases handle  *)
(* (in "unmap", handle is the buffer of the call).                         *)
Places == {"idle", "requests", "waits", "vsync", "unmap", "present", "end"}
Frame == {f \in [pc : Places, calling : BOOLEAN, list : SUBSET Ids,
                 handle : Handles \cup {None}] :
             f.pc \notin {"requests", "waits"} => f.list = {}}
At(pc, list) == [pc |-> pc, calling |-> FALSE, list |-> list, handle |-> None]
Calling(pc, list, h) == [pc |-> pc, calling |-> TRUE, list |-> list, handle |-> h]
Unmapping(b) == [pc |-> "unmap", calling |-> FALSE, list |-> {}, handle |-> b]
Idle == At("idle", {})

Init ==
    /\ connected = TRUE
    /\ next_future_id = 1
    /\ entry = [id \in Ids |-> Unissued]
    /\ requests = {}
    /\ vsync_waits = {}
    /\ presents_sent = 0
    /\ presents_done = 0
    /\ map_state = [b \in Buffers |-> "Unmapped"]
    /\ refcount = [h \in Handles |-> 0]
    /\ created = {}
    /\ depth = 0
    /\ frame = [d \in Levels |-> Idle]
    /\ appRefs = [h \in Handles |-> 0]
    /\ calls = [id \in Ids |-> 0]

-----------------------------------------------------------------------------
(* Parts of a call.                                                        *)

AppInControl == depth \in Levels => frame[depth].calling

\* The call at level d is innermost and it is the library's turn.
Running(d, pc) == d = depth /\ frame[d].pc = pc /\ ~frame[d].calling

Newest(id, S) == id \in S /\ \A other \in S : other <= id
Oldest(id, S) == id \in S /\ \A other \in S : id <= other

Push(f) ==
    /\ depth' = depth + 1
    /\ frame' = [frame EXCEPT ![depth + 1] = f]

Return(d) ==
    /\ depth' = d - 1
    /\ frame' = [frame EXCEPT ![d] = Idle]

Called(id) == [calls EXCEPT ![id] = @ + 1]

\* refcount after one release; releasing None is no release.
Released(h) ==
    IF h = None THEN refcount ELSE [refcount EXCEPT ![h] = @ - 1]

-----------------------------------------------------------------------------
(* Faulty variants of definitions below, each a bug the code could have.   *)
(* No specification uses them; they show which property would notice.      *)

\* A send on a severed adapter fails and leaves what is queued alone.
SendLastForgets(reqs) == requests' = reqs /\ UNCHANGED stack

\* A reply is matched by its id alone.
TakeAnyType(id, type) ==
    /\ id \in requests
    /\ requests' = requests \ {id}
    /\ calls' = Called(id)
    /\ UNCHANGED <<connected, next_future_id, vsync_waits, presents_sent,
                   presents_done, entry>>

\* The loop runs over the live list instead of a detached one.
AbandonLiveList ==
    /\ Push(At("requests", requests))
    /\ UNCHANGED <<adapter, entry, handles, calls>>

\* Disconnect frees the requests without calling them.
DisconnectDrops ==
    /\ connected' = FALSE
    /\ requests' = {}
    /\ Push(At("end", requests))
    /\ UNCHANGED <<next_future_id, vsync_waits, presents_sent, presents_done,
                   entry, handles, calls>>

\* AbandonRequests keeps the reference a request holds.
AbandonRequestLeaks(d) ==
    \E id \in frame[d].list :
        /\ Running(d, "requests")
        /\ Newest(id, frame[d].list)
        /\ calls' = Called(id)
        /\ map_state' = IF entry[id].type = "MAP"
                        THEN [map_state EXCEPT ![entry[id].handle] = "Unmapped"]
                        ELSE map_state
        /\ frame' = [frame EXCEPT ![d] =
                        Calling("requests", frame[d].list \ {id}, None)]
        /\ UNCHANGED <<adapter, entry, refcount, created, appRefs, depth>>

\* AbandonRequests forgets the vsync waits.
DetachNoWaits(d) ==
    /\ Running(d, "requests")
    /\ frame[d].list = {}
    /\ frame' = [frame EXCEPT ![d] = At("waits", {})]
    /\ UNCHANGED <<adapter, entry, handles, depth, calls>>

\* The wait list is kept like the request list, newest first.
FireVsyncLifo(d) ==
    \E id \in vsync_waits :
        /\ Running(d, "vsync")
        /\ Newest(id, vsync_waits)
        /\ entry[id].seq <= presents_done
        /\ vsync_waits' = vsync_waits \ {id}
        /\ calls' = Called(id)
        /\ frame' = [frame EXCEPT ![d] = Calling("vsync", {}, None)]
        /\ UNCHANGED <<connected, next_future_id, requests, presents_sent,
                       presents_done, entry, handles, depth>>

\* A wait is held back until the present after its own is acknowledged.
DueLate(id) == entry[id].seq < presents_done

-----------------------------------------------------------------------------
(* Sending.                                                                *)

(* rw_send_envelope: on a severed adapter a send abandons whatever is      *)
(* queued.  (Abandoning nothing is no step.)  reqs is the request list the *)
(* send finds.                                                             *)
SendAbandons(reqs) == ~connected /\ (reqs # {} \/ vsync_waits # {})

\* A call that ends with its send.
SendLast(reqs) ==
    IF SendAbandons(reqs)
    THEN requests' = {} /\ Push(At("requests", reqs))
    ELSE requests' = reqs /\ UNCHANGED stack

\* A call that goes on as f after a send that abandons.
SendThen(f) ==
    /\ requests' = {}
    /\ depth' = depth + 2
    /\ frame' = [frame EXCEPT ![depth + 1] = f,
                              ![depth + 2] = At("requests", requests)]

(* A command with a reply: rw_request_create queues it, then it is sent.   *)
Issue(type, h) ==
    LET id == next_future_id IN
    /\ id \in Ids
    /\ next_future_id' = id + 1
    /\ entry' = [entry EXCEPT ![id] = Request(type, h)]
    /\ SendLast(requests \cup {id})
    /\ UNCHANGED <<connected, vsync_waits, presents_sent, presents_done, calls>>

-----------------------------------------------------------------------------
(* Calls of the application, at the top level or from inside a callback.   *)

wgpuDeviceCreateBuffer(b, mappedAtCreation) ==
    /\ b \notin created
    /\ created' = created \cup {b}
    /\ refcount' = [refcount EXCEPT ![b] = 1]
    /\ appRefs' = [appRefs EXCEPT ![b] = 1]
    /\ map_state' = [map_state EXCEPT ![b] =
                        IF mappedAtCreation THEN "Mapped" ELSE "Unmapped"]
    /\ SendLast(requests)
    /\ UNCHANGED <<connected, next_future_id, vsync_waits, presents_sent,
                   presents_done, entry, calls>>

rw_handle_addref(h) ==
    /\ appRefs[h] \in 1 .. MaxRefs - 1
    /\ refcount' = [refcount EXCEPT ![h] = @ + 1]
    /\ appRefs' = [appRefs EXCEPT ![h] = @ + 1]
    /\ UNCHANGED <<adapter, entry, map_state, created, stack, calls>>

(* The application keeps a reference on the object of a call until the     *)
(* call returns.  The last release sends DestroyObject.                    *)
rw_handle_release(h) ==
    /\ appRefs[h] > 0
    /\ appRefs[h] = 1 => \A d \in Levels : frame[d].pc = "unmap" => frame[d].handle # h
    /\ refcount' = Released(h)
    /\ appRefs' = [appRefs EXCEPT ![h] = @ - 1]
    /\ IF refcount[h] = 1 THEN SendLast(requests) ELSE UNCHANGED <<requests, stack>>
    /\ UNCHANGED <<connected, next_future_id, vsync_waits, presents_sent,
                   presents_done, entry, map_state, created, calls>>

\* A buffer that is mapped or pending: the callback fails on the spot.
MapAsyncRefused(b) ==
    /\ appRefs[b] > 0
    /\ map_state[b] # "Unmapped"
    /\ Push(Calling("end", {}, None))
    /\ UNCHANGED <<adapter, entry, handles, calls>>

wgpuBufferMapAsync(b) ==
    /\ appRefs[b] > 0
    /\ map_state[b] = "Unmapped"
    /\ refcount' = [refcount EXCEPT ![b] = @ + 1]
    /\ map_state' = [map_state EXCEPT ![b] = "Pending"]
    /\ Issue("MAP", b)
    /\ UNCHANGED <<created, appRefs>>

\* The state changes after the send, so callbacks it runs see the buffer mapped.
wgpuBufferUnmap(b) ==
    /\ appRefs[b] > 0
    /\ map_state[b] = "Mapped"
    /\ IF SendAbandons(requests)
       THEN SendThen(Unmapping(b)) /\ UNCHANGED map_state
       ELSE /\ map_state' = [map_state EXCEPT ![b] = "Unmapped"]
            /\ UNCHANGED <<requests, stack>>
    /\ UNCHANGED <<connected, next_future_id, vsync_waits, presents_sent,
                   presents_done, entry, refcount, created, appRefs, calls>>

\* The new texture belongs to the request until the callback adopts it.
wgpuRemoteDeviceLoadTextureFromURL(t) ==
    /\ t \notin created
    /\ created' = created \cup {t}
    /\ refcount' = [refcount EXCEPT ![t] = 1]
    /\ Issue("TEXTURE_LOAD", t)
    /\ UNCHANGED <<map_state, appRefs>>

IssuePlain(type) == type \in PlainTypes /\ Issue(type, None) /\ UNCHANGED handles

wgpuDevicePopErrorScope == IssuePlain("POP_ERROR")

wgpuQueueOnSubmittedWorkDone == IssuePlain("WORK_DONE")

wgpuShaderModuleGetCompilationInfo == IssuePlain("COMPILATION")

wgpuSurfacePresent ==
    /\ presents_sent < MaxPresents
    /\ IF SendAbandons(requests)
       THEN SendThen(At("present", {})) /\ UNCHANGED presents_sent
       ELSE presents_sent' = presents_sent + 1 /\ UNCHANGED <<requests, stack>>
    /\ UNCHANGED <<connected, next_future_id, vsync_waits, presents_done,
                   entry, handles, calls>>

\* On a severed adapter the wait is completed and called on the spot.
wgpuRemoteSurfaceOnNextVsync ==
    LET id == next_future_id IN
    /\ id \in Ids
    /\ next_future_id' = id + 1
    /\ entry' = [entry EXCEPT ![id] = VsyncWait(presents_sent, presents_done)]
    /\ IF connected
       THEN vsync_waits' = vsync_waits \cup {id} /\ UNCHANGED <<stack, calls>>
       ELSE /\ Push(Calling("end", {}, None))
            /\ calls' = Called(id)
            /\ UNCHANGED vsync_waits
    /\ UNCHANGED <<connected, requests, presents_sent, presents_done, handles>>

wgpuRemoteAdapterAbandonRequests ==
    /\ requests' = {}
    /\ Push(At("requests", requests))
    /\ UNCHANGED <<connected, next_future_id, vsync_waits, presents_sent,
                   presents_done, entry, handles, calls>>

wgpuRemoteAdapterDisconnect ==
    /\ connected' = FALSE
    /\ requests' = {}
    /\ Push(At("requests", requests))
    /\ UNCHANGED <<next_future_id, vsync_waits, presents_sent, presents_done,
                   entry, handles, calls>>

-----------------------------------------------------------------------------
(* wgpuRemoteAdapterReceiveData, one action per message of the client.     *)

\* request_take: a reply finds the request with its id AND its type.
Take(id, type) ==
    /\ id \in requests
    /\ entry[id].type = type
    /\ requests' = requests \ {id}
    /\ calls' = Called(id)
    /\ UNCHANGED <<connected, next_future_id, vsync_waits, presents_sent,
                   presents_done, entry>>

\* failed stands for a failed reply and for one shorter than was asked for.
handle_map_buffer_data(id, failed) ==
    /\ Take(id, "MAP")
    /\ map_state' = [map_state EXCEPT ![entry[id].handle] =
                        IF failed THEN "Unmapped" ELSE "Mapped"]
    /\ Push(Calling("end", {}, entry[id].handle))
    /\ UNCHANGED <<refcount, created, appRefs>>

\* handle_error_scope_result, handle_work_done and handle_compilation_info.
handle_plain_reply(id, type) ==
    /\ Take(id, type)
    /\ Push(Calling("end", {}, None))
    /\ UNCHANGED handles

(* A failed load releases the texture BEFORE the callback, which a request *)
(* that is still queued sees connected; a loaded texture's reference       *)
(* passes to the callback.                                                 *)
handle_texture_loaded(id, failed) ==
    /\ Take(id, "TEXTURE_LOAD")
    /\ IF failed
       THEN refcount' = Released(entry[id].handle) /\ UNCHANGED appRefs
       ELSE appRefs' = [appRefs EXCEPT ![entry[id].handle] = @ + 1]
            /\ UNCHANGED refcount
    /\ Push(Calling("end", {}, None))
    /\ UNCHANGED <<map_state, created>>

handle_present_done ==
    /\ presents_done < presents_sent
    /\ presents_done' = presents_done + 1
    /\ Push(At("vsync", {}))
    /\ UNCHANGED <<connected, next_future_id, requests, vsync_waits,
                   presents_sent, entry, handles, calls>>

-----------------------------------------------------------------------------
(* The library's turn.                                                     *)

(* The callback of the innermost call returns and the call does the        *)
(* release it owes; a last release sends DestroyObject.                    *)
CallbackReturns(d) ==
    LET h == frame[d].handle
        resumed == [frame EXCEPT ![d] = [@ EXCEPT !.calling = FALSE, !.handle = None]]
    IN
    /\ d = depth
    /\ frame[d].calling
    /\ refcount' = Released(h)
    /\ IF h # None /\ refcount[h] = 1 /\ SendAbandons(requests)
       THEN /\ requests' = {}
            /\ depth' = d + 1
            /\ frame' = [resumed EXCEPT ![d + 1] = At("requests", requests)]
       ELSE frame' = resumed /\ UNCHANGED <<requests, depth>>
    /\ UNCHANGED <<connected, next_future_id, vsync_waits, presents_sent,
                   presents_done, entry, map_state, created, appRefs, calls>>

\* First loop of AbandonRequests: fail one detached request.
AbandonRequest(d) ==
    \E id \in frame[d].list :
        /\ Running(d, "requests")
        /\ Newest(id, frame[d].list)
        /\ calls' = Called(id)
        /\ map_state' = IF entry[id].type = "MAP"
                        THEN [map_state EXCEPT ![entry[id].handle] = "Unmapped"]
                        ELSE map_state
        /\ frame' = [frame EXCEPT ![d] =
                        Calling("requests", frame[d].list \ {id}, entry[id].handle)]
        /\ UNCHANGED <<adapter, entry, refcount, created, appRefs, depth>>

\* The waits are detached only when the first loop is over.
DetachWaits(d) ==
    /\ Running(d, "requests")
    /\ frame[d].list = {}
    /\ frame' = [frame EXCEPT ![d] = At("waits", vsync_waits)]
    /\ vsync_waits' = {}
    /\ UNCHANGED <<connected, next_future_id, requests, presents_sent,
                   presents_done, entry, handles, depth, calls>>

\* Second loop of AbandonRequests.
AbandonWait(d) ==
    \E id \in frame[d].list :
        /\ Running(d, "waits")
        /\ Oldest(id, frame[d].list)
        /\ calls' = Called(id)
        /\ frame' = [frame EXCEPT ![d] = Calling("waits", frame[d].list \ {id}, None)]
        /\ UNCHANGED <<adapter, entry, handles, depth>>

\* The condition of the loop of PresentDone, which calls the oldest wait while
\* its present is acknowledged.
Due(id) == entry[id].seq <= presents_done

FireVsync(d) ==
    \E id \in vsync_waits :
        /\ Running(d, "vsync")
        /\ Oldest(id, vsync_waits)
        /\ Due(id)
        /\ vsync_waits' = vsync_waits \ {id}
        /\ calls' = Called(id)
        /\ frame' = [frame EXCEPT ![d] = Calling("vsync", {}, None)]
        /\ UNCHANGED <<connected, next_future_id, requests, presents_sent,
                       presents_done, entry, handles, depth>>

FinishUnmap(d) ==
    /\ Running(d, "unmap")
    /\ map_state' = [map_state EXCEPT ![frame[d].handle] = "Unmapped"]
    /\ Return(d)
    /\ UNCHANGED <<adapter, entry, refcount, created, appRefs, calls>>

FinishPresent(d) ==
    /\ Running(d, "present")
    /\ presents_sent' = presents_sent + 1
    /\ Return(d)
    /\ UNCHANGED <<connected, next_future_id, requests, vsync_waits,
                   presents_done, entry, handles, calls>>

Finish(d) ==
    /\ \/ Running(d, "waits") /\ frame[d].list = {}
       \/ Running(d, "vsync")
          /\ \A id \in vsync_waits : Oldest(id, vsync_waits) => ~Due(id)
       \/ Running(d, "end")
    /\ Return(d)
    /\ UNCHANGED <<adapter, entry, handles, calls>>

-----------------------------------------------------------------------------
App ==
    \/ \E b \in Buffers :
          \/ \E mapped \in BOOLEAN : wgpuDeviceCreateBuffer(b, mapped)
          \/ MapAsyncRefused(b)
          \/ wgpuBufferMapAsync(b)
          \/ wgpuBufferUnmap(b)
    \/ \E h \in Handles : rw_handle_addref(h) \/ rw_handle_release(h)
    \/ \E t \in Textures : wgpuRemoteDeviceLoadTextureFromURL(t)
    \/ wgpuDevicePopErrorScope
    \/ wgpuQueueOnSubmittedWorkDone
    \/ wgpuShaderModuleGetCompilationInfo
    \/ wgpuSurfacePresent
    \/ wgpuRemoteSurfaceOnNextVsync
    \/ wgpuRemoteAdapterAbandonRequests
    \/ wgpuRemoteAdapterDisconnect

Receive ==
    \/ \E id \in Ids :
          \/ \E failed \in BOOLEAN :
                handle_map_buffer_data(id, failed) \/ handle_texture_loaded(id, failed)
          \/ \E type \in PlainTypes : handle_plain_reply(id, type)
    \/ handle_present_done

Library ==
    \E d \in Levels :
        \/ AbandonRequest(d) \/ DetachWaits(d) \/ AbandonWait(d)
        \/ FireVsync(d)
        \/ FinishUnmap(d) \/ FinishPresent(d) \/ Finish(d)

Next ==
    \/ AppInControl /\ depth < MaxDepth /\ (App \/ Receive)
    \/ \E d \in Levels : CallbackReturns(d)
    \/ Library

Spec == Init /\ [][Next]_vars

(* The library runs on, and every callback it calls returns in the end: a  *)
(* callback makes finitely many calls, so the call it interrupts is        *)
(* resumed.  Nothing is assumed of the client (it may never answer) or of  *)
(* the application (it need not make any call).                            *)
FairSpec ==
    /\ Spec
    /\ WF_vars(Library)
    /\ \A d \in Levels : SF_vars(CallbackReturns(d))

-----------------------------------------------------------------------------
(* Derived state.                                                          *)

Issued == 1 .. next_future_id - 1

\* Ids some AbandonRequests under way has detached and not called yet.
Detached == UNION {frame[d].list : d \in Levels}

Outstanding == requests \cup vsync_waits \cup Detached

\* References on h the library owns: requests not answered yet, and the
\* releases that calls in a callback still have to do.
RequestRefs(h) == {id \in requests \cup Detached : entry[id].handle = h}
FrameRefs(h) == {d \in Levels : frame[d].calling /\ frame[d].handle = h}

-----------------------------------------------------------------------------
(* Properties.                                                             *)

TypeOK ==
    /\ connected \in BOOLEAN
    /\ next_future_id \in 1 .. MaxFuture + 1
    /\ entry \in [Ids -> Entry]
    /\ requests \subseteq Ids
    /\ vsync_waits \subseteq Ids
    /\ presents_sent \in Nat
    /\ presents_done \in Nat
    /\ map_state \in [Buffers -> {"Unmapped", "Pending", "Mapped"}]
    /\ refcount \in [Handles -> Int]
    /\ created \subseteq Handles
    /\ depth \in 0 .. MaxDepth + 2
    /\ frame \in [Levels -> Frame]
    /\ appRefs \in [Handles -> Nat]
    /\ calls \in [Ids -> Nat]

(* Every command with a callback (a map, a load, a wait...) is either still *)
(* pending, never called, or gone and called exactly once: replies,         *)
(* AbandonRequests, Disconnect and re-entrant calls of all of them neither  *)
(* lose a callback nor repeat one.                                          *)
ExactlyOnce ==
    \A id \in Ids :
        calls[id] = IF id \in Issued \ Outstanding THEN 1 ELSE 0

(* A severed adapter never has a request queued: what is issued after       *)
(* Disconnect, or by a callback Disconnect is running, is detached by the   *)
(* failing send.  Waits may still be queued, but only while the first loop  *)
(* of an AbandonRequests, which will detach them, is under way.             *)
QuietWhenSevered ==
    ~connected =>
        /\ requests = {}
        /\ vsync_waits # {} => \E d \in Levels : frame[d].pc = "requests"

(* No id is on two lists, every listed id has been handed out, no call is   *)
(* under way above the innermost one, and the deepest level never owes a    *)
(* release (so the stack does not grow beyond it).                          *)
StackOK ==
    /\ Outstanding \subseteq Issued
    /\ requests \cap vsync_waits = {}
    /\ \A d \in Levels : /\ d > depth => frame[d] = Idle
                         /\ frame[d].list \cap (requests \cup vsync_waits) = {}
    /\ \A d, e \in Levels : d # e => frame[d].list \cap frame[e].list = {}
    /\ frame[MaxDepth + 2].handle = None
    /\ frame[MaxDepth + 2].pc = "requests" => frame[MaxDepth + 2].list = {}

\* What RemoteAdapterProofs shows to be inductive.
IInv == TypeOK /\ StackOK /\ ExactlyOnce /\ QuietWhenSevered

(* A buffer is Pending exactly while one map request of it is outstanding,  *)
(* be it queued or detached by an AbandonRequests under way; there are      *)
(* never two, so no late reply can map a buffer under another request.      *)
PendingIffOutstanding ==
    \A b \in Buffers :
        LET maps == {id \in requests \cup Detached :
                        entry[id].type = "MAP" /\ entry[id].handle = b}
        IN  IF map_state[b] = "Pending" THEN \E id \in maps : maps = {id}
                                        ELSE maps = {}

(* A reference count is the application's references plus one per request   *)
(* and per release a suspended call owes: nothing is freed while a request  *)
(* or a call still uses it, and nothing keeps an object alive once they are *)
(* gone.                                                                    *)
RefcountExact ==
    \A h \in Handles :
        refcount[h] = appRefs[h] + Cardinality(RequestRefs(h))
                                 + Cardinality(FrameRefs(h))

(* On a connected adapter the wait list loses waits from its head only:     *)
(* while a wait is queued every younger one is still queued behind it.      *)
VsyncInOrder ==
    connected =>
        \A w \in vsync_waits, v \in Issued :
            entry[v].type = "VSYNC" /\ v > w => v \in vsync_waits

(* Outside the PresentDone loop no wait is overdue: one registered before   *)
(* its present was acknowledged is called by that very acknowledgement, and *)
(* one registered later, which nothing calls then, by the first that comes  *)
(* after it, however callbacks re-enter the loop.                           *)
NoOverdueWait ==
    (\A d \in Levels : frame[d].pc # "vsync")
        => \A w \in vsync_waits : \/ entry[w].seq > presents_done
                                  \/ entry[w].since = presents_done

\* Where the library stands in CompletionPromise.
status ==
    [id \in Ids |-> IF id \in Outstanding THEN "pending"
                    ELSE IF calls[id] = 0 THEN "unissued"
                    ELSE "called"]
Promise == INSTANCE CompletionPromise WITH severed <- ~connected

(* Every behaviour of the library is one of CompletionPromise: one callback *)
(* per command, and after Disconnect every pending one is called, under the *)
(* assumption that callbacks return.                                        *)
KeepsPromise == Promise!Spec

\* The client acknowledges presents whenever the application lets it.
ClientShowsFrames == SF_vars(handle_present_done /\ AppInControl)

(* A wait registered while its present is unacknowledged is called in the   *)
(* end if the client acknowledges presents, whatever else is interleaved.   *)
AwaitedVsyncFires ==
    ClientShowsFrames =>
        \A w \in Ids :
            (w \in vsync_waits /\ entry[w].seq > presents_done) ~> calls[w] > 0
=============================================================================
