-------------------------------- MODULE Session --------------------------------
(***************************************************************************)
(* A server application and its client over one web socket: the object     *)
(* handles, map states, devices and surface the C library keeps            *)
(* (remote_webgpu.c, remote_methods.c), composed with the browser of       *)
(* ClientExecutor.  Requests are the ones RemoteAdapter looks into; here a *)
(* request is pending until its answer arrives or the connection ends, and *)
(* callbacks do not call back.  Once severed the library sends nothing     *)
(* (RemoteAdapter), so the calls of the application stop mattering.        *)
(***************************************************************************)
EXTENDS ClientExecutor

CONSTANTS
    Devices,        \* RemoteDevice handles, in the order they are requested
    NoDevice,
    MaxRequests,    \* bound on the requests made
    MaxCalls,       \* bound on the commands the application issues
    MaxDown         \* bound on the commands under way when it does

ASSUME SessionAssumption ==
    /\ Devices \subseteq Nat /\ NoDevice \notin Devices
    /\ MaxRequests \in Nat /\ MaxCalls \in Nat /\ MaxDown \in Nat \ {0}

VARIABLES
    connected,      \* adapter->send is set
    held,           \* the devices the application holds a reference to
    of,             \* the device an object holds a reference to
    lost_device,    \* the device reports are routed to, or NoDevice
    lost,           \* devices whose lost callback has been called
    destroyed,      \* history: devices wgpuDeviceDestroy was called for
    owned,          \* object handles the application holds
    map_state,      \* RemoteHandle.map_state
    requests,       \* pending requests, as the commands that carry them
    surface,        \* RemoteSurface.device
    issued,         \* history: object and device handles given out
    calls           \* history: commands issued, requests made, frames presented,
                    \* acknowledgements received

deviceVars == <<held, of, lost_device, lost, destroyed>>
handleVars == <<owned, map_state, requests, issued>>
serverVars == <<connected, deviceVars, handleVars, surface, calls>>
vars == <<down, up, clientVars, serverVars>>

Init ==
    /\ ClientInit
    /\ down = <<>>
    /\ up = <<>>
    /\ connected = TRUE
    /\ held = {}
    /\ of = [id \in Objects |-> NoDevice]
    /\ lost_device = NoDevice
    /\ lost = {}
    /\ destroyed = {}
    /\ owned = {}
    /\ map_state = [b \in Buffers |-> "Unmapped"]
    /\ requests = {}
    /\ surface = NoDevice
    /\ issued = {}
    /\ calls = [issued |-> 0, requests |-> 0, sent |-> 0, done |-> 0]

Pinned(id) == \E r \in requests : r.object = id

\* The devices somebody holds a reference to; the others are freed.
Referenced ==
    held \cup {surface} \cup {of[id] : id \in {o \in Objects : o \in owned \/ Pinned(o)}}

\* wgpuDeviceRelease: the adapter forgets a device with its last reference.
ForgetFreed == lost_device' = IF lost_device \in Referenced' THEN lost_device ELSE NoDevice

-----------------------------------------------------------------------------
(* Faulty variants of definitions below, each a bug the code could have.   *)
(* No specification uses them; they show which property would notice.      *)

IssuesAny(op, object, req) ==
    /\ connected
    /\ Len(down) < MaxDown
    /\ calls.issued < MaxCalls
    /\ calls' = [calls EXCEPT !.issued = @ + 1,
                             !.requests = IF req = 0 THEN @ ELSE req]
    /\ down' = Append(down, Cmd(op, object, req))
    /\ UNCHANGED <<up, clientVars, connected>>

\* Dropping the application's reference destroys, whoever else holds one.
ReleaseDestroys(id) ==
    /\ id \in owned
    /\ owned' = owned \ {id}
    /\ IssuesAny("destroyObject", id, 0)
    /\ UNCHANGED <<held, of, lost, destroyed, map_state, requests, issued, surface>>
    /\ ForgetFreed

\* The last reference is a request's, and letting go of it tells nobody.
UnpinQuiet(r, given) ==
    /\ requests' = requests \ {r}
    /\ owned' = owned \cup given
    /\ down' = down
    /\ UNCHANGED <<held, of>>
    /\ ForgetFreed

\* A buffer that is pending or mapped is mapped again.
MapAsyncAgain(b, op) ==
    /\ b \in owned
    /\ calls.requests < MaxRequests
    /\ map_state' = [map_state EXCEPT ![b] = "Pending"]
    /\ requests' = requests \cup {Cmd(op, b, calls.requests + 1)}
    /\ IssuesAny(op, b, calls.requests + 1)
    /\ UNCHANGED <<deviceVars, owned, issued, surface>>

\* Only the release of a device by the application forgets it, not that of the
\* last object made from it.
ReleaseDangles(id) ==
    /\ id \in owned
    /\ owned' = owned \ {id}
    /\ IF Pinned(id) THEN UNCHANGED <<down, up, clientVars, connected, calls>>
       ELSE IssuesAny("destroyObject", id, 0)
    /\ UNCHANGED <<deviceVars, map_state, requests, issued, surface>>

-----------------------------------------------------------------------------
(* Calls of the application.                                               *)

\* rw_send_envelope, the last thing a call does.
Issues(op, object, req) ==
    /\ connected
    /\ Len(down) < MaxDown
    /\ calls.issued < MaxCalls
    /\ calls' = [calls EXCEPT !.issued = @ + 1,
                             !.requests = IF req = 0 THEN @ ELSE req,
                             !.sent = IF op = "present" THEN @ + 1 ELSE @]
    /\ down' = Append(down, Cmd(op, object, req))
    /\ UNCHANGED <<up, clientVars, connected>>

\* rw_handle_create: the object holds a reference to its device.
Creates(id, d) ==
    /\ id \notin issued
    /\ issued' = issued \cup {id}
    /\ of' = [of EXCEPT ![id] = d]
    /\ UNCHANGED <<held, lost_device, lost, destroyed>>

wgpuAdapterRequestDevice(d, op) ==
    /\ d \notin issued /\ \A e \in Devices : e < d => e \in issued
    /\ issued' = issued \cup {d}
    /\ held' = held \cup {d}
    /\ lost_device' = d
    /\ Issues(op, NoObject, 0)
    /\ UNCHANGED <<of, lost, destroyed, owned, map_state, requests, surface>>

wgpuDeviceDestroy(d) ==
    /\ d \in held \ destroyed
    /\ destroyed' = destroyed \cup {d}
    /\ Issues("destroyDevice", NoObject, 0)
    /\ UNCHANGED <<held, of, lost_device, lost, handleVars, surface>>

wgpuDeviceRelease(d) ==
    /\ d \in held
    /\ held' = held \ {d}
    /\ UNCHANGED <<down, up, clientVars, connected, of, lost, destroyed, handleVars, surface,
                   calls>>
    /\ ForgetFreed

wgpuDeviceCreateBuffer(d, b, mappedAtCreation) ==
    /\ d \in held
    /\ Creates(b, d)
    /\ owned' = owned \cup {b}
    /\ map_state' = [map_state EXCEPT ![b] = IF mappedAtCreation THEN "Mapped" ELSE @]
    /\ Issues(IF mappedAtCreation THEN "createMappedBuffer" ELSE "createBuffer", b, 0)
    /\ UNCHANGED <<requests, surface>>

Requests(op, object) ==
    /\ calls.requests < MaxRequests
    /\ requests' = requests \cup {Cmd(op, object, calls.requests + 1)}
    /\ Issues(op, object, calls.requests + 1)

wgpuBufferMapAsync(b, op) ==
    /\ b \in owned
    /\ map_state[b] = "Unmapped"
    /\ map_state' = [map_state EXCEPT ![b] = "Pending"]
    /\ Requests(op, b)
    /\ UNCHANGED <<deviceVars, owned, issued, surface>>

wgpuBufferUnmap(b) ==
    /\ b \in owned
    /\ map_state[b] = "Mapped"
    /\ map_state' = [map_state EXCEPT ![b] = "Unmapped"]
    /\ Issues("unmap", b, 0)
    /\ UNCHANGED <<deviceVars, owned, requests, issued, surface>>

wgpuBufferDestroy(b) ==
    /\ b \in owned
    /\ Issues("destroyResource", b, 0)
    /\ UNCHANGED <<deviceVars, handleVars, surface>>

\* The texture's one reference belongs to the request until it is answered.
wgpuRemoteDeviceLoadTextureFromURL(d, t) ==
    /\ d \in held
    /\ Creates(t, d)
    /\ Requests("loadTexture", t)
    /\ UNCHANGED <<owned, map_state, surface>>

\* OnSubmittedWorkDone and GetCompilationInfo, PopErrorScope.
Ask(op) ==
    /\ held # {}
    /\ Requests(op, NoObject)
    /\ UNCHANGED <<deviceVars, owned, map_state, issued, surface>>

\* Any call that names an object.
UseObject(id) ==
    /\ id \in owned
    /\ Issues("use", id, 0)
    /\ UNCHANGED <<deviceVars, handleVars, surface>>

\* rw_handle_release: the client hears of the last reference only.
Release(id) ==
    /\ id \in owned
    /\ owned' = owned \ {id}
    /\ IF Pinned(id) THEN UNCHANGED <<down, up, clientVars, connected, calls>>
       ELSE Issues("destroyObject", id, 0)
    /\ UNCHANGED <<held, of, lost, destroyed, map_state, requests, issued, surface>>
    /\ ForgetFreed

\* The surface lets go of the device it was configured with before.
wgpuSurfaceConfigure(d) ==
    /\ d \in held
    /\ surface' = d
    /\ Issues("configure", NoObject, 0)
    /\ UNCHANGED <<held, of, lost, destroyed, handleVars>>
    /\ ForgetFreed

\* The device stays set: the surface still hands out textures afterwards.
wgpuSurfaceUnconfigure ==
    /\ surface # NoDevice
    /\ Issues("unconfigure", NoObject, 0)
    /\ UNCHANGED <<deviceVars, handleVars, surface>>

wgpuSurfaceGetCurrentTexture(f) ==
    /\ surface # NoDevice
    /\ Creates(f, surface)
    /\ owned' = owned \cup {f}
    /\ Issues("acquire", f, 0)
    /\ UNCHANGED <<map_state, requests, surface>>

wgpuSurfacePresent ==
    /\ surface # NoDevice
    /\ Issues("present", NoObject, 0)
    /\ UNCHANGED <<deviceVars, handleVars, surface>>

-----------------------------------------------------------------------------
(* wgpuRemoteAdapterReceiveData.                                           *)

Receives(op) ==
    /\ connected
    /\ up # <<>>
    /\ Head(up).op = op
    /\ up' = Tail(up)
    /\ UNCHANGED <<clientVars, connected, surface>>

\* request_take; a reply nobody waits for is ignored.
Asked == {r \in requests : r.req = Head(up).req}

\* The reference the request held goes; objects without another are destroyed.
Unpin(r, given) ==
    /\ requests' = requests \ {r}
    /\ owned' = owned \cup given
    /\ down' = IF r.object = NoObject \/ r.object \in owned' THEN down
               ELSE Append(down, Cmd("destroyObject", r.object, 0))
    /\ UNCHANGED <<held, of>>
    /\ ForgetFreed

handle_map_buffer_data ==
    /\ Receives("map")
    /\ \E r \in Asked :
          /\ Unpin(r, {})
          /\ map_state' = [map_state EXCEPT ![r.object] =
                              IF Head(up).ok THEN "Mapped" ELSE "Unmapped"]
    /\ UNCHANGED <<lost, destroyed, issued, calls>>

\* The callback owns the texture from here on.
handle_texture_loaded ==
    /\ Receives("load")
    /\ \E r \in Asked : Unpin(r, IF Head(up).ok THEN {r.object} ELSE {})
    /\ UNCHANGED <<lost, destroyed, map_state, issued, calls>>

\* handle_compilation_info and handle_error_scope_result are the same.
handle_work_done(op) ==
    /\ Receives(op)
    /\ \E r \in Asked : Unpin(r, {})
    /\ UNCHANGED <<lost, destroyed, map_state, issued, calls>>

handle_present_done ==
    /\ Receives("presentDone")
    /\ calls' = [calls EXCEPT !.done = IF @ < calls.sent THEN @ + 1 ELSE @]
    /\ UNCHANGED <<down, deviceVars, handleVars>>

handle_device_lost ==
    /\ Receives("deviceLost")
    /\ lost' = IF lost_device = NoDevice THEN lost ELSE lost \cup {lost_device}
    /\ UNCHANGED <<down, held, of, lost_device, destroyed, handleVars, calls>>

\* The socket closes, or an Error arrives and the reader hangs up: every
\* request fails, and what is under way is never delivered.
Disconnect ==
    /\ connected
    /\ connected' = FALSE
    /\ closed' = TRUE
    /\ down' = <<>>
    /\ up' = <<>>
    /\ tasks' = {}
    /\ losing' = {}
    /\ compositing' = FALSE
    /\ requests' = {}
    /\ map_state' = [b \in Buffers |->
                        IF map_state[b] = "Pending" THEN "Unmapped" ELSE map_state[b]]
    /\ UNCHANGED <<tableVars, unseen, gpu, dead, surfaceTexture, held, of, lost, destroyed,
                   owned, issued, surface, calls>>
    /\ ForgetFreed

ReceiveError ==
    /\ up # <<>>
    /\ Head(up).op = "error"
    /\ Disconnect

-----------------------------------------------------------------------------
App ==
    \/ \E d \in Devices : \/ wgpuAdapterRequestDevice(d, "requestDevice")
                          \/ wgpuAdapterRequestDevice(d, "requestDeviceWith")
                          \/ wgpuDeviceDestroy(d) \/ wgpuDeviceRelease(d)
                          \/ wgpuSurfaceConfigure(d)
    \/ \E d \in Devices, b \in Buffers : \/ wgpuDeviceCreateBuffer(d, b, TRUE)
                                        \/ wgpuDeviceCreateBuffer(d, b, FALSE)
    \/ \E d \in Devices, t \in Textures : wgpuRemoteDeviceLoadTextureFromURL(d, t)
    \/ \E b \in Buffers : \/ wgpuBufferMapAsync(b, "mapRead")
                          \/ wgpuBufferMapAsync(b, "mapWrite")
                          \/ wgpuBufferUnmap(b) \/ wgpuBufferDestroy(b)
    \/ \E f \in Frames : wgpuSurfaceGetCurrentTexture(f)
    \/ \E id \in Objects : UseObject(id) \/ Release(id)
    \/ Ask("ask") \/ Ask("popErrorScope") \/ wgpuSurfaceUnconfigure \/ wgpuSurfacePresent

Receive ==
    \/ handle_map_buffer_data \/ handle_texture_loaded \/ handle_work_done("ask")
    \/ handle_work_done("popErrorScope") \/ handle_present_done \/ handle_device_lost
    \/ ReceiveError

Next == App \/ Receive \/ Disconnect \/ (Client /\ UNCHANGED serverVars)

Spec == Init /\ [][Next]_vars

(* The browser runs: its promise chain goes on, its promises settle and it *)
(* draws frames while the tab is shown; the server reads its socket.       *)
(* Nothing makes the application call, or the connection end.              *)
FairSpec ==
    /\ Spec
    /\ WF_vars(Execute /\ UNCHANGED serverVars)
    /\ WF_vars(AnimationFrame /\ UNCHANGED serverVars)
    /\ WF_vars(\E t \in tasks : Settle(t) /\ UNCHANGED serverVars)
    /\ WF_vars(Receive)

-----------------------------------------------------------------------------
(* Properties.                                                             *)

Count(seq, op) == Cardinality({i \in DOMAIN seq : seq[i].op = op})

\* The requests the browser may leave without an answer: the work-done and the
\* compilation info have no catch, and a map of a buffer that was not created
\* throws before its try.
Unanswerable(r) == r.op = "ask" \/ r.object \in failed

(* Every variable has its type; in particular the slot device reports are  *)
(* routed to never names a device that is freed, whoever lets go of it     *)
(* last: the application, an object, a request or the surface.             *)
TypeOK ==
    /\ down \in Seq([op : Ops, object : Objects \cup {NoObject}, req : 0 .. MaxRequests])
    /\ up \in Seq([op : {"map", "load", "ask", "popErrorScope", "deviceLost", "presentDone",
                         "error"},
                   req : 0 .. MaxRequests, ok : BOOLEAN])
    /\ objects \subseteq Objects
    /\ mapping \in [Buffers -> {"unmapped", "pending", "mapped", "taken", "destroyed"}]
    /\ gpu \in 1 .. MaxGpus
    /\ losing \subseteq dead /\ dead \subseteq 1 .. gpu
    /\ failed \subseteq Buffers /\ unseen \subseteq 1 .. MaxRequests
    /\ {surfaceTexture, compositing, closed, connected} \subseteq BOOLEAN
    /\ held \cup lost \cup destroyed \subseteq Devices
    /\ of \in [Objects -> Devices \cup {NoDevice}] /\ surface \in Devices \cup {NoDevice}
    /\ lost_device \in Referenced \cup {NoDevice}
    /\ owned \subseteq Objects
    /\ map_state \in [Buffers -> {"Unmapped", "Pending", "Mapped"}]
    /\ requests \subseteq [op : Ops, object : Objects \cup {NoObject}, req : 1 .. MaxRequests]
    /\ calls.done <= calls.sent

(* A command that names a buffer or a fetched texture finds it, unless the *)
(* browser could not create the buffer: neither a release while a map or a *)
(* fetch is under way nor one that races the answer takes an object away   *)
(* that a command still names.                                             *)
NamesResolve ==
    down # <<>> /\ Command.object \in Buffers \cup Textures
        /\ Command.op \notin {"createBuffer", "createMappedBuffer", "loadTexture"}
    => \/ Known(Command.object) \/ Command.object \in failed
       \/ Command.op = "destroyObject" /\ Command.object \in Textures

(* What the client keeps in its table the server still holds, or has told  *)
(* it to drop: nothing leaks in the browser while the connection lasts.    *)
NoOrphans ==
    connected =>
        \A id \in objects :
            \/ id \in owned \/ Pinned(id)
            \/ \E i \in DOMAIN down : down[i] = Cmd("destroyObject", id, 0)

(* The two sides agree on a buffer.  A map the browser is working on is    *)
(* one the server waits for, a buffer mapped at creation stays mapped in   *)
(* the browser only until the server's unmap arrives, and a map request    *)
(* never meets one of these: the browser refuses it only for a buffer that *)
(* was destroyed, or whose range it handed out and never took back.        *)
MapAgrees ==
    /\ connected =>
          \A b \in Buffers :
             /\ mapping[b] = "pending" => map_state[b] = "Pending"
             /\ mapping[b] = "mapped" =>
                   map_state[b] = "Mapped" \/ \E i \in DOMAIN down : down[i] = Cmd("unmap", b, 0)
    /\ down # <<>> /\ Command.op \in {"mapRead", "mapWrite"} =>
          mapping[Command.object] \notin {"pending", "mapped"}

(* While the connection lasts a pending request is in exactly one place:   *)
(* on its way to the client, in the hands of the browser, answered and on  *)
(* its way back, or in a rejection nobody sees.  No command is dropped,    *)
(* none is answered twice, and only a request without a catch comes to     *)
(* nothing: a fetch, an error scope and a map of a buffer that exists are  *)
(* answered whatever the browser makes of them.                            *)
RequestTracked ==
    connected /\ ~closed =>
        \A r \in requests :
            /\ Cardinality({i \in DOMAIN down : down[i] = r})
               + Cardinality({t \in tasks : t.req = r.req})
               + Cardinality({i \in DOMAIN up : up[i].req = r.req})
               + Cardinality({n \in unseen : n = r.req}) = 1
            /\ r.req \in unseen => Unanswerable(r)

(* Every frame presented is under way, being shown, or acknowledged once:  *)
(* the server counts PresentDone and relies on it.                         *)
FramesCounted ==
    connected /\ ~closed =>
        calls.sent = Count(down, "present") + (IF compositing THEN 1 ELSE 0)
                     + Count(up, "presentDone") + calls.done

(* Requests are answered, or failed by the end of the connection: again    *)
(* and again none is pending, but those a rejection nobody sees has taken. *)
(* The requests are finitely many here, so each is answered.               *)
Answered == []<>(\A r \in requests : r.req \in unseen /\ Unanswerable(r))

-----------------------------------------------------------------------------
(* What the documentation says and the code does not do.                   *)

(* remote_methods.c:1078: the client answers wgpuDeviceDestroy with        *)
(* DeviceLost, which fires the lost callback.  Refuted: the message names  *)
(* no device, and the browser answers once per GPUDevice.                  *)
DestroyedDeviceIsLost ==
    connected /\ ~closed /\ down = <<>> /\ up = <<>> /\ tasks = {} /\ losing = {}
        => destroyed \cap held \subseteq lost

(* remote_webgpu.proto:904: UnmapBuffer copies the server's writes into    *)
(* the mapped range before unmapping.  Refuted: mapBuffer read that range  *)
(* to answer a write map, so copying into it throws, the writes are lost   *)
(* and the buffer stays mapped; every later map of it is refused.          *)
UnmapUnmaps ==
    [][down # <<>> /\ Command.op = "unmap" /\ Known(Command.object) /\ down' = Tail(down)
           /\ connected'
       => mapping'[Command.object] \in {"unmapped", "destroyed"}]_vars
=============================================================================
