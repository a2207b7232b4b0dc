# A TLA+ model of remote-webgpu

remote-webgpu runs a WebGPU program on a server and its GPU commands in a
browser. A C library (`remote_webgpu/`) implements `webgpu.h` by encoding calls
as protobuf envelopes; a browser client (`client/`) executes them on the real
`navigator.gpu` and answers. Two programs sit on the library: a C example server
(`example_server/`), and a Rust stack (`rust/`) with a runtime that accepts
clients, `wgpu`- and `winit`-compatible crates and a multi-user Bevy game.

This directory holds TLA+ modules that model the parts of that system whose
correctness depends on order, failure, concurrency or re-entrancy; the TLC
configurations that check them on small instances; and theorems with proofs
checked by TLAPS. Everything is translated from the code; the lines are in
`PROJECT.json` under `map`.

## 1. The system

### Components, state, operations

| Component | State | Operations | What is hard | Module |
|---|---|---|---|---|
| C library, asynchronous half (`remote_webgpu.c`, `remote_methods.c`) | per adapter: the list of requests waiting for a reply, the list of vsync waits, counts of presents sent and acknowledged, the `send` pointer; per object: reference count, a buffer's map state | MapAsync, Unmap, LoadTextureFromURL, PopErrorScope, OnSubmittedWorkDone, GetCompilationInfo, OnNextVsync, Present, ReceiveData, AbandonRequests, Disconnect | callbacks run inside library calls and may make any call; a failing send abandons everything; acknowledgements carry no id | `RemoteAdapter` |
| C library, handles, devices, surfaces | who holds each object, the adapter's current device and its lost callback, the configured device of a surface | RequestDevice, DeviceDestroy, DeviceLost, create, map, unmap, destroy, release, Configure, GetCurrentTexture, Present | one device slot for many devices; a release that races an answer; state kept on both ends of the socket | `Session` |
| Browser client (`index.ts`, `executor.ts`) | object table, device, surface texture, promise chain of commands, previous present | execute, executeSync, mapBuffer, present, the settling of promises | commands that are awaited next to commands that are not; a device replaced or lost under way | `ClientExecutor` |
| Rust runtime (`remote-wgpu-runtime/src/lib.rs`) | connection count, registry of clients (weak), queue of unclaimed clients (strong), per client: event queue, disconnected flag, pending vsyncs | accept, handshake, reader loop, mark_disconnected, claim, list, poll_event, drop | several threads; ownership shared between threads, queue, application and C callbacks; bounds | `ClientRuntime` |
| C lock, progress, callback thread (`CLock`, `notify`, `wait_until`; `wgpu/src/api.rs`) | owner and depth of the lock; a counter and a condition variable; the crate's mutexes; the callback thread's channel | lock, unlock, notify, wait, map_async, submit, poll, on_uncaptured_error, drop of a device | lost wake-ups, lock order, callbacks that lock | `WgpuThreads` |
| Multi-user Bevy game (`bevy_pbr_game`) over forked `bevy_render`, `bevy_asset` | main world, one render world per player, one record queue per render world, asset messages with a cursor per world, a shared asset server | join, leave, simulate, extract, render, harvest a render app, repair the asset server | worlds at different pace, late joiners, allocators shared by two apps | `GameWorlds`, `RenderAssets`, `AssetServer` |
| C library, handshake, futures, limits, encoding | ring of completed ids; no other | ClientHello, WaitAny, `clamp_*`, ~150 calls that send one message | see section 6 | |
| Forwarded addresses, `winit` crate, static files, example server, generated code, tests | | | see section 6 | |

### Interactions

* The application calls the C library; the library calls the transport's `send`
  for every command, and application callbacks from inside `ReceiveData`,
  `AbandonRequests`, `Disconnect` and any call whose send fails.
* The transport feeds each envelope of the client to `ReceiveData`. In the Rust
  stack a connection's reader thread does this, under the process-wide
  re-entrant C lock. Callbacks of the application are handed to one callback
  thread; commands leave through a channel to a writer thread.
* The client executes commands in the order of a promise chain and sends
  replies, `PresentDone` and events in whatever order its own promises settle.
* When a connection ends its reader thread severs the adapter
  (`wgpuRemoteAdapterDisconnect`), takes the client off the registry and the
  queue, and queues a last event for the application.
* The game's runner claims clients, builds a throwaway app for each, takes its
  render app and drops the rest. Every round it runs the simulation once and
  gives a frame to each render world whose client has acknowledged enough.

### What makes each part correct

* **Requests.** Every command with a callback has it called exactly once; a
  reply completes the request it names and no other; after a disconnect nothing
  stays pending. Buffers are `Pending` only while a map of theirs is. Requests
  pin what they use and let go of it.
* **Vsync waits.** They complete in order, none is left behind by the
  acknowledgement it waits for, and one whose present is acknowledged completes.
* **Session.** A command finds the objects it names unless the browser could not
  create them; nothing stays behind in the browser; both sides agree on what is
  mapped; each request and each frame is in exactly one place until it is
  answered, and only the commands without a catch can stay unanswered.
* **Runtime.** The connection count is exact; a client can be freed only when
  the C library cannot reach it, and is freed once nobody needs it; the count of
  pending frames neither underflows nor sticks; `Disconnected` always arrives.
* **Threads.** The C lock belongs to the thread that has guards of it; a release
  leaves no sleeper behind; no threads wait in a cycle; every call returns.
* **Game.** A render world that is drawn shows the scene as it is, however many
  frames it skipped; its assets are the current ones or about to be; a slow tab
  delays nobody and a tab that goes takes nobody along; handles keep naming
  their own asset through the building of throwaway apps.

## 2. Modules

| Module | Models | Checked | Proved |
|---|---|---|---|
| `RemoteAdapter` | the asynchronous half of the C library | 7 invariants, 1 liveness property, refinement | all seven invariants and the safety of the refinement |
| `CompletionPromise` | abstract: what an asynchronous command promises | refined by `RemoteAdapter` | |
| `ClientRuntime` | the Rust runtime: accept, read, claim, present, tear down, drop | 5 invariants, 1 liveness property | all five invariants |
| `WgpuThreads` | the threads of a Rust server and what they block on | 4 invariants, 1 liveness property | all four invariants |
| `ClientExecutor` | the browser: command chain, promises, frames | as a part of `Session` | |
| `Session` | the C library's handles, devices and surfaces, composed with `ClientExecutor` over one socket | 6 invariants, 1 liveness property | all six invariants |
| `GameWorlds` | the game's runner, its render worlds and their record queues | 3 invariants, 1 liveness property | all three invariants, and when a tab can stop the game |
| `RenderAssets` | asset messages, extraction and preparation in several render worlds | 3 invariants, 1 action property | all four |
| `AssetServer` | the asset server shared by the game and its throwaway apps | 4 invariants | all four |
| `RemoteAdapterProofs`, `ClientRuntimeProofs`, `WgpuThreadsProofs`, `SessionProofs`, `GameWorldsProofs`, `RenderAssetsProofs`, `AssetServerProofs` | theorems about the module they name | | |
| `FoldLemmas` | what `FoldLeft` and `SetToSeq` come to, for the last three | | |

In every module the first section after the initial state holds *faulty
variants* of some definitions, each a bug the code could have. No specification
uses them: put in the place of the definition they are variants of, each makes
the property of `PROJECT.json`'s `mutants` fail.

### RemoteAdapter

The library is single-threaded (its users serialise calls), so nothing
interleaves but *calls within calls*: a library call suspended in an application
callback, and the library calls that callback makes. `frame[1..depth]` is the
stack of library calls under way, `frame[d].pc` names the place in the C
function where call `d` goes on, and `calling` says that it is in a callback.
The application may act when no call is under way or the innermost one is in a
callback (`AppInControl`); otherwise the library takes the next step. The
library calls that the library makes itself are one step with their caller where
no callback can run in between, and a frame of their own where one can:
`rw_send_envelope` on a severed adapter calls `AbandonRequests`, so `SendLast`
and `SendThen` push a frame for it.

| TLA+ | C |
|---|---|
| `requests`, `vsync_waits` | `adapter->requests`, `adapter->vsync_waits`; an entry is named by its future id. The C list of requests is LIFO and that of waits FIFO, so "first" is the largest or the smallest id |
| `frame[d].list` | the list an `AbandonRequests` has detached into a local variable |
| `connected` | `adapter->send != NULL` |
| `entry[id]` | the fields of `RwRequest` and `RwVsyncWait` that matter: type, the handle pinned, the present waited for; and, as history, how many presents were acknowledged when the wait was registered (`since`) |
| `map_state`, `refcount` | the same fields of `RemoteHandle` |
| `appRefs`, `calls` | history: references the application owns, calls of the callback |
| actions named like C functions | the handler, up to its first callback |
| `CallbackReturns`, `AbandonRequest`, `DetachWaits`, `AbandonWait`, `FireVsync`, `FinishUnmap`, `FinishPresent`, `Finish` | the rest of the handler, cut where callbacks run |

`NoOverdueWait` says that after an acknowledgement no wait is left whose present
has been acknowledged, but for those registered since: a wait registered too late
waits for the next acknowledgement (section 5).

Left out: names, payloads and error texts; the events of the client; commands
without a callback other than those that create or destroy a handle (each is one
send, which `CreateBuffer` and `Present` show); devices and surfaces (`Session`);
the references between buffer, device and adapter, so the objects themselves
never free the adapter here. A null callback is not modelled apart: the library
skips the call, which is a callback that does nothing.

`CompletionPromise` has two variables, the `status` of each command (unissued,
pending, called) and `severed`, and says that a command's callback is called
once, and that all pending ones are called in the end once the adapter is
severed. `RemoteAdapter` implements it under the mapping
that takes the ids below `next_future_id` as issued and those with a call as
called, and `~connected` as severed.

### ClientRuntime

Threads interleave here. What one thread does under the C lock is one step,
except a present, which increments an atomic counter between two C calls and is
three. `reader[id]` is the place of a connection's reader thread, from
`accepted` to `gone`; `mark_disconnected` is five steps, because each takes
another lock and other threads see what is between. Ownership is counted by
`Strong(id)`: the reader, the unclaimed queue, the application's handles and
the reference leaked into every pending vsync callback. On the C side, this
module sees of an adapter only whether it is severed (`connected`) and how many
vsync waits it holds (`waits`); `RemoteAdapter` is the module that says these
are completed once each, in order, and all of them by `Disconnect`.

Left out: the writer thread (a send to a dead socket is dropped and nobody
waits for it), `notify` and the condition variable (`WgpuThreads`), the HTTP
answers, addresses, the handshake timeout (it is one of the reasons of
`HangUp`).

### WgpuThreads

The finest grain of the project: a call is the sequence of locks it takes and
gives back, with the effects between them. `code[t]` is what thread `t` has
still to do, an instruction at a time; `SurfaceCall`, `MapAsync`, `Poll`,
`DropDevice`, `UncapturedError` and the others are the programs, each read off
one function of `api.rs` or of the runtime. `CLockAcquire` and `CLockDrop` are
`CLock::lock` and the guard's `drop`: a thread that finds the lock taken is put
into `queued` and looks again when it is woken, and another may have been
faster. `TestPredicate`, `GoToSleep` and `WakeUp` are the loop of `wait_until`,
whose test comes before the progress lock is taken. Application code is a
`Draw` that calls with a mutex of the application held, and a callback that
takes the same mutex; callbacks run on the thread the crate gives them.

`Poll` and `OnUncapturedError` borrow the device, and `DropDevice` is the drop of
the last reference to it. The program has one device at a time, so `Call` lets a
thread drop it only while no other one borrows it (`Borrows`), and borrow it only
when nobody is dropping it (`Drops`): Rust's ownership, which the compiler
enforces. A call after a drop is to the device requested next.
`ReplacesHandler` says whether an application sets a device's error handler a
second time; that is the one thing that breaks the lock order (section 5).

Left out: several devices at a time and several connections (their readers
compete for the same C lock; the programs are the same), the channel of the
writer thread, which is unbounded and never blocks, and the optional timeout of
`Device::poll`: only the untimed wait is modelled, which needs more to return.

### ClientExecutor and Session

`down` and `up` are the two directions of the web socket. The promise chain on
the client is FIFO and takes nothing out of order, so it is a part of `down`.
A command is an operation, the object it names and the request it carries:
`executeSync` operations run at once, `present` waits for the frame of the one
before it (`compositing`), a device request with requirements waits for the
browser, and maps, fetches, work-done and error scopes go on in the background
as `tasks`, which settle in any order, with any result, once.

The errors of the browser are those the code has:

| What fails | What the code does | TLA+ |
|---|---|---|
| `createBuffer` throws | nothing is stored and nobody is told; the buffer is missing for every later command | `FailBuffer`, `failed` |
| a map of a missing buffer | `mapBuffer` looks it up outside its `try`: the request is never answered | `MapBuffer`, `unseen` |
| `mapAsync` is refused | answered as failed | `MapRejects` |
| the copy after `mapAsync` fails | answered as failed, and the buffer stays mapped | `MapResolves`, `mapping = "taken"` |
| `getMappedRange` in `unmapBuffer`, of a range `mapBuffer` took | it throws and `unmap()` is not reached | `UnmapBuffer` |
| `onSubmittedWorkDone` or `getCompilationInfo` rejects, or the module is missing | no catch: the request is never answered | `AskRejects`, `unseen` |
| `popErrorScope`, a fetch | answered as failed | `AskSettles`, `LoadSettles` |
| a device request is refused | the chain's catch sends `Error` and closes the socket | `RefuseDevice` |

A device that was replaced stays watched, so `LoseDevice(g)` and `ReportLost(g)`
are of any device the browser handed out; `Losable` says which of them it may
take away by itself.

`Session` adds the server. Its requests are `RemoteAdapter`'s, seen from
outside: pending until answered or failed by the end of the connection. What it
looks at is what neither side can see alone: reference counts here against the
object table there (`owned`, `requests` against `objects`), `map_state` here
against `mapping` there, the device slot here against `gpu` there. A device is freed with
the last reference to it, which the application, an object, a request or the
surface may hold (`Referenced`), and forgotten with it (`ForgetFreed`), whoever
let go last; the application may release its handle at any time.

`UseObject` stands for the hundred and more calls that only name an object.
Callbacks do not call back in this module; that is `RemoteAdapter`'s subject.
A severed adapter sends nothing (`RemoteAdapter`), so after `Disconnect` the
calls of the application stop mattering.

### GameWorlds

One action per phase of the runner's loop, in its order: `Join` (harvest,
register, seed the queue, attach a view), `Departures`, `RunSchedule` (one step
of the simulation and the choice of the worlds that get a frame), `Extract(w)`
for each of them, `Update(w)` for each of them, `EndFrame`. Tabs connect,
acknowledge, fail and close between any two of these, as their reader threads
do. `queues`, `index` and `map` are `PendingSyncEntity.queues`, the worlds'
`SyncQueueIndex` and `MainToRenderEntityMap`; `rows` is the one row each main
entity has, which each world overwrites when it is extracted.

An entity is named by its kind and player, which keeps the entities that come
and go (views and score pips) and leaves out the scenery. Left out: removals of
components (`ComponentRemoved` records, which no entity that is not despawned
produces in this game), screenshots, recovery policies other than stopping,
movement and collisions.

### RenderAssets

The main world's `Assets<A>`, its queued events and the two buffers of
`Messages<AssetEvent>`; in each render world a cursor, the extracted copies, the
ones put off to a later frame, and the prepared versions. An asset's contents
are a version number. `MessageUpdate` drops the older buffer whether or not
everyone has read it; `Prepare(w)` may put off any of the copies, which is what
the byte budget and `RetryNextUpdate` do.

Left out: assets that live in the render world alone (`take_gpu_data`: the first
world takes the data, `render_asset.rs:337`), an asset whose preparation fails
for good (`AsBindGroupError`), worlds that leave, the extraction of shaders.

### AssetServer

For one asset type: the allocator (`next_index`, `recycled`), the storage, the
server's `infos` and `path_to_index`, strong handles, the drop events that wait,
load tasks and their results. For the loaders: the table with its reserved
slots. A throwaway app registers providers of its own with the server
(`provider = "dead"`) and pushes its loaders again; `Harvest` restores the
registrations. `DenseAssetStorage::flush` happens at once, since nothing looks
in between. While a throwaway is built its plugins load shaders by path
(`bevy_render/src/lib.rs:355`, `sparse_buffer_vec.rs:314`); the app's first render
world loaded the same ones, keeps their handles and is never removed
(`main.rs:450`), so `Load` is possible then for a path with a handle. Such a load
mints no id.

Left out: several asset types and `get_strong_handle`, labeled assets,
dependencies, hot reload, and what a load task may ask of the server while a
throwaway app is being built: a path that is new would get an id of the allocator
that is about to go (`main.rs:314`, a hazard without a property).

## 3. Runs

| Run | Instance | Question |
|---|---|---|
| `adapter_reentrancy` | 1 buffer, 1 texture, 3 commands (map, texture load, vsync wait), 2 presents, 2 references per handle, calls nested 3 deep | are callbacks called exactly once, is a severed adapter quiet, do vsync waits complete in order and on time, are map states and reference counts exact |
| `adapter_liveness` | 1 buffer, 1 texture, work-done, 2 commands, 2 presents, nesting 2 | does the library implement `CompletionPromise`, its liveness included; is a wait registered in time completed |
| `runtime_lifecycle` | 2 connections for 1 place, 2 application threads, 2 events for an event queue of 1, 1 present | counters, ownership, safe freeing, `Disconnected` kept, clients freed in the end |
| `threads` | 2 application threads, the reader, the callback thread; 2 calls, 2 messages | is the lock handed over, does nobody wait in a cycle, does every call return |
| `session` | 1 buffer, 1 fetched texture, 1 surface texture, 1 device handle over 2 devices of the browser; 5 commands, 2 requests, 2 commands under way | do names resolve, is nothing left behind, do both sides agree, is each request answered that can be and each frame counted |
| `game` | 3 tabs, 1 frame in flight; one tab attentive and scoring, one with GPU errors | do worlds show the scene, do queues belong to worlds, is nobody delayed by a slow tab |
| `render_assets` | 3 worlds, 2 of which join late, 1 asset with 2 versions | do the last contents of an asset reach each world that is not starved, and never an older version after a newer |
| `assets` | 2 paths, 2 loaders (one with a reserved slot), 2 indices, 2 generations, 2 joins, 2 drops waiting | does each handle keep naming its own asset, does nothing leak, does the table of loaders stay put |
| `session_destroy`, `session_unmap`, `threads_handler`, `game_early_close` | smallest that shows it | what the code or its documentation says and the code does not keep (section 5) |

`CHECK_DEADLOCK FALSE` stands where the system really stops when the bounds on
commands, calls, joins or connections are used up and nothing is left to do:
everywhere but in `game` and `render_assets`, whose loops never end.

**Bounds.** `MaxFuture` bounds the commands with a callback ever issued,
`MaxPresents` the presents, `MaxDepth` the nesting at which the application
still makes calls (the library itself may then add two levels, `Levels`),
`MaxRefs` the application's references on a handle. Three commands suffice for a
command pending, one being failed and one issued by its callback; nesting three
for an abort inside an abort inside a reply; two presents for a wait on each; two
references for a release that is and one that is not the last. Commands that
hold no handle (work-done) are in the smaller instance only: their handler does
less than that of a texture load.
In `ClientRuntime`, two connections are enough to compete for the registry and
the limit, two threads for two handles on one client being dropped at once, and
two events for a queue of one to overflow before `Disconnected`.
In `WgpuThreads`, `MaxCalls` and `MaxEvents` bound the calls and the messages
that answer nothing: two of each put all four threads into programs with locks
at once, which is as many as there are locks in a cycle and one more.
In `Session`, `MaxCalls` bounds all commands and `MaxDown` those on their way:
five are a create, a map, a release, a create and a present; two under way are a
command overtaken by an answer. One device handle suffices there because two of
them are what `session_destroy` is about. `Losable = {2}` lets the browser take
away the second device only, the first being destroyed by the application or not
at all; the proofs leave it open.
In `GameWorlds`, three tabs are one that is drawn, one that lags and one that
comes or goes; a limit of one frame (the code's is three) makes a tab lag after
its first. `Scorers` and `ErrorProne` name the players that may score and the
tabs whose GPU may fail, to keep the instance small.
In `RenderAssets`, two versions are one stale and one current, and counting
skipped updates ends at two because two are what drops a message
(`Starved`). In `AssetServer`, two indices and two generations recycle an index
while its former id is still in a drop event or a load result.

**Fairness.**
`RemoteAdapter`: the library runs on when it has a step to do (weak fairness of
`Library`: it is straight-line code) and a callback returns in the end (strong
fairness of `CallbackReturns(d)`, as the calls the callback makes disable it
meanwhile; a callback makes finitely many). Nothing is assumed of the client,
except in `AwaitedVsyncFires`, whose premise `ClientShowsFrames` is strong
fairness of `handle_present_done`: the client acknowledges presents, which is what a browser's `requestAnimationFrame` does while its tab
is shown.
`ClientRuntime`: a thread finishes a teardown, a drop or a present it has begun,
and the application lets go of its handles in the end. No peer has to connect,
speak or hang up.
`WgpuThreads`: threads run on, the timeout of a wait comes, and the client
answers its requests or hangs up (`poll` has no timeout of its own). Nothing is
assumed about who of several competitors gets a lock: calls and messages are
bounded, so a thread is overtaken finitely often.
`Session`: the browser's chain, promises and frames go on while the tab is
shown, and the server reads its socket. Nothing makes the application call or
the connection end.
`GameWorlds`: the runner goes on and the attentive tabs acknowledge; of other
tabs nothing is assumed.

## 4. Proofs

Proved for every value of the constants, from the named `ASSUME` of each module
alone (such as `RemoteAdapterAssumption`: `None` is no handle, the sets of
handles are disjoint, the bounds are numbers; that of `AssetServer` has the loader
types finite, as the types linked into a program are). TLC evaluates these in
every run.

**`RemoteAdapterProofs`**: `TypeCorrect`, `CallbacksExactlyOnce`,
`SeveredIsQuiet`, and, as a lemma of theirs, `Invariance` of
`IInv == TypeOK /\ StackOK /\ ExactlyOnce /\ QuietWhenSevered`, from which they
follow. `ExactlyOnce` is not inductive alone: that calling the head of a detached
list calls nobody twice needs that no id is on two lists, and that ids are listed
only once issued; that the stack stays within `Levels` needs that the deepest
call owes no release (`StackOK`); and a severed adapter that kept requests queued
would detach them on top of a full stack (`QuietWhenSevered`). One lemma per part
of a call that several actions share (pushing a call, returning from one,
sending, issuing, taking a reply), then one step per action.

`WaitsInOrder` and `WaitsInTime`: the invariant `WInv` adds to `IInv` that waits
are sorted by the present they are for (`WaitsSorted`). A `PresentDone` that
stops at the oldest wait left then leaves no later one behind; that there is an
oldest one is well-foundedness of `<`.

`ReferencesCounted` and `PendingIsOutstanding`: `HInv` adds that an object that
was never created has no references and which kind of request holds which kind
of handle. Two facts carry it. An id is outstanding exactly while it is issued
and not called (from `ExactlyOnce`), so moving it between lists changes no
count. An `Unmap` suspended in its send has no map request of its buffer
detached below it (`UnmapAlone`), so its late assignment of the map state
overwrites no `Pending`.

`ImplementsPromise`, `Spec => Promise!Safe`: each step of the library issues or
calls one command, refuses one, severs, or is a stutter of `CompletionPromise`.

**`ClientRuntimeProofs`**: `TypeCorrect`, `ConnectionsCounted`, `FramesCounted`,
`FreedSafely`, `LastEventKept`. Besides these properties the invariant says that
the accept thread lets in only below the limit (`LimitKept`), who has the C lock
and for which client (`LockHeld`), that who presents has a handle
(`PresentersHold`), up to where a reader keeps its adapter connected
(`ConnectedOwned`) and its client listed (`ListedOwned`). `LastEventKept` adds
that an unread `Disconnected` is the last event of the queue (`LastEvents`): the
bound drops events from the front.

**`WgpuThreadsProofs`**: `TypeCorrect`, `LockCounted`, `LockHandedOver`, and
`NoDeadlock`, which assumes `~ReplacesHandler`. The programs of the threads are
sequences, so the proof is about what is closed under concatenation, under
taking a lock around a program, and under going on to its rest. `Guarded`: from
no place on does a program drop fewer guards than it takes, and what it has to
drop is the depth of the lock if its thread owns it, else nothing. `SleepersWait`:
sleepers on the C lock still want it, and while any sleeps the lock is owned or
someone is awake to take it. `Ordered`: a mutex of the application and the table
of surfaces are taken before the C lock, the table of handlers after it, and who
has that table takes no other lock. In a cycle of waiting threads everyone has
what another wants, which the order excludes; the theorem looks at cycles of any
length.

**`SessionProofs`**: `TypeCorrect`, `NamesAlwaysResolve`, `NoneOrphaned`,
`MapsAlwaysAgree`, `RequestsTracked`, `FramesAlwaysCounted`. The properties speak
of the two ends; the invariant speaks of every command and answer between them,
by its place in `down` or `up`. `Tracked`: a request is in one of the directions,
with one task or among the rejections nobody sees, no number is in two places,
and `NoneLost` says it is in one as long as the socket is there. `Pins`: a buffer is pending exactly while a request
holds it. `Lives`: what the browser has is held by the server or a command that
drops it is on its way, as the last word about it. `Bufs` and `Texs`: a command
that names a buffer comes after the one that makes it or fails to; a texture is in the table
when its load is answered. `Mapped` is why an answer finds the map state it
assumes: between a map command and its answer there is nothing in `down` that
unmaps, or the request is no longer the buffer's. Taking a command off `down`
moves every place by one, so the proof looks at sequences through a few views
(`Indices`, `SentAt`, `Executed`) and has one lemma per kind of step and part.
`FramesCounted` needs nothing but itself and the types.

**`FoldLemmas`**. A fold over a sequence is a function that is chosen by its
equation, and the library's induction theorems take an operator as a parameter,
which the provers cannot instantiate. `Reaches` is induction over a set instead
(from well-foundedness), `RunExists` and `FoldExists` give a function that
satisfies the equation of `FoldLeft`, and `Prefix` the prefixes by which a proof
follows the fold through the sequence.

**`GameWorldsProofs`**: `TypeCorrect`; `QueuesKeptApart`, by
`QInv == Roster /\ Indexed` (an index is never given to a second world, and a
queue is open exactly while a world of the app has it); `FramesPaced`, a frame is
rendered only while fewer than the limit are in flight, although the test is made
before all extractions; `OnlyEarlyCloseStops`: under `~TabsCloseEarly` no tab
stops the game, so the window of the finding in section 5 is the only one; and
`WorldsShowTheScene`. The last one rests on what a world has been told: what it
has mapped, followed by its queue, comes to the entities of the scene
(`ToldTheScene`). `After` is the closed form of applying a queue, the last record
about an entity being what counts; applying the queue (`ApplyRecord` by
`FoldLeft`), adding to it, and seeding it for a late joiner are each shown to
agree with it.

**`RenderAssetsProofs`**: `TypeCorrect`, `VersionsStayOrdered`, `NeverGoesBack`,
`AssetsArrive`, `UnusedAssetsAreFreed`. What a world has is no newer than what it
waits with, that no newer than what it has extracted, and that no newer than the
asset (`VersionsOrdered`); that looks at no message, so `NeverGoesBack` holds
whatever a world misses. The last two are about a world that was not skipped for
two updates. Their invariant `RInv` says which worlds are due or drawing and that
what a world extracted in this frame is the current version (`Posted`, `Framed`),
that no event and no extraction says "unused" of an asset that was not dropped
(`Silent`), and that of every asset a world has the last version or waits with it,
or has it extracted, or has an event about it queued or ahead of its cursor, and
the same of a dropped asset it is still to free (`AllInformed`). `NewsOf`
is the closed form of reading events (`ReadEvent` by `FoldLeft`): the last event
about an asset decides.

**`AssetServerProofs`**: `TypeCorrect`, `HandlesKeepTheirAsset`,
`DroppedAssetsAreRemoved`, `LoadersKeepTheirSlot`.
The table of loaders (`TableInv`): slots and types are in bijection, so there are
as many as types; pushing or reserving keeps it for one type, and so for any
sequence of them (`PushAll`, `ReserveAll`).
The ids (`IdInv`, of which `Good` is the part about data): an index is spare, in
the list of recycled ones once, or has an entry (`Spare`); infos, paths and
entries tell of the same assets (`Mapped`); a handle, and one whose drop waits,
names a live entry made for what the handle was made for (`Named`); of a live id
as many drops wait as its info says to skip, plus one if there is no handle
(`Counted`); and a late result names an older generation or its own asset
(`Stale`). `Good` has a parameter for how many drops are read, since
`track_assets` reads them one after the other and each may remove an asset the
next one names; it holds between any two (`DropProcessed`). `ResultsApplied` says
the same of the results, which change load states and values alone (`Revises`).

Only model-checked: liveness (`KeepsPromise`'s second half, `AwaitedVsyncFires`,
`Released`, `CallsReturn`, `Answered`, `SlowTabsDelayNobody`), which is out of
the prover's reach. Every invariant and action property of the runs that pass is
stated by a theorem. The invariants the proofs add were checked by TLC on the
runs' instances before they were proved.

## 5. Where the documentation and the code differ

Four runs end with a counterexample.

* `session_destroy` (`DestroyedDeviceIsLost`): `DestroyDevice` and `DeviceLost`
  name no device. A device requested before the answer to a destroy arrives is
  reported as lost, and the destroyed one never is
  (`remote_methods.c:1078` says its lost callback fires).
* `session_unmap` (`UnmapUnmaps`): to answer a write map, `mapBuffer` takes the
  buffer's range (`executor.ts:1026`); `unmapBuffer` asks for it again before it
  unmaps (`executor.ts:367`), which throws where nobody looks. The writes are
  lost and the buffer stays mapped in the browser, although the library has it
  unmapped (`executor.ts:1024`, `remote_webgpu.proto:905` say it is unmapped
  then).
* `threads_handler` (`NoWaitCycle`): `on_uncaptured_error` drops the handler it
  replaces while it holds the table of handlers (`api.rs:1175`). A handler that
  owns a handle then wants the C lock, while the reader, in `uncaptured_error_cb`,
  has the C lock and wants the table (`docs/client-lifetime-leak.md:129`,
  `api.rs:151` warn of this).
* `game_early_close` (`TabsDoNotStopTheGame`): a tab that closes after its world
  is chosen for a frame and before its first surface ends the server in an
  `expect` (`bevy_render/src/view/window/mod.rs:398`).

Met while modelling; the models contain the behaviour and no run is spent on it:

* A vsync wait registered after the acknowledgement of its present does not
  complete before another present is acknowledged (`remote.h:192`).
* A wait registered in a callback of an aborting adapter is completed before
  older ones (`remote.h:196`).
* A world that skips frames for two message updates misses asset events until
  another player joins (`bevy_render/src/render_asset.rs:303`). No document says
  otherwise, so the properties of `RenderAssets` are about worlds that are not
  starved.
* A request whose promise has no catch, or that maps a buffer the browser could not
  create, stays pending until the connection ends (`executor.ts:327`, `875`,
  `1018`). `RequestTracked` and `Answered` say that these are the only ones.
* The protocol calls the reply to a write map empty; the client sends the range
  of both kinds (`remote_webgpu.proto:887`, `executor.ts:1026-1027`), which is how
  it comes to take it.
* After `AbandonRequests` a connected adapter may hold what the callbacks issued
  ("just empty", `remote.h:62`).
* A disconnected client can be claimed for a few steps, and is off the registry
  before its `Disconnected` event is queued
  (`remote-wgpu-runtime/tests/client_lifetime.rs:32-37` asks for the opposite
  without waiting).
* `clients()` is in the order handshakes end
  (`lib.rs:1069`: connection order).
* `wgpu/src/api.rs:3` and `:2014` say that callbacks fire on the reader thread;
  they are handed to the callback thread.

## 6. Not modelled, and the plan

Not modelled:

* The `winit` crate: one thread that polls the events `ClientRuntime` queues and
  sleeps as `WgpuThreads`' `wait_until` does, with another timeout.
* Limits and clamping (pure functions of one comparison each), forwarded
  addresses (a parser whose result is only logged), the handshake (two messages
  before everything else), `UncapturedError` on the wire (a message without
  state; its handler is in `WgpuThreads`).
* The ring of completed futures: `wgpuInstanceWaitAny` is its only reader and
  nothing in the repository calls it.
* The encoding calls, each one message built from its arguments; `UseObject` in
  `Session` stands for them.
* Writer threads, static files, traffic statistics: I/O nobody waits for.
* The example server, generated protobuf, FFI and stubs, the end-to-end tests
  and fuzzers.
* Upstream Bevy: the forks in `rust/bevy_asset`, `rust/bevy_render` and others
  are some 50 000 lines taken from upstream, most of the lines of the
  repository. Modelled are the parts the repository changed or leans on to drive
  several render worlds from one simulation. The rest (batching, phases, slab
  allocation, the asset processor) is the upstream engine's own, and is out of
  the subject of this directory; that is why the models stand for a small part
  of the lines and most of what the repository itself adds.

Plan, in order:

1. Load tasks that ask for assets that are new while a throwaway app is built
   (`main.rs:314`).
2. An abstract specification of `Session`: commands take effect in the order
   they were issued.
3. The event loop of the `winit` crate on top of `ClientRuntime`.
