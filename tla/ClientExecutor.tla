---------------------------- MODULE ClientExecutor ----------------------------
(***************************************************************************)
(* The browser side of a session (client/src/index.ts, executor.ts): one   *)
(* promise chain takes the server's commands in order; most of them run    *)
(* at once and are not awaited, while a present waits for the animation    *)
(* frame of the one before it and a device request waits for the browser.  *)
(* What a command leaves running in the background (a map, a fetch, a      *)
(* work-done) settles in any order.  What a command that is not awaited    *)
(* throws, and what a promise without a catch rejects with, nobody sees.   *)
(*                                                                         *)
(* The web socket and the promise chain are both FIFO and nothing is taken *)
(* from between them, so they are one sequence, down.                      *)
(***************************************************************************)
EXTENDS Integers, Sequences, FiniteSets

CONSTANTS
    Buffers, Textures, Frames,  \* object ids: buffers, fetched and surface textures
    NoObject,                   \* the object of a command that names none
    MaxGpus,                    \* bound on the devices the browser hands out
    Losable                     \* the devices it may take away again

Objects == Buffers \cup Textures \cup Frames

ASSUME ClientExecutorAssumption ==
    /\ NoObject \notin Objects
    /\ Buffers \cap Textures = {} /\ Frames \cap (Buffers \cup Textures) = {}
    /\ MaxGpus \in Nat \ {0} /\ Losable \subseteq 1 .. MaxGpus

VARIABLES
    down,           \* commands sent and not executed yet
    up,             \* replies sent and not received yet
    objects,        \* CommandExecutor.objects: the ids it has an object for
    mapping,        \* GPUBuffer.mapState, or "destroyed"; "taken" is mapped, with
                    \* its range handed out
    gpu,            \* CommandExecutor.device
    dead,           \* devices that are destroyed or lost
    losing,         \* those whose device.lost has not told the server yet
    surfaceTexture, \* whether the offscreen surface texture exists
    compositing,    \* previousPresent is not resolved yet
    tasks,          \* commands whose promise is not settled yet
    failed,         \* history: buffers whose createBuffer threw
    unseen,         \* history: requests that ended in a rejection nobody sees
    closed          \* ws.close() has been called, or the socket is gone

tableVars == <<objects, mapping, failed>>
taskVars == <<tasks, unseen>>
gpuVars == <<gpu, dead, losing>>
frameVars == <<surfaceTexture, compositing>>
clientVars == <<tableVars, taskVars, gpuVars, frameVars, closed>>

Ops == {"requestDevice", "requestDeviceWith", "destroyDevice", "createBuffer",
        "createMappedBuffer", "mapRead", "mapWrite", "unmap", "destroyResource",
        "destroyObject", "loadTexture", "ask", "popErrorScope", "configure",
        "unconfigure", "acquire", "use", "present"}
Cmd(op, object, req) == [op |-> op, object |-> object, req |-> req]
Answer(op, req, ok) == [op |-> op, req |-> req, ok |-> ok]

\* RemoteGpuClient.send: a closed socket swallows what is sent.
Send(messages) == up' = IF closed THEN up ELSE up \o messages

ClientInit ==
    /\ objects = {}
    /\ mapping = [b \in Buffers |-> "unmapped"]
    /\ gpu = 1
    /\ dead = {}
    /\ losing = {}
    /\ surfaceTexture = FALSE
    /\ compositing = FALSE
    /\ tasks = {}
    /\ failed = {}
    /\ unseen = {}
    /\ closed = FALSE

-----------------------------------------------------------------------------
(* Faulty variants of definitions below, each a bug the code could have.   *)
(* No specification uses them; they show which property would notice.      *)

\* A present does not wait for the frame of the one before it.
PresentOverlaps ==
    /\ down # <<>> /\ Head(down).op = "present"
    /\ down' = Tail(down)
    /\ compositing' = TRUE
    /\ UNCHANGED <<up, tableVars, taskVars, gpuVars, surfaceTexture, closed>>

\* A map the browser refuses rejects a promise without a catch.
MapRejectsUncaught(t) ==
    /\ mapping' = [mapping EXCEPT ![t.object] = IF @ = "pending" THEN "unmapped" ELSE @]
    /\ unseen' = unseen \cup {t.req}
    /\ UNCHANGED <<up, objects>>

\* So does a fetch that fails.
LoadSettlesUncaught(t, ok) ==
    /\ t.op = "loadTexture"
    /\ objects' = IF ok THEN objects \cup {t.object} ELSE objects
    /\ unseen' = IF ok THEN unseen ELSE unseen \cup {t.req}
    /\ IF ok THEN Send(<<Answer("load", t.req, TRUE)>>) ELSE up' = up
    /\ UNCHANGED mapping

-----------------------------------------------------------------------------
(* Commands.                                                               *)

Executes(op) ==
    /\ down # <<>>
    /\ Head(down).op = op
    /\ down' = Tail(down)

Command == Head(down)

\* A command that names an object the table does not have throws; executeSync
\* is not awaited, so the chain goes on and nobody is told.
Known(object) == object \in objects

\* The offscreen texture is copied into the canvas when there is one.
Present ==
    /\ Executes("present")
    /\ ~compositing
    /\ compositing' = TRUE
    /\ UNCHANGED <<up, tableVars, taskVars, gpuVars, surfaceTexture, closed>>

\* Without features or limits the device of the handshake stays in use.
RequestDevice ==
    /\ Executes("requestDevice")
    /\ UNCHANGED <<up, clientVars>>

\* The device it replaces stays watched.
RequestDeviceWith ==
    /\ gpu < MaxGpus
    /\ Executes("requestDeviceWith")
    /\ gpu' = gpu + 1
    /\ surfaceTexture' = FALSE
    /\ UNCHANGED <<up, tableVars, taskVars, dead, losing, compositing, closed>>

\* The browser refuses: the chain's catch reports it and closes the socket,
\* and the commands behind it still run.
RefuseDevice ==
    /\ Executes("requestDeviceWith")
    /\ Send(<<Answer("error", 0, FALSE)>>)
    /\ closed' = TRUE
    /\ UNCHANGED <<tableVars, taskVars, gpuVars, frameVars>>

DestroyDevice ==
    /\ Executes("destroyDevice")
    /\ dead' = dead \cup {gpu}
    /\ losing' = IF gpu \in dead THEN losing ELSE losing \cup {gpu}
    /\ UNCHANGED <<up, tableVars, taskVars, gpu, frameVars, closed>>

CreateBuffer(op, state) ==
    /\ Executes(op)
    /\ objects' = objects \cup {Command.object}
    /\ mapping' = [mapping EXCEPT ![Command.object] = state]
    /\ UNCHANGED <<up, failed, taskVars, gpuVars, frameVars, closed>>

\* createBuffer throws, of a size it cannot allocate or take: nothing is stored.
FailBuffer(op) ==
    /\ Executes(op)
    /\ failed' = failed \cup {Command.object}
    /\ UNCHANGED <<up, objects, mapping, taskVars, gpuVars, frameVars, closed>>

\* The lookup is outside the try: a map of an unknown buffer is not answered.
MapBuffer(op) ==
    /\ Executes(op)
    /\ LET b == Command.object IN
          IF Known(b)
          THEN /\ tasks' = tasks \cup {Command}
               /\ mapping' = [mapping EXCEPT ![b] = IF @ = "unmapped" THEN "pending" ELSE @]
               /\ UNCHANGED unseen
          ELSE unseen' = unseen \cup {Command.req} /\ UNCHANGED <<tasks, mapping>>
    /\ UNCHANGED <<up, objects, failed, gpuVars, frameVars, closed>>

\* The server's bytes, when it sends any, go into the mapped range first.  A
\* range that was handed out before is not handed out again: getMappedRange
\* throws, and unmap() is not reached.
UnmapBuffer ==
    /\ Executes("unmap")
    /\ \E copies \in BOOLEAN :
          mapping' = [mapping EXCEPT ![Command.object] =
                         IF Known(Command.object) /\ @ # "destroyed" /\ ~(@ = "taken" /\ copies)
                         THEN "unmapped" ELSE @]
    /\ UNCHANGED <<up, objects, failed, taskVars, gpuVars, frameVars, closed>>

Destroyed(object) ==
    IF Known(object) /\ object \in Buffers
    THEN [mapping EXCEPT ![object] = "destroyed"] ELSE mapping

DestroyResource ==
    /\ Executes("destroyResource")
    /\ mapping' = Destroyed(Command.object)
    /\ UNCHANGED <<up, objects, failed, taskVars, gpuVars, frameVars, closed>>

DestroyObject ==
    /\ Executes("destroyObject")
    /\ mapping' = Destroyed(Command.object)
    /\ objects' = objects \ {Command.object}
    /\ UNCHANGED <<up, failed, taskVars, gpuVars, frameVars, closed>>

\* onSubmittedWorkDone and getCompilationInfo, popErrorScope, loadTextureFromUrl.
StartTask(op) ==
    /\ Executes(op)
    /\ tasks' = tasks \cup {Command}
    /\ UNCHANGED <<up, tableVars, unseen, gpuVars, frameVars, closed>>

\* Without a canvas, a context or a format it throws and changes nothing.
ConfigureSurface ==
    /\ Executes("configure")
    /\ surfaceTexture' \in {surfaceTexture, TRUE}
    /\ UNCHANGED <<up, tableVars, taskVars, gpuVars, compositing, closed>>

SurfaceUnconfigure ==
    /\ Executes("unconfigure")
    /\ surfaceTexture' = FALSE
    /\ UNCHANGED <<up, tableVars, taskVars, gpuVars, compositing, closed>>

GetCurrentTexture ==
    /\ Executes("acquire")
    /\ objects' = IF surfaceTexture THEN objects \cup {Command.object} ELSE objects
    /\ UNCHANGED <<up, mapping, failed, taskVars, gpuVars, frameVars, closed>>

\* Every other command: it reads the table and makes GPU calls.
Use ==
    /\ Executes("use")
    /\ UNCHANGED <<up, clientVars>>

-----------------------------------------------------------------------------
(* The browser.                                                            *)

AnimationFrame ==
    /\ compositing
    /\ compositing' = FALSE
    /\ Send(<<Answer("presentDone", 0, TRUE)>>)
    /\ UNCHANGED <<down, tableVars, taskVars, gpuVars, surfaceTexture, closed>>

\* The GPU resets, or the browser takes a device away, replaced or not.
LoseDevice(g) ==
    /\ g \in (1 .. gpu \cap Losable) \ dead
    /\ dead' = dead \cup {g}
    /\ losing' = losing \cup {g}
    /\ UNCHANGED <<down, up, tableVars, taskVars, gpu, frameVars, closed>>

\* device.lost settles: the message does not say which device it is about.
ReportLost(g) ==
    /\ g \in losing
    /\ losing' = losing \ {g}
    /\ Send(<<Answer("deviceLost", 0, TRUE)>>)
    /\ UNCHANGED <<down, tableVars, taskVars, gpu, dead, frameVars, closed>>

MapRejects(t) ==
    /\ mapping' = [mapping EXCEPT ![t.object] = IF @ = "pending" THEN "unmapped" ELSE @]
    /\ Send(<<Answer("map", t.req, FALSE)>>)
    /\ UNCHANGED <<objects, unseen>>

\* The range is copied and a read map given back; a write map stays until
\* UnmapBuffer, and so does a map of either kind whose copy fails.
MapResolves(t, copied) ==
    /\ mapping[t.object] = "pending"
    /\ mapping' = [mapping EXCEPT ![t.object] =
                      IF copied /\ t.op = "mapRead" THEN "unmapped" ELSE "taken"]
    /\ Send(<<Answer("map", t.req, copied)>>)
    /\ UNCHANGED <<objects, unseen>>

MapSettles(t) ==
    /\ t.op \in {"mapRead", "mapWrite"}
    /\ MapRejects(t) \/ \E copied \in BOOLEAN : MapResolves(t, copied)

LoadSettles(t, ok) ==
    /\ t.op = "loadTexture"
    /\ objects' = IF ok THEN objects \cup {t.object} ELSE objects
    /\ Send(<<Answer("load", t.req, ok)>>)
    /\ UNCHANGED <<mapping, unseen>>

\* popErrorScope has a catch that answers; the other two have none.
AskSettles(t) ==
    /\ t.op \in {"ask", "popErrorScope"}
    /\ Send(<<Answer(t.op, t.req, TRUE)>>)
    /\ UNCHANGED <<objects, mapping, unseen>>

AskRejects(t) ==
    /\ t.op = "ask"
    /\ unseen' = unseen \cup {t.req}
    /\ UNCHANGED <<up, objects, mapping>>

Settle(t) ==
    /\ tasks' = tasks \ {t}
    /\ \/ MapSettles(t) \/ AskSettles(t) \/ AskRejects(t)
       \/ \E ok \in BOOLEAN : LoadSettles(t, ok)
    /\ UNCHANGED <<down, failed, gpuVars, frameVars, closed>>

-----------------------------------------------------------------------------
Execute ==
    \/ Present \/ RequestDevice \/ RequestDeviceWith \/ RefuseDevice \/ DestroyDevice
    \/ CreateBuffer("createBuffer", "unmapped") \/ FailBuffer("createBuffer")
    \/ CreateBuffer("createMappedBuffer", "mapped") \/ FailBuffer("createMappedBuffer")
    \/ MapBuffer("mapRead") \/ MapBuffer("mapWrite") \/ UnmapBuffer
    \/ DestroyResource \/ DestroyObject
    \/ StartTask("ask") \/ StartTask("popErrorScope") \/ StartTask("loadTexture")
    \/ ConfigureSurface \/ SurfaceUnconfigure \/ GetCurrentTexture \/ Use

Client ==
    \/ Execute \/ AnimationFrame
    \/ \E g \in 1 .. gpu : LoseDevice(g) \/ ReportLost(g)
    \/ \E t \in tasks : Settle(t)
=============================================================================
