----------------------------- MODULE SessionProofs -----------------------------
(***************************************************************************)
(* Invariants of a session, for any number of objects, requests and        *)
(* commands under way.                                                     *)
(***************************************************************************)
EXTENDS Session, FiniteSetTheorems, TLAPS

-----------------------------------------------------------------------------
(* What is on the wire.                                                    *)

D == 1 .. Len(down)
U == 1 .. Len(up)

MapOps == {"mapRead", "mapWrite"}
QuestionOps == {"ask", "popErrorScope"}
AskOps == {"mapRead", "mapWrite", "loadTexture", "ask", "popErrorScope"}
AnswerOps == {"map", "load", "ask", "popErrorScope"}
CreateOps == {"createBuffer", "createMappedBuffer"}
BufferOps == {"createBuffer", "createMappedBuffer", "mapRead", "mapWrite", "unmap",
              "destroyResource"}
Commands == [op : Ops, object : Objects \cup {NoObject}, req : 0 .. MaxRequests]
Replies == [op : AnswerOps \cup {"deviceLost", "presentDone", "error"},
            req : 0 .. MaxRequests, ok : BOOLEAN]
CallsType == [issued : Nat, requests : 0 .. MaxRequests, sent : Nat, done : Nat]

\* A command names what its operation is about; the n requests made so far
\* have numbers.
WellFormed(c, n) ==
    /\ c.op \in Ops /\ c.object \in Objects \cup {NoObject}
    /\ c.req \in 0 .. n
    /\ c = Cmd(c.op, c.object, c.req)
    /\ c.op \in AskOps <=> c.req # 0
    /\ c.op \in BufferOps => c.object \in Buffers
    /\ c.op = "loadTexture" => c.object \in Textures
    /\ c.op = "acquire" => c.object \in Frames
    /\ c.op \in QuestionOps => c.object = NoObject

\* The answer to a request.
Kind(op) == IF op \in MapOps THEN "map" ELSE IF op = "loadTexture" THEN "load" ELSE op

Tasks == \A t \in tasks : WellFormed(t, calls.requests) /\ t.op \in AskOps
Pending == \A r \in requests : WellFormed(r, calls.requests) /\ r.op \in AskOps
Downs == \A i \in D : WellFormed(down[i], calls.requests)
Ups == \A i \in U : up[i].op \in AnswerOps <=> up[i].req # 0
Over == ~connected => /\ down = <<>> /\ up = <<>> /\ requests = {} /\ closed /\ ~compositing
                      /\ tasks = {}
Given == owned \subseteq issued /\ \A r \in requests : r.object \in issued \cup {NoObject}

Shaped == calls \in CallsType /\ Tasks /\ Pending /\ Downs /\ Ups /\ Over /\ Given

Routed ==
    /\ held \cup lost \cup destroyed \subseteq Devices
    /\ of \in [Objects -> Devices \cup {NoDevice}] /\ surface \in Devices \cup {NoDevice}
    /\ lost_device \in Referenced \cup {NoDevice}
    /\ owned \subseteq Objects /\ owned \subseteq issued

Typed == TypeOK /\ Shaped

\* One step of a channel, element by element.
Sent(c) ==
    /\ Len(down') = Len(down) + 1 /\ down' \in Seq(Commands) /\ c \in Commands
    /\ \A i \in D : down'[i] = down[i]
    /\ down'[Len(down) + 1] = c

Executed ==
    /\ Len(down) > 0 /\ Len(down') = Len(down) - 1 /\ down' \in Seq(Commands)
    /\ \A i \in 1 .. Len(down') : down'[i] = down[i + 1]
    /\ Command = down[1]

Replied(a) ==
    /\ Len(up') = Len(up) + 1 /\ up' \in Seq(Replies) /\ a \in Replies
    /\ \A i \in U : up'[i] = up[i]
    /\ up'[Len(up) + 1] = a

Heard ==
    /\ Len(up) > 0 /\ Len(up') = Len(up) - 1 /\ up' \in Seq(Replies)
    /\ \A i \in 1 .. Len(up') : up'[i] = up[i + 1]
    /\ Head(up) = up[1]

LEMMA Lengths ==
    ASSUME TypeOK
    PROVE  /\ Len(down) \in Nat /\ Len(up) \in Nat
           /\ \A i \in D : down[i] \in Commands
           /\ \A i \in U : up[i] \in Replies
           /\ down = <<>> <=> Len(down) = 0
           /\ up = <<>> <=> Len(up) = 0
<1>1. down \in Seq(Commands) /\ up \in Seq(Replies)
  BY DEF TypeOK, Commands, Replies, AnswerOps
<1> QED BY <1>1 DEF D, U

LEMMA AppendView ==
    ASSUME NEW S, NEW s \in Seq(S), NEW c \in S
    PROVE  /\ Append(s, c) \in Seq(S) /\ Len(Append(s, c)) = Len(s) + 1
           /\ \A i \in 1 .. Len(s) : Append(s, c)[i] = s[i]
           /\ Append(s, c)[Len(s) + 1] = c
           /\ s \o <<c>> = Append(s, c)
OBVIOUS

LEMMA TailView ==
    ASSUME NEW S, NEW s \in Seq(S), s # <<>>
    PROVE  /\ Tail(s) \in Seq(S) /\ Len(Tail(s)) = Len(s) - 1 /\ Len(s) > 0
           /\ \A i \in 1 .. Len(s) - 1 : Tail(s)[i] = s[i + 1]
           /\ Head(s) = s[1]
OBVIOUS

LEMMA SentView ==
    ASSUME TypeOK, NEW c \in Commands, down' = Append(down, c)
    PROVE  Sent(c)
BY AppendView DEF TypeOK, Sent, Commands, D

LEMMA ExecutedView ==
    ASSUME TypeOK, down # <<>>, down' = Tail(down)
    PROVE  Executed
<1>1. down \in Seq(Commands)
  BY DEF TypeOK, Commands
<1> QED BY <1>1, TailView DEF Executed, Command

LEMMA RepliedView ==
    ASSUME TypeOK, NEW a \in Replies, Send(<<a>>)
    PROVE  IF closed THEN up' = up ELSE Replied(a)
<1>1. up \in Seq(Replies)
  BY DEF TypeOK, Replies, AnswerOps
<1>2. CASE ~closed
  <2>1. up' = Append(up, a)
    BY <1>1, <1>2, AppendView DEF Send
  <2> QED BY <1>1, <1>2, <2>1, AppendView DEF Replied, U
<1> QED BY <1>2 DEF Send

LEMMA HeardView ==
    ASSUME TypeOK, up # <<>>, up' = Tail(up)
    PROVE  Heard
<1>1. up \in Seq(Replies)
  BY DEF TypeOK, Replies, AnswerOps
<1> QED BY <1>1, TailView DEF Heard

-----------------------------------------------------------------------------
(* Types.                                                                  *)

LEMMA Operations ==
    /\ AskOps \subseteq Ops /\ CreateOps \subseteq Ops /\ BufferOps \subseteq Ops
    /\ MapOps \subseteq Ops /\ MapOps \subseteq AskOps /\ CreateOps \subseteq BufferOps
BY DEF AskOps, QuestionOps, CreateOps, BufferOps, MapOps, Ops

LEMMA KindView ==
    ASSUME NEW op \in AskOps
    PROVE  /\ Kind(op) \in AnswerOps
           /\ Kind(op) = "load" => op = "loadTexture"
           /\ Kind(op) = "map" => op \in MapOps
BY DEF Kind, AskOps, MapOps, AnswerOps

LEMMA WellFormedLater ==
    ASSUME NEW n \in Nat, NEW m \in Nat, n <= m, NEW c, WellFormed(c, n)
    PROVE  WellFormed(c, m)
BY DEF WellFormed

LEMMA IssuedView ==
    ASSUME Typed, NEW op \in Ops, NEW o \in Objects \cup {NoObject},
           NEW req \in 0 .. MaxRequests, Issues(op, o, req)
    PROVE  /\ Sent(Cmd(op, o, req)) /\ connected
           /\ UNCHANGED <<up, clientVars, connected>>
           /\ calls' \in CallsType
           /\ calls'.requests = IF req = 0 THEN calls.requests ELSE req
           /\ calls'.sent = IF op = "present" THEN calls.sent + 1 ELSE calls.sent
           /\ calls'.done = calls.done
<1>1. Cmd(op, o, req) \in Commands
  BY DEF Cmd, Commands
<1>2. Sent(Cmd(op, o, req))
  BY <1>1, SentView DEF Typed, Issues
<1>3. calls \in CallsType
  BY DEF Typed, Shaped
<1> DEFINE nr == IF req = 0 THEN calls.requests ELSE req
           ns == IF op = "present" THEN calls.sent + 1 ELSE calls.sent
           c1 == [calls EXCEPT !.issued = @ + 1]
           c2 == [c1 EXCEPT !.requests = nr]
           c3 == [c2 EXCEPT !.sent = ns]
<1>4. nr \in 0 .. MaxRequests /\ ns \in Nat
  BY <1>3 DEF CallsType
<1>5. calls' = [calls EXCEPT !.issued = @ + 1, !.requests = nr, !.sent = ns]
  BY <1>3 DEF Issues, CallsType
<1> HIDE DEF nr, ns
<1>6. calls' = c3
  BY <1>5
<1>7. c1 \in CallsType /\ c1.done = calls.done
  BY <1>3 DEF CallsType
<1> HIDE DEF c1
<1>8. c2 \in CallsType /\ c2.requests = nr /\ c2.done = calls.done
  BY <1>4, <1>7 DEF CallsType
<1> HIDE DEF c2
<1>9. c3 \in CallsType /\ c3.requests = nr /\ c3.sent = ns /\ c3.done = calls.done
  BY <1>4, <1>8 DEF CallsType
<1> HIDE DEF c3
<1>10. calls' \in CallsType /\ calls'.requests = nr /\ calls'.sent = ns
      /\ calls'.done = calls.done
  BY <1>6, <1>9
<1> QED BY <1>2, <1>10 DEF Issues, nr, ns

LEMMA DownsSent ==
    ASSUME Typed, NEW c, Sent(c), WellFormed(c, calls'.requests), calls' \in CallsType,
           calls.requests <= calls'.requests
    PROVE  Downs'
<1>1. calls.requests \in Nat /\ calls'.requests \in Nat
  BY SessionAssumption DEF Typed, Shaped, CallsType
<1>2. \A i \in D : WellFormed(down[i], calls'.requests)
  BY <1>1, WellFormedLater DEF Typed, Shaped, Downs
<1>3. ASSUME NEW i \in 1 .. Len(down') PROVE WellFormed(down'[i], calls'.requests)
  <2>1. CASE i \in D
    BY <1>2, <2>1 DEF Sent
  <2>2. CASE i = Len(down) + 1
    BY <2>2 DEF Sent
  <2> QED BY <1>3, <2>1, <2>2, Lengths DEF Sent, D, Typed
<1> QED BY <1>3 DEF Downs, D

(* A device somebody refers to stays referred to while nothing is let go   *)
(* of and only new objects come to refer to one.                           *)
LEMMA ReferencedGrows ==
    ASSUME TypeOK, Given, held \subseteq held', owned \subseteq owned',
           requests \subseteq requests', surface' = surface,
           \A id \in issued \cap Objects : of'[id] = of[id]
    PROVE  Referenced \subseteq Referenced'
<1>1. \A id \in Objects : id \in owned \/ Pinned(id) => id \in issued
  BY SessionAssumption, ClientExecutorAssumption DEF Given, Pinned
<1>2. \A id \in Objects : id \in owned \/ Pinned(id) => id \in owned' \/ Pinned(id)'
  BY DEF Pinned
<1> QED BY <1>1, <1>2 DEF Referenced

LEMMA Forgotten ==
    ASSUME ForgetFreed
    PROVE  lost_device' \in Referenced' \cup {NoDevice}
BY DEF ForgetFreed

LEMMA RoutedKept ==
    ASSUME TypeOK, Given, UNCHANGED <<deviceVars, owned, surface>>, issued \subseteq issued',
           requests \subseteq requests'
    PROVE  Routed'
<1>1. Referenced \subseteq Referenced'
  BY ReferencedGrows DEF deviceVars
<1> QED BY <1>1 DEF Routed, TypeOK, Given, deviceVars

LEMMA RoutedCreates ==
    ASSUME TypeOK, Given, NEW id \in Objects, NEW d \in Devices \cup {NoDevice},
           Creates(id, d), owned' \in {owned, owned \cup {id}}, UNCHANGED surface,
           requests \subseteq requests'
    PROVE  Routed'
<1>1. \A o \in issued \cap Objects : of'[o] = of[o]
  BY DEF Creates, TypeOK
<1>2. Referenced \subseteq Referenced'
  BY <1>1, ReferencedGrows DEF Creates
<1> QED BY <1>2 DEF Routed, TypeOK, Given, Creates

(* A call of the application that sends a command.                         *)
LEMMA TypedSends ==
    ASSUME Typed, NEW op \in Ops, NEW o \in Objects \cup {NoObject},
           NEW req \in 0 .. MaxRequests, Issues(op, o, req),
           req = 0 \/ req = calls.requests + 1,
           WellFormed(Cmd(op, o, req), IF req = 0 THEN calls.requests ELSE req),
           Routed', issued \subseteq issued', req # 0 => o \in issued' \cup {NoObject},
           map_state' \in [Buffers -> {"Unmapped", "Pending", "Mapped"}],
           requests' = requests \cup (IF req = 0 THEN {} ELSE {Cmd(op, o, req)})
    PROVE  Typed'
<1>1. calls \in CallsType /\ calls.requests \in Nat
  BY SessionAssumption DEF Typed, Shaped, CallsType
<1>2. /\ Sent(Cmd(op, o, req)) /\ connected
      /\ UNCHANGED <<up, clientVars, connected>>
      /\ calls' \in CallsType
      /\ calls'.requests = IF req = 0 THEN calls.requests ELSE req
      /\ calls'.sent = IF op = "present" THEN calls.sent + 1 ELSE calls.sent
      /\ calls'.done = calls.done
  BY IssuedView
<1>3. calls.requests <= calls'.requests /\ calls'.requests \in Nat
  BY <1>1, <1>2, SessionAssumption DEF CallsType
<1>4. Downs'
  BY <1>2, <1>3, DownsSent
<1>5. \A c : WellFormed(c, calls.requests) => WellFormed(c, calls'.requests)
  BY <1>1, <1>3, WellFormedLater
<1>6. Tasks'
  BY <1>2, <1>5 DEF Typed, Shaped, Tasks, clientVars, taskVars
<1>7. req # 0 => op \in AskOps
  BY DEF WellFormed, Cmd
<1>8. Pending'
  BY <1>2, <1>5, <1>7 DEF Typed, Shaped, Pending, Cmd
<1>9. Ups' /\ Over' /\ Given'
  BY <1>2 DEF Typed, Shaped, Ups, Over, U, Given, Cmd, Routed
<1>10. requests' \subseteq [op : Ops, object : Objects \cup {NoObject}, req : 1 .. MaxRequests]
  BY SessionAssumption DEF Typed, TypeOK, Cmd
<1>11. calls'.done <= calls'.sent
  BY <1>1, <1>2 DEF Typed, TypeOK, CallsType
<1>12. down' \in Seq(Commands)
  BY <1>2 DEF Sent
<1>13. TypeOK'
  BY <1>2, <1>10, <1>11, <1>12
     DEF Typed, TypeOK, Commands, Routed, clientVars, tableVars, taskVars, gpuVars, frameVars
<1> QED BY <1>2, <1>4, <1>6, <1>8, <1>9, <1>13 DEF Typed, Shaped

-----------------------------------------------------------------------------
(* What a step does to the wire, the objects and the requests.  The calls  *)
(* of the application first.                                               *)

Issued(c) ==
    /\ connected /\ Sent(c) /\ WellFormed(c, calls'.requests)
    /\ UNCHANGED <<up, objects, mapping, failed, tasks, unseen, compositing, closed, connected>>
    /\ calls' \in CallsType
    /\ calls'.requests = IF c.req = 0 THEN calls.requests ELSE c.req
    /\ calls'.sent = IF c.op = "present" THEN calls.sent + 1 ELSE calls.sent
    /\ calls'.done = calls.done

\* A command that makes nothing and gives nothing back.
Tells(c) ==
    /\ Issued(c)
    /\ c.op \in {"requestDevice", "requestDeviceWith", "destroyDevice", "destroyResource",
                 "configure", "unconfigure", "use", "present"}
    /\ c.object = NoObject \/ c.object \in owned
    /\ issued \subseteq issued'
    /\ UNCHANGED <<owned, map_state, requests>>

Makes(c) ==
    /\ Issued(c)
    /\ c.op \in {"createBuffer", "createMappedBuffer", "acquire"}
    /\ c.object \in Objects \ issued
    /\ issued' = issued \cup {c.object}
    /\ owned' = owned \cup {c.object}
    /\ map_state' = IF c.op = "createMappedBuffer"
                    THEN [map_state EXCEPT ![c.object] = "Mapped"] ELSE map_state
    /\ UNCHANGED requests

Asks(c) ==
    /\ Issued(c)
    /\ c.op \in AskOps /\ c.req = calls.requests + 1
    /\ requests' = requests \cup {c}
    /\ UNCHANGED owned

Maps(c) ==
    /\ Asks(c)
    /\ c.op \in MapOps
    /\ c.object \in owned
    /\ map_state[c.object] = "Unmapped"
    /\ map_state' = [map_state EXCEPT ![c.object] = "Pending"]
    /\ UNCHANGED issued

Loads(c) ==
    /\ Asks(c)
    /\ c.op = "loadTexture"
    /\ c.object \in Objects \ issued
    /\ issued' = issued \cup {c.object}
    /\ UNCHANGED map_state

Inquires(c) ==
    /\ Asks(c)
    /\ c.op \in QuestionOps
    /\ UNCHANGED <<map_state, issued>>

Unmaps(c) ==
    /\ Issued(c)
    /\ c.op = "unmap"
    /\ c.object \in owned
    /\ map_state[c.object] = "Mapped"
    /\ map_state' = [map_state EXCEPT ![c.object] = "Unmapped"]
    /\ UNCHANGED <<owned, requests, issued>>

Drops(c, id) == c.op = "destroyObject" /\ c.object = id

GivesUp(c) ==
    /\ Issued(c)
    /\ Drops(c, c.object)
    /\ c.object \in owned /\ ~Pinned(c.object)
    /\ owned' = owned \ {c.object}
    /\ UNCHANGED <<map_state, requests, issued>>

LetsGo(id) ==
    /\ id \in owned /\ Pinned(id)
    /\ owned' = owned \ {id}
    /\ UNCHANGED <<down, up, objects, mapping, failed, tasks, unseen, compositing, closed,
                   connected, calls, map_state, requests, issued>>

Idle == UNCHANGED <<down, up, objects, mapping, failed, tasks, unseen, compositing, closed,
                    connected, calls, owned, map_state, requests, issued>>

AppStep ==
    \/ \E c \in Commands : \/ Tells(c) \/ Makes(c) \/ Maps(c) \/ Loads(c) \/ Inquires(c)
                           \/ Unmaps(c) \/ GivesUp(c)
    \/ \E id \in Objects : LetsGo(id)
    \/ Idle

LEMMA IssuedStep ==
    ASSUME Typed, NEW op \in Ops, NEW o \in Objects \cup {NoObject},
           NEW req \in 0 .. MaxRequests, Issues(op, o, req),
           req = 0 \/ req = calls.requests + 1,
           WellFormed(Cmd(op, o, req), IF req = 0 THEN calls.requests ELSE req)
    PROVE  Issued(Cmd(op, o, req)) /\ Cmd(op, o, req) \in Commands
<1>1. /\ Sent(Cmd(op, o, req)) /\ connected
      /\ UNCHANGED <<up, clientVars, connected>>
      /\ calls' \in CallsType
      /\ calls'.requests = IF req = 0 THEN calls.requests ELSE req
      /\ calls'.sent = IF op = "present" THEN calls.sent + 1 ELSE calls.sent
      /\ calls'.done = calls.done
  BY IssuedView
<1>2. WellFormed(Cmd(op, o, req), calls'.requests)
  BY <1>1
<1>3. Cmd(op, o, req).op = op /\ Cmd(op, o, req).req = req
  BY DEF Cmd
<1>4. UNCHANGED <<objects, mapping, failed, tasks, unseen, compositing, closed>>
  BY <1>1 DEF clientVars, tableVars, taskVars, frameVars
<1> HIDE DEF Cmd
<1> QED BY <1>1, <1>2, <1>3, <1>4 DEF Issued, Sent

LEMMA PlainForm ==
    ASSUME Typed, NEW op \in Ops, NEW o \in Objects \cup {NoObject}, op \notin AskOps,
           op \in BufferOps => o \in Buffers, op = "acquire" => o \in Frames
    PROVE  WellFormed(Cmd(op, o, 0), calls.requests) /\ Cmd(op, o, 0).op = op
           /\ Cmd(op, o, 0).object = o /\ Cmd(op, o, 0).req = 0
<1>1. calls.requests \in Nat
  BY SessionAssumption DEF Typed, Shaped, CallsType
<1>2. op # "loadTexture" /\ op \notin QuestionOps
  BY DEF AskOps, QuestionOps
<1> QED BY <1>1, <1>2 DEF WellFormed, Cmd

LEMMA AskForm ==
    ASSUME Typed, NEW op \in AskOps, NEW o \in Objects \cup {NoObject},
           calls.requests < MaxRequests,
           op \in MapOps => o \in Buffers, op = "loadTexture" => o \in Textures,
           op \in QuestionOps => o = NoObject
    PROVE  LET c == Cmd(op, o, calls.requests + 1) IN
           /\ WellFormed(c, calls.requests + 1) /\ c.op = op
           /\ c.object = o /\ c.req = calls.requests + 1
           /\ calls.requests + 1 \in 1 .. MaxRequests
<1>1. calls.requests \in Nat
  BY SessionAssumption DEF Typed, Shaped, CallsType
<1>2. op \in Ops /\ op # "acquire"
  BY DEF AskOps, Ops
<1>3. op \in BufferOps => op \in MapOps
  BY DEF AskOps, BufferOps, MapOps
<1> QED BY <1>1, <1>2, <1>3, SessionAssumption DEF WellFormed, Cmd

LEMMA AppObjects ==
    /\ Buffers \subseteq Objects /\ Textures \subseteq Objects /\ Frames \subseteq Objects
    /\ Objects \subseteq Objects \cup {NoObject}
BY DEF Objects

LEMMA AppKept ==
    ASSUME TypeOK, Given
    PROVE  Routed /\ map_state \in [Buffers -> {"Unmapped", "Pending", "Mapped"}]
BY DEF TypeOK, Given, Routed

(* A command without a request.                                            *)
LEMMA PlainTyped ==
    ASSUME Typed, NEW op \in Ops, NEW o \in Objects \cup {NoObject}, op \notin AskOps,
           op \in BufferOps => o \in Buffers, op = "acquire" => o \in Frames,
           Issues(op, o, 0),
           Routed', issued \subseteq issued',
           map_state' \in [Buffers -> {"Unmapped", "Pending", "Mapped"}],
           UNCHANGED requests
    PROVE  Typed' /\ Issued(Cmd(op, o, 0)) /\ Cmd(op, o, 0) \in Commands
<1>1. 0 \in 0 .. MaxRequests
  BY SessionAssumption
<1>2. WellFormed(Cmd(op, o, 0), calls.requests)
  BY PlainForm
<1>3. Typed'
  BY <1>1, <1>2, TypedSends DEF Cmd
<1>4. Issued(Cmd(op, o, 0)) /\ Cmd(op, o, 0) \in Commands
  BY <1>1, <1>2, IssuedStep
<1> QED BY <1>3, <1>4

(* A command with a request.                                               *)
LEMMA AskTyped ==
    ASSUME Typed, NEW op \in AskOps, NEW o \in Objects \cup {NoObject},
           op \in MapOps => o \in Buffers, op = "loadTexture" => o \in Textures,
           op \in QuestionOps => o = NoObject,
           Requests(op, o), Routed', issued \subseteq issued',
           o \in issued' \cup {NoObject}, UNCHANGED owned,
           map_state' \in [Buffers -> {"Unmapped", "Pending", "Mapped"}]
    PROVE  LET c == Cmd(op, o, calls.requests + 1) IN
           Typed' /\ Asks(c) /\ c \in Commands /\ c.op = op /\ c.object = o
<1> DEFINE c == Cmd(op, o, calls.requests + 1)
<1>1. /\ WellFormed(c, calls.requests + 1) /\ c.op = op
      /\ c.object = o /\ c.req = calls.requests + 1
      /\ calls.requests + 1 \in 1 .. MaxRequests
  BY AskForm DEF Requests
<1>2. calls.requests + 1 \in 0 .. MaxRequests /\ calls.requests + 1 # 0
  BY <1>1, SessionAssumption
<1>3. op \in Ops
  BY Operations
<1>4. Issues(op, o, calls.requests + 1) /\ requests' = requests \cup {c}
  BY DEF Requests
<1>5. Typed'
  BY <1>1, <1>2, <1>3, <1>4, TypedSends
<1>6. Issued(c) /\ c \in Commands
  BY <1>1, <1>2, <1>3, <1>4, IssuedStep
<1> HIDE DEF c
<1>7. Asks(c)
  BY <1>1, <1>4, <1>6 DEF Asks
<1> QED BY <1>1, <1>5, <1>6, <1>7 DEF c

LEMMA AppTypes ==
    ASSUME Typed, App
    PROVE  Typed' /\ AppStep
<1> USE AppObjects DEF Typed
<1>0. Given /\ Routed /\ map_state \in [Buffers -> {"Unmapped", "Pending", "Mapped"}]
  BY AppKept DEF Shaped
<1>1. ASSUME NEW d \in Devices, NEW op \in {"requestDevice", "requestDeviceWith"},
             wgpuAdapterRequestDevice(d, op)
      PROVE  Typed' /\ AppStep
  <2>1. op \in Ops /\ op \notin AskOps /\ op \notin BufferOps /\ op # "acquire"
    BY DEF Ops, AskOps, BufferOps
  <2>2. Issues(op, NoObject, 0) /\ UNCHANGED <<of, lost, destroyed, owned, map_state, requests,
                                               surface>>
        /\ held' = held \cup {d} /\ lost_device' = d /\ issued' = issued \cup {d}
    BY <1>1 DEF wgpuAdapterRequestDevice
  <2>5. Routed'
    BY <1>0, <2>2 DEF Routed, Referenced
  <2>3. Typed' /\ Issued(Cmd(op, NoObject, 0)) /\ Cmd(op, NoObject, 0) \in Commands
    BY <1>0, <2>1, <2>2, <2>5, PlainTyped
  <2>4. Tells(Cmd(op, NoObject, 0))
    BY <2>1, <2>2, <2>3, PlainForm DEF Tells
  <2> QED BY <2>3, <2>4 DEF AppStep
<1>2. ASSUME NEW d \in Devices, wgpuDeviceDestroy(d) PROVE Typed' /\ AppStep
  <2>1. "destroyDevice" \in Ops /\ "destroyDevice" \notin AskOps \cup BufferOps
    BY DEF Ops, AskOps, BufferOps
  <2>2. Issues("destroyDevice", NoObject, 0) /\ destroyed' = destroyed \cup {d}
        /\ UNCHANGED <<held, of, lost_device, lost, owned, map_state, requests, issued, surface>>
    BY <1>2 DEF wgpuDeviceDestroy, handleVars
  <2> DEFINE c == Cmd("destroyDevice", NoObject, 0)
  <2>5. Routed'
    BY <1>0, <2>2 DEF Routed, Referenced, Pinned
  <2>3. Typed' /\ Issued(c) /\ c \in Commands
    BY <1>0, <2>1, <2>2, <2>5, PlainTyped
  <2>4. Tells(c)
    BY <2>1, <2>2, <2>3, PlainForm DEF Tells
  <2> QED BY <2>3, <2>4 DEF AppStep
<1>3. ASSUME NEW d \in Devices, wgpuDeviceRelease(d) PROVE Typed' /\ AppStep
  <2>1. /\ Idle /\ held' = held \ {d} /\ ForgetFreed
        /\ UNCHANGED <<of, lost, destroyed, surface, gpu, dead, losing, surfaceTexture>>
    BY <1>3 DEF wgpuDeviceRelease, Idle, handleVars, clientVars, tableVars, taskVars, gpuVars,
                frameVars
  <2>2. TypeOK'
    BY <2>1, Forgotten DEF TypeOK, Idle
  <2>3. Shaped'
    BY <2>1 DEF Idle, Shaped, Tasks, Pending, Downs, Ups, Over, Given, D, U
  <2> QED BY <2>1, <2>2, <2>3 DEF AppStep
<1>4. ASSUME NEW d \in Devices, NEW b \in Buffers, NEW mapped \in BOOLEAN,
             wgpuDeviceCreateBuffer(d, b, mapped)
      PROVE  Typed' /\ AppStep
  <2> DEFINE op == IF mapped THEN "createMappedBuffer" ELSE "createBuffer"
             c == Cmd(op, b, 0)
  <2>1. op \in Ops /\ op \notin AskOps
    BY DEF Ops, AskOps
  <2>2. Issues(op, b, 0) /\ UNCHANGED <<requests, surface>> /\ Creates(b, d)
        /\ owned' = owned \cup {b} /\ b \notin issued /\ issued' = issued \cup {b}
        /\ map_state' = [map_state EXCEPT ![b] = IF mapped THEN "Mapped" ELSE @]
    BY <1>4 DEF wgpuDeviceCreateBuffer, Creates
  <2>9. map_state \in [Buffers -> {"Unmapped", "Pending", "Mapped"}]
    BY <1>0 DEF TypeOK
  <2>3. map_state' = IF mapped THEN [map_state EXCEPT ![b] = "Mapped"] ELSE map_state
    BY <2>2, <2>9
  <2>4. map_state' \in [Buffers -> {"Unmapped", "Pending", "Mapped"}]
    BY <2>3, <2>9
  <2>8. Routed'
    BY <1>0, <2>2, RoutedCreates
  <2>5. Typed' /\ Issued(c) /\ c \in Commands
    BY <2>1, <2>2, <2>4, <2>8, PlainTyped
  <2>6. /\ op \in {"createBuffer", "createMappedBuffer"}
        /\ op = "createMappedBuffer" <=> mapped
        /\ op # "acquire"
    OBVIOUS
  <2>7. Makes(c)
    <3>1. c.op = op /\ c.object = b
      BY <2>1, <2>6, PlainForm
    <3> HIDE DEF c, op
    <3> QED BY <2>2, <2>3, <2>5, <2>6, <3>1 DEF Makes
  <2> QED BY <2>5, <2>7 DEF AppStep
<1>5. ASSUME NEW b \in Buffers, NEW op \in MapOps, wgpuBufferMapAsync(b, op)
      PROVE  Typed' /\ AppStep
  <2>1. op \in AskOps /\ op # "loadTexture" /\ op \notin QuestionOps
    BY DEF MapOps, AskOps, QuestionOps
  <2>2. Requests(op, b) /\ UNCHANGED <<deviceVars, owned, surface>> /\ issued' = issued
        /\ b \in owned /\ map_state[b] = "Unmapped"
        /\ map_state' = [map_state EXCEPT ![b] = "Pending"]
    BY <1>5 DEF wgpuBufferMapAsync
  <2> DEFINE c == Cmd(op, b, calls.requests + 1)
  <2>3. map_state' \in [Buffers -> {"Unmapped", "Pending", "Mapped"}]
    BY <1>0, <2>2 DEF TypeOK
  <2>6. Routed' /\ b \in issued'
    BY <1>0, <2>2, RoutedKept DEF Requests, Routed
  <2>4. Typed' /\ Asks(c) /\ c \in Commands /\ c.op = op /\ c.object = b
    BY <2>1, <2>2, <2>3, <2>6, AskTyped
  <2> HIDE DEF c
  <2>5. Maps(c)
    BY <2>2, <2>4 DEF Maps
  <2> QED BY <2>4, <2>5 DEF AppStep
<1>6. ASSUME NEW b \in Buffers, wgpuBufferUnmap(b) PROVE Typed' /\ AppStep
  <2> DEFINE c == Cmd("unmap", b, 0)
  <2>1. "unmap" \in Ops /\ "unmap" \notin AskOps /\ "unmap" # "acquire"
    BY DEF Ops, AskOps
  <2>2. Issues("unmap", b, 0) /\ UNCHANGED <<deviceVars, owned, requests, issued, surface>>
        /\ b \in owned /\ map_state[b] = "Mapped"
        /\ map_state' = [map_state EXCEPT ![b] = "Unmapped"]
    BY <1>6 DEF wgpuBufferUnmap
  <2>3. map_state' \in [Buffers -> {"Unmapped", "Pending", "Mapped"}]
    BY <1>0, <2>2 DEF TypeOK
  <2>7. Routed'
    BY <1>0, <2>2, RoutedKept
  <2>4. Typed' /\ Issued(c) /\ c \in Commands
    BY <2>1, <2>2, <2>3, <2>7, PlainTyped
  <2>5. c.op = "unmap" /\ c.object = b
    BY <2>1, PlainForm
  <2> HIDE DEF c
  <2>6. Unmaps(c)
    BY <2>2, <2>4, <2>5 DEF Unmaps
  <2> QED BY <2>4, <2>6 DEF AppStep
<1>7. ASSUME NEW b \in Buffers, wgpuBufferDestroy(b) PROVE Typed' /\ AppStep
  <2> DEFINE c == Cmd("destroyResource", b, 0)
  <2>1. "destroyResource" \in Ops /\ "destroyResource" \notin AskOps
        /\ "destroyResource" # "acquire"
    BY DEF Ops, AskOps
  <2>2. Issues("destroyResource", b, 0) /\ b \in owned /\ UNCHANGED surface
        /\ UNCHANGED <<deviceVars, owned, requests, map_state, issued>>
    BY <1>7 DEF wgpuBufferDestroy, handleVars
  <2>9. Routed'
    BY <1>0, <2>2, RoutedKept
  <2>3. Typed' /\ Issued(c) /\ c \in Commands
    BY <1>0, <2>1, <2>2, <2>9, PlainTyped
  <2>4. c.op = "destroyResource" /\ c.object = b /\ c.req = 0
    BY <2>1, PlainForm
  <2> HIDE DEF c
  <2>5. Tells(c)
    BY <2>2, <2>3, <2>4 DEF Tells
  <2> QED BY <2>3, <2>5 DEF AppStep
<1>8. ASSUME NEW d \in Devices, NEW t \in Textures, wgpuRemoteDeviceLoadTextureFromURL(d, t)
      PROVE  Typed' /\ AppStep
  <2> DEFINE c == Cmd("loadTexture", t, calls.requests + 1)
  <2>1. "loadTexture" \in AskOps /\ "loadTexture" \notin MapOps \cup QuestionOps
    BY DEF MapOps, AskOps, QuestionOps
  <2>2. Requests("loadTexture", t) /\ UNCHANGED <<owned, map_state, surface>> /\ Creates(t, d)
        /\ t \notin issued /\ issued' = issued \cup {t}
    BY <1>8 DEF wgpuRemoteDeviceLoadTextureFromURL, Creates
  <2>5. Routed'
    BY <1>0, <2>2, RoutedCreates DEF Requests
  <2>3. Typed' /\ Asks(c) /\ c \in Commands /\ c.op = "loadTexture" /\ c.object = t
    BY <1>0, <2>1, <2>2, <2>5, AskTyped
  <2> HIDE DEF c
  <2>4. Loads(c)
    BY <2>2, <2>3 DEF Loads
  <2> QED BY <2>3, <2>4 DEF AppStep
<1>9. ASSUME NEW op \in QuestionOps, Ask(op) PROVE Typed' /\ AppStep
  <2> DEFINE c == Cmd(op, NoObject, calls.requests + 1)
  <2>1. op \in AskOps /\ op \notin MapOps /\ op # "loadTexture"
    BY DEF MapOps, AskOps, QuestionOps
  <2>2. Requests(op, NoObject) /\ UNCHANGED <<deviceVars, owned, map_state, issued, surface>>
    BY <1>9 DEF Ask
  <2>5. Routed'
    BY <1>0, <2>2, RoutedKept DEF Requests
  <2>3. Typed' /\ Asks(c) /\ c \in Commands /\ c.op = op
    BY <1>0, <2>1, <2>2, <2>5, AskTyped
  <2> HIDE DEF c
  <2>4. Inquires(c)
    BY <2>2, <2>3 DEF Inquires
  <2> QED BY <2>3, <2>4 DEF AppStep
<1>10. ASSUME NEW f \in Frames, wgpuSurfaceGetCurrentTexture(f) PROVE Typed' /\ AppStep
  <2> DEFINE c == Cmd("acquire", f, 0)
  <2>1. "acquire" \in Ops /\ "acquire" \notin AskOps /\ "acquire" \notin BufferOps
    BY DEF Ops, AskOps, BufferOps
  <2>2. Issues("acquire", f, 0) /\ UNCHANGED <<map_state, requests, surface>>
        /\ Creates(f, surface) /\ surface \in Devices \cup {NoDevice}
        /\ owned' = owned \cup {f} /\ f \notin issued /\ issued' = issued \cup {f}
    BY <1>0, <1>10 DEF wgpuSurfaceGetCurrentTexture, Creates, Routed
  <2>9. Routed'
    BY <1>0, <2>2, RoutedCreates
  <2>3. Typed' /\ Issued(c) /\ c \in Commands
    BY <1>0, <2>1, <2>2, <2>9, PlainTyped
  <2>4. c.op = "acquire" /\ c.object = f
    BY <2>1, PlainForm
  <2> HIDE DEF c
  <2>5. Makes(c)
    BY <2>2, <2>3, <2>4 DEF Makes
  <2> QED BY <2>3, <2>5 DEF AppStep
<1>11. ASSUME NEW id \in Objects, UseObject(id) PROVE Typed' /\ AppStep
  <2> DEFINE c == Cmd("use", id, 0)
  <2>1. "use" \in Ops /\ "use" \notin AskOps \cup BufferOps
    BY DEF Ops, AskOps, BufferOps
  <2>2. Issues("use", id, 0) /\ id \in owned /\ UNCHANGED surface
        /\ UNCHANGED <<deviceVars, owned, requests, map_state, issued>>
    BY <1>11 DEF UseObject, handleVars
  <2>9. Routed'
    BY <1>0, <2>2, RoutedKept
  <2>3. Typed' /\ Issued(c) /\ c \in Commands
    BY <1>0, <2>1, <2>2, <2>9, PlainTyped
  <2>4. c.op = "use" /\ c.object = id /\ c.req = 0
    BY <2>1, PlainForm
  <2> HIDE DEF c
  <2>5. Tells(c)
    BY <2>2, <2>3, <2>4 DEF Tells
  <2> QED BY <2>3, <2>5 DEF AppStep
<1>12. ASSUME NEW id \in Objects, Release(id) PROVE Typed' /\ AppStep
  <2> DEFINE c == Cmd("destroyObject", id, 0)
  <2>1. "destroyObject" \in Ops /\ "destroyObject" \notin AskOps \cup BufferOps
    BY DEF Ops, AskOps, BufferOps
  <2>2. id \in owned /\ owned' = owned \ {id}
        /\ UNCHANGED <<held, of, lost, destroyed, requests, map_state, issued, surface>>
        /\ ForgetFreed
    BY <1>12 DEF Release
  <2>5. Routed'
    BY <1>0, <2>2, Forgotten DEF Routed
  <2>3. CASE ~Pinned(id)
    <3>1. Issues("destroyObject", id, 0)
      BY <1>12, <2>3 DEF Release
    <3>2. Typed' /\ Issued(c) /\ c \in Commands
      BY <1>0, <2>1, <2>2, <2>5, <3>1, PlainTyped
    <3>3. c.op = "destroyObject" /\ c.object = id
      BY <2>1, PlainForm
    <3> HIDE DEF c
    <3>4. GivesUp(c)
      BY <2>2, <2>3, <3>2, <3>3 DEF GivesUp, Drops
    <3> QED BY <3>2, <3>4 DEF AppStep
  <2>4. CASE Pinned(id)
    <3>1. UNCHANGED <<down, up, objects, mapping, failed, gpu, dead, losing, surfaceTexture,
                      compositing, tasks, unseen, closed, connected, calls>>
      BY <1>12, <2>4 DEF Release, clientVars, tableVars, taskVars, gpuVars, frameVars
    <3>2. TypeOK'
      BY <2>2, <2>5, <3>1 DEF TypeOK, Routed
    <3>3. Shaped'
      BY <2>2, <2>5, <3>1 DEF Shaped, Tasks, Pending, Downs, Ups, Over, Given, D, U
    <3>4. LetsGo(id)
      BY <2>2, <2>4, <3>1 DEF LetsGo
    <3> QED BY <3>2, <3>3, <3>4 DEF AppStep
  <2> QED BY <2>3, <2>4
<1>13. ASSUME NEW op \in {"configure", "unconfigure", "present"}, Issues(op, NoObject, 0),
              Routed', UNCHANGED handleVars
       PROVE  Typed' /\ AppStep
  <2> DEFINE c == Cmd(op, NoObject, 0)
  <2>1. op \in Ops /\ op \notin AskOps /\ op \notin BufferOps /\ op # "acquire"
    BY DEF Ops, AskOps, BufferOps
  <2>2. UNCHANGED <<owned, requests, map_state, issued>>
    BY <1>13 DEF handleVars
  <2>3. Typed' /\ Issued(c) /\ c \in Commands
    BY <1>0, <1>13, <2>1, <2>2, PlainTyped
  <2>4. c.op = op /\ c.object = NoObject /\ c.req = 0
    BY <2>1, PlainForm
  <2> HIDE DEF c
  <2>5. Tells(c)
    BY <2>2, <2>3, <2>4 DEF Tells
  <2> QED BY <2>3, <2>5 DEF AppStep
<1>14. ASSUME NEW d \in Devices, wgpuSurfaceConfigure(d) PROVE Typed' /\ AppStep
  <2>1. Routed'
    BY <1>0, <1>14, Forgotten DEF wgpuSurfaceConfigure, Routed, handleVars
  <2> QED BY <1>13, <1>14, <2>1 DEF wgpuSurfaceConfigure
<1>15. ASSUME wgpuSurfaceUnconfigure \/ wgpuSurfacePresent PROVE Typed' /\ AppStep
  <2>1. Routed'
    BY <1>0, <1>15, RoutedKept DEF wgpuSurfaceUnconfigure, wgpuSurfacePresent, handleVars
  <2> QED BY <1>13, <1>15, <2>1 DEF wgpuSurfaceUnconfigure, wgpuSurfacePresent
<1> QED
  <2>1. /\ "mapRead" \in MapOps /\ "mapWrite" \in MapOps
        /\ "ask" \in QuestionOps /\ "popErrorScope" \in QuestionOps
    BY DEF MapOps, QuestionOps
  <2> QED BY <2>1, <1>1, <1>2, <1>3, <1>4, <1>5, <1>6, <1>7, <1>8, <1>9, <1>10, <1>11, <1>12,
             <1>14, <1>15 DEF App

-----------------------------------------------------------------------------
(* The steps of the browser.                                               *)

ServerKept == UNCHANGED <<connected, owned, map_state, requests, issued, calls>>

Runs(ops) ==
    /\ Executed /\ ServerKept
    /\ down[1].op \in ops

Passes ==
    /\ Runs({"requestDevice", "requestDeviceWith", "destroyDevice", "configure",
             "unconfigure", "use", "present"})
    /\ IF down[1].op = "present" THEN ~compositing /\ compositing' ELSE UNCHANGED compositing
    /\ UNCHANGED <<up, objects, mapping, failed, tasks, unseen, closed>>

Refuses ==
    /\ Runs({"requestDeviceWith"})
    /\ closed'
    /\ IF closed THEN up' = up ELSE Replied(Answer("error", 0, FALSE))
    /\ UNCHANGED <<objects, mapping, failed, tasks, unseen, compositing>>

MakesBuffer ==
    /\ Runs(CreateOps)
    /\ objects' = objects \cup {down[1].object}
    /\ mapping' = [mapping EXCEPT ![down[1].object] =
                      IF down[1].op = "createBuffer" THEN "unmapped" ELSE "mapped"]
    /\ UNCHANGED <<up, failed, tasks, unseen, compositing, closed>>

FailsBuffer ==
    /\ Runs(CreateOps)
    /\ failed' = failed \cup {down[1].object}
    /\ UNCHANGED <<up, objects, mapping, tasks, unseen, compositing, closed>>

StartsMap ==
    /\ Runs(MapOps) /\ Known(down[1].object)
    /\ tasks' = tasks \cup {down[1]}
    /\ mapping' = [mapping EXCEPT ![down[1].object] = IF @ = "unmapped" THEN "pending" ELSE @]
    /\ UNCHANGED <<up, objects, failed, unseen, compositing, closed>>

MissesMap ==
    /\ Runs(MapOps) /\ ~Known(down[1].object)
    /\ unseen' = unseen \cup {down[1].req}
    /\ UNCHANGED <<up, objects, mapping, failed, tasks, compositing, closed>>

UnmapsBuffer ==
    /\ Runs({"unmap"})
    /\ \E kept \in {{"destroyed"}, {"destroyed", "taken"}} :
          mapping' = [mapping EXCEPT ![down[1].object] =
                         IF Known(down[1].object) /\ @ \notin kept THEN "unmapped" ELSE @]
    /\ UNCHANGED <<up, objects, failed, tasks, unseen, compositing, closed>>

DestroysResource ==
    /\ Runs({"destroyResource"})
    /\ mapping' = Destroyed(down[1].object)
    /\ UNCHANGED <<up, objects, failed, tasks, unseen, compositing, closed>>

DropsObject ==
    /\ Runs({"destroyObject"})
    /\ mapping' = Destroyed(down[1].object)
    /\ objects' = objects \ {down[1].object}
    /\ UNCHANGED <<up, failed, tasks, unseen, compositing, closed>>

StartsTask ==
    /\ Runs({"ask", "popErrorScope", "loadTexture"})
    /\ tasks' = tasks \cup {down[1]}
    /\ UNCHANGED <<up, objects, mapping, failed, unseen, compositing, closed>>

Acquires ==
    /\ Runs({"acquire"})
    /\ objects' = objects \/ objects' = objects \cup {down[1].object}
    /\ UNCHANGED <<up, mapping, failed, tasks, unseen, compositing, closed>>

Ends(t, a) ==
    /\ t \in tasks /\ tasks' = tasks \ {t}
    /\ IF closed THEN up' = up ELSE Replied(a)
    /\ ServerKept /\ UNCHANGED <<down, failed, unseen, compositing, closed>>

EndsMap(t, ok) ==
    /\ Ends(t, Answer("map", t.req, ok))
    /\ t.op \in MapOps
    /\ ok => mapping[t.object] = "pending"
    /\ \E state \in {"unmapped", "taken"} :
          mapping' = [mapping EXCEPT ![t.object] = IF @ = "pending" THEN state ELSE @]
    /\ UNCHANGED objects

EndsLoad(t, ok) ==
    /\ Ends(t, Answer("load", t.req, ok))
    /\ t.op = "loadTexture"
    /\ objects' = IF ok THEN objects \cup {t.object} ELSE objects
    /\ UNCHANGED mapping

EndsAsk(t) ==
    /\ Ends(t, Answer(t.op, t.req, TRUE))
    /\ t.op \in QuestionOps
    /\ UNCHANGED <<objects, mapping>>

LosesAsk(t) ==
    /\ t \in tasks /\ tasks' = tasks \ {t}
    /\ t.op = "ask"
    /\ unseen' = unseen \cup {t.req}
    /\ ServerKept /\ UNCHANGED <<down, up, objects, mapping, failed, compositing, closed>>

ShowsFrame ==
    /\ compositing /\ ~compositing'
    /\ IF closed THEN up' = up ELSE Replied(Answer("presentDone", 0, TRUE))
    /\ ServerKept /\ UNCHANGED <<down, objects, mapping, failed, tasks, unseen, closed>>

ReportsLoss ==
    /\ IF closed THEN up' = up ELSE Replied(Answer("deviceLost", 0, TRUE))
    /\ ServerKept
    /\ UNCHANGED <<down, objects, mapping, failed, tasks, unseen, compositing, closed>>

ClientStep ==
    \/ Passes \/ Refuses \/ MakesBuffer \/ FailsBuffer \/ StartsMap \/ MissesMap
    \/ UnmapsBuffer \/ DestroysResource \/ DropsObject \/ StartsTask \/ Acquires
    \/ \E t \in tasks : \/ \E ok \in BOOLEAN : EndsMap(t, ok) \/ EndsLoad(t, ok)
                        \/ EndsAsk(t) \/ LosesAsk(t)
    \/ ShowsFrame \/ ReportsLoss

(* What the rest of the invariant needs of a step that runs a command.     *)
LEMMA RunsView ==
    ASSUME Typed, NEW op, Executes(op), UNCHANGED serverVars
    PROVE  /\ Runs({op}) /\ Command = down[1] /\ down[1].op = op
           /\ connected /\ WellFormed(down[1], calls.requests)
           /\ UNCHANGED <<deviceVars, surface>>
<1>1. Executed
  BY ExecutedView DEF Executes, Typed
<1>2. Command = down[1] /\ down[1].op = op
  BY <1>1 DEF Executed, Executes, Command
<1>3. connected
  BY DEF Executes, Typed, Shaped, Over
<1>4. 1 \in D
  BY <1>1, Lengths DEF D, Executed, Typed
<1>5. WellFormed(down[1], calls.requests)
  BY <1>4 DEF Typed, Shaped, Downs
<1> QED BY <1>1, <1>2, <1>3, <1>5
        DEF Runs, ServerKept, serverVars, deviceVars, handleVars

MapStates == {"unmapped", "pending", "mapped", "taken", "destroyed"}

BrowserTyped ==
    /\ objects \subseteq Objects
    /\ mapping \in [Buffers -> MapStates]
    /\ gpu \in 1 .. MaxGpus /\ losing \subseteq dead /\ dead \subseteq 1 .. gpu
    /\ failed \subseteq Buffers /\ unseen \subseteq 1 .. MaxRequests
    /\ {surfaceTexture, compositing, closed} \subseteq BOOLEAN

(* A step of the browser whose tasks keep their form keeps the types.      *)
LEMMA ClientTyped ==
    ASSUME Typed, UNCHANGED serverVars,
           down' = down \/ (Executed /\ connected),
           up' = up \/ \E a \in Replies : /\ Replied(a) /\ ~closed
                                          /\ a.op \in AnswerOps <=> a.req # 0,
           \A t \in tasks' : t \in tasks \/ (connected /\ t = down[1]
                                /\ down[1].op \in AskOps /\ Len(down) > 0),
           BrowserTyped',
           closed => closed',
           compositing' => compositing \/ connected
    PROVE  Typed'
<1>1. UNCHANGED <<connected, held, of, lost_device, lost, destroyed, owned, map_state,
                  requests, issued, surface, calls>>
  BY DEF serverVars, deviceVars, handleVars
<1>2. down' \in Seq(Commands) /\ up' \in Seq(Replies)
  BY DEF Typed, TypeOK, Commands, Replies, Executed, Replied, AnswerOps
<1>a. lost_device' \in Referenced' \cup {NoDevice}
  BY <1>1 DEF Typed, TypeOK, Referenced, Pinned
<1>3. TypeOK'
  BY <1>1, <1>2, <1>a DEF Typed, TypeOK, Commands, Replies, AnswerOps, BrowserTyped, MapStates
<1>4. calls.requests \in Nat
  BY SessionAssumption DEF Typed, Shaped, CallsType
<1>6. Tasks'
  <2>1. Len(down) > 0 => WellFormed(down[1], calls.requests)
    BY Lengths DEF Typed, Shaped, Downs, D
  <2> QED BY <1>1, <2>1 DEF Typed, Shaped, Tasks
<1>7. Pending' /\ Given'
  BY <1>1 DEF Typed, Shaped, Pending, Given
<1>8. Downs'
  <2>1. CASE down' = down
    BY <1>1, <2>1 DEF Typed, Shaped, Downs, D
  <2>2. CASE Executed
    <3>1. \A i \in 1 .. Len(down') : i + 1 \in D
      BY <2>2, Lengths DEF Executed, D, Typed
    <3>2. \A i \in 1 .. Len(down') : WellFormed(down'[i], calls.requests)
      BY <2>2, <3>1 DEF Executed, Typed, Shaped, Downs
    <3> QED BY <1>1, <3>2 DEF Downs, D
  <2> QED BY <2>1, <2>2
<1>9. Ups'
  <2>1. CASE up' = up
    BY <2>1 DEF Typed, Shaped, Ups, U
  <2>2. ASSUME NEW a \in Replies, Replied(a), a.op \in AnswerOps <=> a.req # 0
        PROVE  Ups'
    <3>1. ASSUME NEW i \in 1 .. Len(up')
          PROVE  up'[i].op \in AnswerOps <=> up'[i].req # 0
      <4>1. CASE i \in U
        BY <2>2, <4>1 DEF Typed, Shaped, Ups, Replied
      <4>2. CASE i = Len(up) + 1
        BY <2>2, <4>2 DEF Replied
      <4> QED BY <2>2, <3>1, <4>1, <4>2, Lengths DEF Replied, U, Typed
    <3> QED BY <3>1 DEF Ups, U
  <2> QED BY <2>1, <2>2
<1>10. Over'
  <2> SUFFICES ASSUME ~connected
               PROVE  /\ down' = <<>> /\ up' = <<>> /\ requests' = {} /\ closed'
                      /\ ~compositing' /\ tasks' = {}
    BY <1>1 DEF Over
  <2>1. /\ down = <<>> /\ up = <<>> /\ requests = {} /\ closed /\ ~compositing /\ tasks = {}
    BY DEF Typed, Shaped, Over
  <2> QED BY <1>1, <2>1
<1> QED BY <1>1, <1>3, <1>6, <1>7, <1>8, <1>9, <1>10 DEF Typed, Shaped

LEMMA ExecuteTypes ==
    ASSUME Typed, Execute, UNCHANGED serverVars
    PROVE  Typed' /\ ClientStep
<1> USE AppObjects DEF Typed
<1>0. BrowserTyped /\ Buffers \subseteq Objects
  BY DEF TypeOK, BrowserTyped, MapStates
<1>a. \A op \in BufferOps : Executes(op) => down[1].object \in Buffers
  BY RunsView DEF WellFormed
<1>b. ASSUME NEW o PROVE Destroyed(o) \in [Buffers -> MapStates]
  BY <1>0 DEF Destroyed, BrowserTyped, MapStates
<1>c. ASSUME NEW op, Executes(op), BrowserTyped', up' = up, closed' = closed,
             op = "present" \/ UNCHANGED compositing,
             UNCHANGED tasks \/ (op \in AskOps /\ tasks' = tasks \cup {down[1]})
      PROVE  Typed'
  <2>1. Runs({op}) /\ down[1].op = op /\ connected
    BY <1>c, RunsView
  <2>2. Executed /\ Len(down) > 0
    BY <2>1 DEF Runs, Executed
  <2> QED BY <1>c, <2>1, <2>2, ClientTyped
<1>1. ASSUME NEW op \in {"requestDevice", "use"}, Executes(op), UNCHANGED <<up, clientVars>>
      PROVE  Typed' /\ ClientStep
  <2>1. /\ Runs({op}) /\ down[1].op = op
    BY <1>1, RunsView
  <2>2. /\ UNCHANGED <<up, objects, mapping, failed, gpu, dead, losing, surfaceTexture>>
        /\ UNCHANGED <<compositing, tasks, unseen, closed>>
    BY <1>1 DEF clientVars, tableVars, taskVars, gpuVars, frameVars
  <2>3. Passes
    BY <2>1, <2>2 DEF Passes, Runs
  <2>4. Typed'
    BY <1>0, <1>1, <1>c, <2>2 DEF BrowserTyped
  <2> QED BY <2>3, <2>4 DEF ClientStep
<1>2. ASSUME Present PROVE Typed' /\ ClientStep
  <2>1. /\ Executes("present") /\ ~compositing /\ compositing' = TRUE
        /\ UNCHANGED <<up, objects, mapping, failed, gpu, dead, losing, surfaceTexture>>
        /\ UNCHANGED <<tasks, unseen, closed>>
    BY <1>2 DEF Present, tableVars, taskVars, gpuVars
  <2>2. /\ Runs({"present"}) /\ down[1].op = "present"
    BY <2>1, RunsView
  <2>3. Passes
    BY <2>1, <2>2 DEF Passes, Runs
  <2>4. Typed'
    BY <1>0, <1>c, <2>1 DEF BrowserTyped
  <2> QED BY <2>3, <2>4 DEF ClientStep
<1>3. ASSUME RequestDeviceWith PROVE Typed' /\ ClientStep
  <2>1. /\ Executes("requestDeviceWith") /\ gpu < MaxGpus /\ gpu' = gpu + 1
        /\ surfaceTexture' = FALSE
        /\ UNCHANGED <<up, objects, mapping, failed, dead, losing, compositing>>
        /\ UNCHANGED <<tasks, unseen, closed>>
    BY <1>3 DEF RequestDeviceWith, tableVars, taskVars
  <2>2. /\ Runs({"requestDeviceWith"}) /\ down[1].op = "requestDeviceWith"
    BY <2>1, RunsView
  <2>3. Passes
    BY <2>1, <2>2 DEF Passes, Runs
  <2>4. gpu' \in 1 .. MaxGpus /\ dead' \subseteq 1 .. gpu'
    BY <1>0, <2>1, ClientExecutorAssumption DEF BrowserTyped
  <2>5. Typed'
    BY <1>0, <1>c, <2>1, <2>4 DEF BrowserTyped
  <2> QED BY <2>3, <2>5 DEF ClientStep
<1>4. ASSUME RefuseDevice PROVE Typed' /\ ClientStep
  <2> DEFINE a == Answer("error", 0, FALSE)
  <2>1. /\ Executes("requestDeviceWith") /\ Send(<<a>>) /\ closed' = TRUE
        /\ UNCHANGED <<objects, mapping, failed, gpu, dead, losing, surfaceTexture>>
        /\ UNCHANGED <<compositing, tasks, unseen>>
    BY <1>4 DEF RefuseDevice, tableVars, taskVars, gpuVars, frameVars
  <2>2. /\ Runs({"requestDeviceWith"}) /\ down[1].op = "requestDeviceWith" /\ connected
    BY <2>1, RunsView
  <2>3. a \in Replies /\ a.op \notin AnswerOps /\ a.req = 0
    BY SessionAssumption DEF Replies, Answer, AnswerOps
  <2>4. IF closed THEN up' = up ELSE Replied(a)
    BY <2>1, <2>3, RepliedView
  <2>5. Refuses
    BY <2>1, <2>2, <2>4 DEF Refuses
  <2> HIDE DEF a
  <2>7. BrowserTyped' /\ Executed
    BY <1>0, <2>1, <2>2 DEF BrowserTyped, Runs
  <2>6. Typed'
    BY <2>1, <2>2, <2>3, <2>4, <2>7, ClientTyped
  <2> QED BY <2>5, <2>6 DEF ClientStep
<1>5. ASSUME DestroyDevice PROVE Typed' /\ ClientStep
  <2>1. /\ Executes("destroyDevice") /\ dead' = dead \cup {gpu}
        /\ losing' \subseteq losing \cup {gpu}
        /\ UNCHANGED <<up, objects, mapping, failed, gpu, surfaceTexture, compositing>>
        /\ UNCHANGED <<tasks, unseen, closed>>
    BY <1>5 DEF DestroyDevice, tableVars, taskVars, frameVars
  <2>2. /\ Runs({"destroyDevice"}) /\ down[1].op = "destroyDevice"
    BY <2>1, RunsView
  <2>3. Passes
    BY <2>1, <2>2 DEF Passes, Runs
  <2>4. losing' \subseteq dead' /\ dead' \subseteq 1 .. gpu'
    BY <1>0, <2>1, ClientExecutorAssumption DEF BrowserTyped
  <2>5. Typed'
    BY <1>0, <1>c, <2>1, <2>4 DEF BrowserTyped
  <2> QED BY <2>3, <2>5 DEF ClientStep
<1>6. ASSUME NEW op \in CreateOps, NEW state \in {"unmapped", "mapped"}, CreateBuffer(op, state),
             state = "unmapped" <=> op = "createBuffer"
      PROVE  Typed' /\ ClientStep
  <2>1. /\ Executes(op) /\ objects' = objects \cup {down[1].object}
        /\ mapping' = [mapping EXCEPT ![down[1].object] = state]
        /\ UNCHANGED <<up, failed, gpu, dead, losing, surfaceTexture, compositing>>
        /\ UNCHANGED <<tasks, unseen, closed>>
    BY <1>6, RunsView DEF CreateBuffer, taskVars, gpuVars, frameVars
  <2>2. /\ Runs({op}) /\ down[1].op = op /\ down[1].object \in Buffers
    BY <1>a, <2>1, RunsView, Operations
  <2>3. MakesBuffer
    BY <1>6, <2>1, <2>2 DEF MakesBuffer, Runs
  <2>4. objects' \subseteq Objects /\ mapping' \in [Buffers -> MapStates]
    BY <1>0, <2>1, <2>2 DEF BrowserTyped, MapStates
  <2>5. Typed'
    BY <1>0, <1>c, <2>1, <2>4 DEF BrowserTyped
  <2> QED BY <2>3, <2>5 DEF ClientStep
<1>14. ASSUME NEW op \in CreateOps, FailBuffer(op) PROVE Typed' /\ ClientStep
  <2>1. /\ Executes(op) /\ failed' = failed \cup {down[1].object}
        /\ UNCHANGED <<up, objects, mapping, gpu, dead, losing, surfaceTexture, compositing>>
        /\ UNCHANGED <<tasks, unseen, closed>>
    BY <1>14, RunsView DEF FailBuffer, taskVars, gpuVars, frameVars
  <2>2. /\ Runs({op}) /\ down[1].op = op /\ down[1].object \in Buffers
    BY <1>a, <2>1, RunsView, Operations
  <2>3. FailsBuffer
    BY <1>14, <2>1, <2>2 DEF FailsBuffer, Runs
  <2>4. failed' \subseteq Buffers
    BY <1>0, <2>1, <2>2 DEF BrowserTyped
  <2>5. Typed'
    BY <1>0, <1>c, <2>1, <2>4 DEF BrowserTyped
  <2> QED BY <2>3, <2>5 DEF ClientStep
<1>7. ASSUME NEW op \in MapOps, MapBuffer(op) PROVE Typed' /\ ClientStep
  <2>1. /\ Executes(op)
        /\ UNCHANGED <<up, objects, failed, gpu, dead, losing, surfaceTexture, compositing>>
        /\ UNCHANGED closed
    BY <1>7 DEF MapBuffer, gpuVars, frameVars
  <2>2. /\ Runs({op}) /\ down[1].op = op /\ Command = down[1]
        /\ WellFormed(down[1], calls.requests)
    BY <2>1, RunsView
  <2>3. CASE Known(down[1].object)
    <3>1. /\ tasks' = tasks \cup {down[1]} /\ UNCHANGED unseen
          /\ mapping' = [mapping EXCEPT ![down[1].object] =
                            IF @ = "unmapped" THEN "pending" ELSE @]
      BY <1>7, <2>2, <2>3 DEF MapBuffer
    <3>2. StartsMap
      BY <1>7, <2>1, <2>2, <2>3, <3>1 DEF StartsMap, Runs
    <3>3. mapping' \in [Buffers -> MapStates]
      BY <1>0, <3>1 DEF BrowserTyped, MapStates
    <3>4. Typed'
      BY <1>0, <1>c, <2>1, <3>1, <3>3, Operations DEF BrowserTyped
    <3> QED BY <3>2, <3>4 DEF ClientStep
  <2>4. CASE ~Known(down[1].object)
    <3>1. unseen' = unseen \cup {down[1].req} /\ UNCHANGED <<tasks, mapping>>
      BY <1>7, <2>2, <2>4 DEF MapBuffer
    <3>2. MissesMap
      BY <1>7, <2>1, <2>2, <2>4, <3>1 DEF MissesMap, Runs
    <3>3. down[1].req \in 1 .. MaxRequests
      <4>1. down[1].op \in AskOps
        BY <2>2, Operations
      <4> QED BY <2>2, <4>1, SessionAssumption DEF WellFormed, Shaped, CallsType
    <3>4. Typed'
      BY <1>0, <1>c, <2>1, <3>1, <3>3 DEF BrowserTyped
    <3> QED BY <3>2, <3>4 DEF ClientStep
  <2> QED BY <2>3, <2>4
<1>8. ASSUME UnmapBuffer PROVE Typed' /\ ClientStep
  <2>1. /\ Executes("unmap")
        /\ UNCHANGED <<up, objects, failed, gpu, dead, losing, surfaceTexture, compositing>>
        /\ UNCHANGED <<tasks, unseen, closed>>
    BY <1>8 DEF UnmapBuffer, taskVars, gpuVars, frameVars
  <2>2. /\ Runs({"unmap"}) /\ down[1].op = "unmap" /\ Command = down[1]
    BY <2>1, RunsView
  <2>6. PICK kept \in {{"destroyed"}, {"destroyed", "taken"}} :
          mapping' = [mapping EXCEPT ![down[1].object] =
                         IF Known(down[1].object) /\ @ \notin kept THEN "unmapped" ELSE @]
    <3>1. PICK copies \in BOOLEAN :
            mapping' = [mapping EXCEPT ![down[1].object] =
                         IF Known(down[1].object) /\ @ # "destroyed" /\ ~(@ = "taken" /\ copies)
                         THEN "unmapped" ELSE @]
      BY <1>8, <2>2 DEF UnmapBuffer
    <3>2. CASE copies
      <4>1. mapping' = [mapping EXCEPT ![down[1].object] =
                 IF Known(down[1].object) /\ @ \notin {"destroyed", "taken"}
                 THEN "unmapped" ELSE @]
        BY <3>1, <3>2
      <4> QED BY <4>1
    <3>3. CASE ~copies
      <4>1. mapping' = [mapping EXCEPT ![down[1].object] =
                 IF Known(down[1].object) /\ @ \notin {"destroyed"} THEN "unmapped" ELSE @]
        BY <3>1, <3>3
      <4> QED BY <4>1
    <3> QED BY <3>2, <3>3
  <2>3. UnmapsBuffer
    BY <2>1, <2>2, <2>6 DEF UnmapsBuffer, Runs
  <2>4. mapping' \in [Buffers -> MapStates]
    BY <1>0, <2>6 DEF BrowserTyped, MapStates
  <2>5. Typed'
    BY <1>0, <1>c, <2>1, <2>4 DEF BrowserTyped
  <2> QED BY <2>3, <2>5 DEF ClientStep
<1>9. ASSUME DestroyResource PROVE Typed' /\ ClientStep
  <2>1. /\ Executes("destroyResource") /\ mapping' = Destroyed(down[1].object)
        /\ UNCHANGED <<up, objects, failed, gpu, dead, losing, surfaceTexture, compositing>>
        /\ UNCHANGED <<tasks, unseen, closed>>
    BY <1>9, RunsView DEF DestroyResource, taskVars, gpuVars, frameVars
  <2>2. /\ Runs({"destroyResource"}) /\ down[1].op = "destroyResource"
    BY <2>1, RunsView
  <2>3. DestroysResource
    BY <2>1, <2>2 DEF DestroysResource, Runs
  <2>5. Typed'
    BY <1>0, <1>b, <1>c, <2>1 DEF BrowserTyped
  <2> QED BY <2>3, <2>5 DEF ClientStep
<1>10. ASSUME DestroyObject PROVE Typed' /\ ClientStep
  <2>1. /\ Executes("destroyObject") /\ mapping' = Destroyed(down[1].object)
        /\ objects' = objects \ {down[1].object}
        /\ UNCHANGED <<up, failed, gpu, dead, losing, surfaceTexture, compositing>>
        /\ UNCHANGED <<tasks, unseen, closed>>
    BY <1>10, RunsView DEF DestroyObject, taskVars, gpuVars, frameVars
  <2>2. /\ Runs({"destroyObject"}) /\ down[1].op = "destroyObject"
    BY <2>1, RunsView
  <2>3. DropsObject
    BY <2>1, <2>2 DEF DropsObject, Runs
  <2>5. Typed'
    BY <1>0, <1>b, <1>c, <2>1 DEF BrowserTyped
  <2> QED BY <2>3, <2>5 DEF ClientStep
<1>11. ASSUME NEW op \in {"ask", "popErrorScope", "loadTexture"}, StartTask(op)
       PROVE  Typed' /\ ClientStep
  <2>1. /\ Executes(op) /\ tasks' = tasks \cup {down[1]}
        /\ UNCHANGED <<up, objects, mapping, failed, gpu, dead, losing, surfaceTexture>>
        /\ UNCHANGED <<unseen, compositing, closed>>
    BY <1>11, RunsView DEF StartTask, tableVars, gpuVars, frameVars
  <2>2. /\ Runs({op}) /\ down[1].op = op
    BY <2>1, RunsView
  <2>3. StartsTask
    BY <1>11, <2>1, <2>2 DEF StartsTask, Runs
  <2>4. op \in AskOps
    BY DEF AskOps
  <2>5. Typed'
    BY <1>0, <1>c, <2>1, <2>4 DEF BrowserTyped
  <2> QED BY <2>3, <2>5 DEF ClientStep
<1>12. ASSUME NEW op \in {"configure", "unconfigure"}, Executes(op), surfaceTexture' \in BOOLEAN,
              UNCHANGED <<up, tableVars, taskVars, gpuVars, compositing, closed>>
       PROVE  Typed' /\ ClientStep
  <2>1. UNCHANGED <<up, objects, mapping, failed, gpu, dead, losing, compositing, tasks, unseen,
                    closed>>
    BY <1>12 DEF tableVars, taskVars, gpuVars
  <2>2. /\ Runs({op}) /\ down[1].op = op
    BY <1>12, RunsView
  <2>3. Passes
    BY <2>1, <2>2 DEF Passes, Runs
  <2>4. Typed'
    BY <1>0, <1>12, <1>c, <2>1 DEF BrowserTyped
  <2> QED BY <2>3, <2>4 DEF ClientStep
<1>13. ASSUME GetCurrentTexture PROVE Typed' /\ ClientStep
  <2>1. /\ Executes("acquire")
        /\ objects' = (IF surfaceTexture THEN objects \cup {down[1].object} ELSE objects)
        /\ UNCHANGED <<up, mapping, failed, gpu, dead, losing, surfaceTexture, compositing>>
        /\ UNCHANGED <<tasks, unseen, closed>>
    BY <1>13, RunsView DEF GetCurrentTexture, taskVars, gpuVars, frameVars
  <2>2. /\ Runs({"acquire"}) /\ down[1].op = "acquire" /\ down[1].object \in Frames
    BY <2>1, RunsView DEF WellFormed
  <2>3. Acquires
    BY <2>1, <2>2 DEF Acquires, Runs
  <2>4. objects' \subseteq Objects
    BY <1>0, <2>1, <2>2 DEF BrowserTyped
  <2>5. Typed'
    BY <1>0, <1>c, <2>1, <2>4 DEF BrowserTyped
  <2> QED BY <2>3, <2>5 DEF ClientStep
<1> QED
  <2>1. /\ "mapRead" \in MapOps /\ "mapWrite" \in MapOps
        /\ "createBuffer" \in CreateOps /\ "createMappedBuffer" \in CreateOps
    BY DEF MapOps, CreateOps
  <2>2. CASE CreateBuffer("createBuffer", "unmapped")
    BY <1>6, <2>1, <2>2
  <2>3. CASE CreateBuffer("createMappedBuffer", "mapped")
    BY <1>6, <2>1, <2>3
  <2>4. CASE RequestDevice \/ Use
    BY <1>1, <2>4 DEF RequestDevice, Use
  <2>5. CASE ConfigureSurface \/ SurfaceUnconfigure
    BY <1>0, <1>12, <2>5 DEF ConfigureSurface, SurfaceUnconfigure, BrowserTyped
  <2> QED BY <2>1, <2>2, <2>3, <2>4, <2>5, <1>2, <1>3, <1>4, <1>5, <1>7, <1>8, <1>9, <1>10, <1>11,
             <1>13, <1>14 DEF Execute

LEMMA BrowserTypes ==
    ASSUME Typed, UNCHANGED serverVars,
           \/ AnimationFrame \/ \E g \in 1 .. gpu : LoseDevice(g) \/ ReportLost(g)
           \/ \E t \in tasks : Settle(t)
    PROVE  Typed' /\ (ClientStep \/ AppStep)
<1> USE AppObjects DEF Typed
<1>0. BrowserTyped
  BY DEF TypeOK, BrowserTyped, MapStates
<1>a. ServerKept
  BY DEF ServerKept, serverVars, handleVars
<1>1. ASSUME AnimationFrame PROVE Typed' /\ ClientStep
  <2> DEFINE a == Answer("presentDone", 0, TRUE)
  <2>1. /\ compositing /\ compositing' = FALSE /\ Send(<<a>>)
        /\ UNCHANGED <<down, objects, mapping, failed, gpu, dead, losing, surfaceTexture>>
        /\ UNCHANGED <<tasks, unseen, closed>>
    BY <1>1 DEF AnimationFrame, tableVars, taskVars, gpuVars
  <2>2. a \in Replies /\ a.op \notin AnswerOps /\ a.req = 0
    BY SessionAssumption DEF Replies, Answer, AnswerOps
  <2>3. IF closed THEN up' = up ELSE Replied(a)
    BY <2>1, <2>2, RepliedView
  <2>4. ShowsFrame
    BY <1>a, <2>1, <2>3 DEF ShowsFrame
  <2> HIDE DEF a
  <2>6. BrowserTyped'
    BY <1>0, <2>1 DEF BrowserTyped
  <2>5. Typed'
    BY <2>1, <2>2, <2>3, <2>6, ClientTyped
  <2> QED BY <2>4, <2>5 DEF ClientStep
<1>2. ASSUME NEW g \in 1 .. gpu, LoseDevice(g) PROVE Typed' /\ AppStep
  <2>1. /\ dead' = dead \cup {g} /\ losing' = losing \cup {g}
        /\ UNCHANGED <<down, up, objects, mapping, failed, gpu, surfaceTexture, compositing>>
        /\ UNCHANGED <<tasks, unseen, closed>>
    BY <1>2 DEF LoseDevice, tableVars, taskVars, frameVars
  <2>2. Idle
    BY <1>a, <2>1 DEF Idle, ServerKept
  <2>3. BrowserTyped'
    BY <1>0, <2>1 DEF BrowserTyped
  <2>4. Typed'
    BY <2>1, <2>3, ClientTyped
  <2> QED BY <2>2, <2>4 DEF AppStep
<1>4. ASSUME NEW g \in 1 .. gpu, ReportLost(g) PROVE Typed' /\ ClientStep
  <2> DEFINE a == Answer("deviceLost", 0, TRUE)
  <2>1. /\ losing' = losing \ {g} /\ Send(<<a>>)
        /\ UNCHANGED <<down, objects, mapping, failed, gpu, dead, surfaceTexture, compositing>>
        /\ UNCHANGED <<tasks, unseen, closed>>
    BY <1>4 DEF ReportLost, tableVars, taskVars, frameVars
  <2>2. a \in Replies /\ a.op \notin AnswerOps /\ a.req = 0
    BY SessionAssumption DEF Replies, Answer, AnswerOps
  <2>3. IF closed THEN up' = up ELSE Replied(a)
    BY <2>1, <2>2, RepliedView
  <2>4. ReportsLoss
    BY <1>a, <2>1, <2>3 DEF ReportsLoss
  <2> HIDE DEF a
  <2>6. BrowserTyped'
    BY <1>0, <2>1 DEF BrowserTyped
  <2>5. Typed'
    BY <2>1, <2>2, <2>3, <2>6, ClientTyped
  <2> QED BY <2>4, <2>5 DEF ClientStep
<1>3. ASSUME NEW t \in tasks, Settle(t) PROVE Typed' /\ ClientStep
  <2>1. /\ tasks' = tasks \ {t}
        /\ UNCHANGED <<down, failed, gpu, dead, losing, surfaceTexture, compositing, closed>>
    BY <1>3 DEF Settle, gpuVars, frameVars
  <2>2. /\ WellFormed(t, calls.requests) /\ t.op \in AskOps
        /\ t.req \in 1 .. MaxRequests
    <3>1. calls.requests \in 0 .. MaxRequests /\ WellFormed(t, calls.requests)
          /\ t.op \in AskOps
      BY DEF Shaped, Tasks, CallsType
    <3> QED BY <3>1, SessionAssumption DEF WellFormed
  <2>4. ASSUME NEW a \in Replies, Send(<<a>>), a.op \in AnswerOps, a.req = t.req, UNCHANGED unseen,
               objects' \subseteq Objects, mapping' \in [Buffers -> MapStates]
        PROVE  Typed' /\ Ends(t, a)
    <3>1. IF closed THEN up' = up ELSE Replied(a)
      BY <2>4, RepliedView
    <3>2. Ends(t, a)
      BY <1>a, <2>1, <2>4, <3>1 DEF Ends
    <3>4. BrowserTyped' /\ a.req # 0
      BY <1>0, <2>1, <2>2, <2>4 DEF BrowserTyped
    <3>3. Typed'
      BY <2>1, <2>4, <3>1, <3>4, ClientTyped
    <3> QED BY <3>2, <3>3
  <2>5. CASE MapSettles(t)
    <3>1. t.op \in MapOps
      BY <2>5 DEF MapSettles, MapOps
    <3>2. PICK ok \in BOOLEAN, state \in {"unmapped", "taken"} :
            /\ ok => mapping[t.object] = "pending"
            /\ mapping' = [mapping EXCEPT ![t.object] = IF @ = "pending" THEN state ELSE @]
            /\ Send(<<Answer("map", t.req, ok)>>) /\ UNCHANGED <<objects, unseen>>
      <4>1. CASE MapRejects(t)
        BY <4>1 DEF MapRejects
      <4>2. ASSUME NEW copied \in BOOLEAN, MapResolves(t, copied)
            PROVE  \E ok \in BOOLEAN, state \in {"unmapped", "taken"} :
              /\ ok => mapping[t.object] = "pending"
              /\ mapping' = [mapping EXCEPT ![t.object] = IF @ = "pending" THEN state ELSE @]
              /\ Send(<<Answer("map", t.req, ok)>>) /\ UNCHANGED <<objects, unseen>>
        <5> DEFINE state == IF copied /\ t.op = "mapRead" THEN "unmapped" ELSE "taken"
        <5>1. /\ mapping[t.object] = "pending" /\ state \in {"unmapped", "taken"}
              /\ mapping' = [mapping EXCEPT ![t.object] = state]
              /\ Send(<<Answer("map", t.req, copied)>>) /\ UNCHANGED <<objects, unseen>>
          BY <4>2 DEF MapResolves
        <5> HIDE DEF state
        <5>2. mapping' = [mapping EXCEPT ![t.object] = IF @ = "pending" THEN state ELSE @]
          BY <5>1
        <5> QED BY <5>1, <5>2
      <4> QED BY <2>5, <4>1, <4>2 DEF MapSettles
    <3> DEFINE a == Answer("map", t.req, ok)
    <3>3. a \in Replies /\ a.op \in AnswerOps /\ a.req = t.req
      BY <2>2 DEF Answer, Replies, AnswerOps
    <3>4. mapping' \in [Buffers -> MapStates] /\ objects' \subseteq Objects
      BY <1>0, <3>2 DEF BrowserTyped, MapStates
    <3>5. Typed' /\ Ends(t, a)
      BY <2>4, <3>2, <3>3, <3>4
    <3>6. EndsMap(t, ok)
      BY <3>1, <3>2, <3>5 DEF EndsMap
    <3> QED BY <3>5, <3>6 DEF ClientStep
  <2>6. ASSUME NEW ok \in BOOLEAN, LoadSettles(t, ok) PROVE Typed' /\ ClientStep
    <3> DEFINE a == Answer("load", t.req, ok)
    <3>1. a \in Replies /\ a.op \in AnswerOps /\ a.req = t.req /\ t.op = "loadTexture"
      BY <2>2, <2>6 DEF Answer, Replies, LoadSettles, AnswerOps
    <3>2. t.object \in Textures
      BY <2>2, <3>1 DEF WellFormed
    <3>3. /\ objects' = (IF ok THEN objects \cup {t.object} ELSE objects)
          /\ Send(<<a>>) /\ UNCHANGED <<mapping, unseen>>
      BY <2>6 DEF LoadSettles
    <3>4. objects' \subseteq Objects /\ mapping' \in [Buffers -> MapStates]
      BY <1>0, <3>2, <3>3 DEF BrowserTyped
    <3>5. Typed' /\ Ends(t, a)
      BY <2>4, <3>1, <3>3, <3>4
    <3>6. EndsLoad(t, ok)
      BY <3>1, <3>3, <3>5 DEF EndsLoad
    <3> QED BY <3>5, <3>6 DEF ClientStep
  <2>7. CASE AskSettles(t)
    <3> DEFINE a == Answer(t.op, t.req, TRUE)
    <3>1. /\ t.op \in QuestionOps /\ UNCHANGED <<objects, mapping, unseen>> /\ Send(<<a>>)
      BY <2>7 DEF AskSettles, QuestionOps
    <3>2. a \in Replies /\ a.op \in AnswerOps /\ a.req = t.req
      BY <2>2, <3>1 DEF Answer, Replies, AnswerOps, QuestionOps
    <3>3. objects' \subseteq Objects /\ mapping' \in [Buffers -> MapStates]
      BY <1>0, <3>1 DEF BrowserTyped
    <3>4. Typed' /\ Ends(t, a)
      BY <2>4, <3>1, <3>2, <3>3
    <3>5. EndsAsk(t)
      BY <3>1, <3>4 DEF EndsAsk
    <3> QED BY <3>4, <3>5 DEF ClientStep
  <2>8. CASE AskRejects(t)
    <3>1. /\ t.op = "ask" /\ unseen' = unseen \cup {t.req} /\ UNCHANGED <<up, objects, mapping>>
      BY <2>8 DEF AskRejects
    <3>2. BrowserTyped'
      BY <1>0, <2>1, <2>2, <3>1 DEF BrowserTyped
    <3>3. Typed'
      BY <2>1, <3>1, <3>2, ClientTyped
    <3>4. LosesAsk(t)
      BY <1>a, <2>1, <3>1 DEF LosesAsk
    <3> QED BY <3>3, <3>4 DEF ClientStep
  <2> QED BY <1>3, <2>5, <2>6, <2>7, <2>8 DEF Settle
<1> QED BY <1>1, <1>2, <1>3, <1>4

-----------------------------------------------------------------------------
(* Replies, and the end of the connection.                                 *)

\* Each request has its own number, and an answer is of its request's kind.
Numbered ==
    /\ \A r, s \in requests : r.req = s.req => r = s
    /\ \A i \in U : up[i].req # 0 =>
          \E r \in requests : r.req = up[i].req /\ up[i].op = Kind(r.op)

\* Request r is answered.
Takes(r) ==
    /\ connected /\ Heard
    /\ r \in requests /\ r.req = up[1].req /\ up[1].req # 0 /\ up[1].op = Kind(r.op)
    /\ requests' = requests \ {r}
    /\ owned' = IF up[1].op = "load" /\ up[1].ok THEN owned \cup {r.object} ELSE owned
    /\ IF r.object = NoObject \/ r.object \in owned' THEN down' = down
       ELSE Sent(Cmd("destroyObject", r.object, 0))
    /\ map_state' = IF up[1].op = "map"
                    THEN [map_state EXCEPT ![r.object] =
                             IF up[1].ok THEN "Mapped" ELSE "Unmapped"]
                    ELSE map_state
    /\ UNCHANGED <<objects, mapping, failed, tasks, unseen, compositing, closed, connected,
                   issued, calls>>

Notices ==
    /\ connected /\ Heard /\ up[1].req = 0
    /\ calls' \in CallsType /\ calls'.requests = calls.requests /\ calls'.sent = calls.sent
    /\ calls'.done = IF up[1].op = "presentDone" /\ calls.done < calls.sent
                     THEN calls.done + 1 ELSE calls.done
    /\ UNCHANGED <<down, objects, mapping, failed, tasks, unseen, compositing, closed, connected,
                   owned, map_state, requests, issued>>

Breaks ==
    /\ connected /\ ~connected' /\ closed'
    /\ down' = <<>> /\ up' = <<>> /\ tasks' = {} /\ ~compositing' /\ requests' = {}
    /\ map_state' = [b \in Buffers |->
                        IF map_state[b] = "Pending" THEN "Unmapped" ELSE map_state[b]]
    /\ UNCHANGED <<objects, mapping, failed, unseen, owned, issued, calls>>

ReceiveStep == (\E r \in requests : Takes(r)) \/ Notices \/ Breaks

LEMMA ReceivesView ==
    ASSUME Typed, NEW op, Receives(op)
    PROVE  /\ connected /\ Heard /\ Head(up) = up[1] /\ up[1].op = op
           /\ op \in AnswerOps <=> up[1].req # 0
           /\ up[1] \in Replies /\ 1 \in U
           /\ UNCHANGED <<objects, mapping, failed, gpu, dead, losing, surfaceTexture,
                          compositing, tasks, unseen, closed, connected, surface>>
<1>1. Heard
  BY HeardView DEF Receives, Typed
<1>2. 1 \in U
  BY <1>1, Lengths DEF U, Heard, Typed
<1>3. up[1] \in Replies
  BY <1>2, Lengths DEF Typed
<1>4. UNCHANGED <<objects, mapping, failed, gpu, dead, losing, surfaceTexture,
                          compositing, tasks, unseen, closed, connected, surface>>
  BY DEF Receives, clientVars, tableVars, taskVars, gpuVars, frameVars
<1> QED BY <1>1, <1>2, <1>3, <1>4 DEF Heard, Receives, Typed, Shaped, Ups

LEMMA UpsHeard ==
    ASSUME Typed, Heard
    PROVE  Ups'
<1>1. \A i \in 1 .. Len(up') : i + 1 \in U
  BY Lengths DEF Heard, U, Typed
<1> QED BY <1>1 DEF Heard, Ups, U, Typed, Shaped

LEMMA NoticesTyped ==
    ASSUME Typed, Notices, UNCHANGED <<gpu, dead, losing, surfaceTexture, held, of, lost_device,
                                       destroyed, surface>>, lost' \subseteq Devices
    PROVE  Typed'
<1>1. calls \in CallsType /\ calls.requests \in Nat
  BY SessionAssumption DEF Typed, Shaped, CallsType
<1>2. Ups'
  BY UpsHeard DEF Notices
<1>3. calls'.done <= calls'.sent
  BY <1>1 DEF Notices, Typed, TypeOK, CallsType
<1>6. lost_device' \in Referenced' \cup {NoDevice}
  BY DEF Notices, Typed, TypeOK, Referenced, Pinned
<1>4. TypeOK'
  BY <1>3, <1>6 DEF Notices, Typed, TypeOK, Heard, Replies, AnswerOps
<1>5. Tasks' /\ Pending' /\ Downs' /\ Over' /\ Given'
  BY DEF Notices, Typed, Shaped, Tasks, Pending, Downs, Over, Given, D
<1> QED BY <1>2, <1>4, <1>5 DEF Typed, Shaped, Notices

LEMMA TakesTyped ==
    ASSUME Typed, NEW r, Takes(r), ForgetFreed,
           UNCHANGED <<gpu, dead, losing, surfaceTexture, held, of, lost, destroyed, surface>>
    PROVE  Typed'
<1>1. calls \in CallsType /\ calls.requests \in Nat
  BY SessionAssumption DEF Typed, Shaped, CallsType
<1>2. WellFormed(r, calls.requests) /\ r.op \in AskOps
  BY DEF Takes, Typed, Shaped, Pending
<1>3. owned' \subseteq Objects /\ Given'
  <2>3. /\ owned \subseteq Objects /\ Given /\ r \in requests /\ requests' \subseteq requests
        /\ UNCHANGED issued
        /\ owned' = IF up[1].op = "load" /\ up[1].ok THEN owned \cup {r.object} ELSE owned
    BY DEF Takes, Typed, TypeOK, Shaped
  <2>1. CASE up[1].op = "load"
    <3>1. r.op = "loadTexture"
      BY <1>2, <2>1, KindView DEF Takes
    <3>2. r.object \in Objects
      BY <1>2, <3>1, AppObjects DEF WellFormed
    <3>3. r.object \in issued
      BY <2>3, <3>2, ClientExecutorAssumption DEF Given
    <3> QED BY <2>3, <3>2, <3>3 DEF Given
  <2>2. CASE up[1].op # "load"
    BY <2>2, <2>3 DEF Given
  <2> QED BY <2>1, <2>2
<1>4. map_state' \in [Buffers -> {"Unmapped", "Pending", "Mapped"}]
  BY DEF Takes, Typed, TypeOK
<1>5. down' \in Seq(Commands) /\ Downs'
  <2>1. CASE down' = down
    BY <2>1 DEF Takes, Typed, TypeOK, Shaped, Downs, D, Commands
  <2> DEFINE c == Cmd("destroyObject", r.object, 0)
  <2>2. CASE Sent(c)
    <3>1. "destroyObject" \in Ops /\ "destroyObject" \notin AskOps \cup BufferOps
      BY DEF Ops, AskOps, BufferOps
    <3>2. r.object \in Objects \cup {NoObject}
      BY <1>2 DEF WellFormed
    <3>3. WellFormed(c, calls.requests)
      BY <3>1, <3>2, PlainForm
    <3> HIDE DEF c
    <3> QED BY <1>1, <2>2, <3>3, DownsSent DEF Sent, Takes
  <2> QED BY <2>1, <2>2 DEF Takes
<1>6. Tasks' /\ Pending' /\ Over'
  BY DEF Takes, Typed, Shaped, Tasks, Pending, Over
<1>7. Ups'
  BY UpsHeard DEF Takes
<1>8. TypeOK'
  <2>1. up' \in Seq(Replies)
    BY DEF Takes, Heard
  <2>2. requests' \subseteq requests
    BY DEF Takes
  <2> QED BY <1>3, <1>4, <1>5, <2>1, <2>2, Forgotten
      DEF Takes, Typed, TypeOK, Commands, Replies, AnswerOps
<1> QED BY <1>1, <1>3, <1>5, <1>6, <1>7, <1>8 DEF Typed, Shaped, Takes

LEMMA DisconnectTypes ==
    ASSUME Typed, Disconnect
    PROVE  Typed' /\ ReceiveStep
<1>1. Breaks
  BY DEF Disconnect, Breaks, Typed, TypeOK, tableVars
<1>2. map_state' \in [Buffers -> {"Unmapped", "Pending", "Mapped"}]
  BY DEF Disconnect, Typed, TypeOK
<1>3. TypeOK'
  <2>1. down' \in Seq(Commands) /\ up' \in Seq(Replies)
    BY <1>1 DEF Breaks
  <2>2. {surfaceTexture, compositing, closed, connected}' \subseteq BOOLEAN
    BY DEF Disconnect, Typed, TypeOK
  <2> QED BY <1>1, <1>2, <2>1, <2>2, Forgotten
      DEF Disconnect, Typed, TypeOK, tableVars, Commands, Replies, AnswerOps
<1>4. Shaped'
  BY <1>1 DEF Disconnect, Typed, Shaped, Tasks, Pending, Downs, Ups, Over, Given, D, U
<1> QED BY <1>1, <1>3, <1>4 DEF Typed, ReceiveStep

LEMMA ReceiveTypes ==
    ASSUME Typed, Numbered, Receive
    PROVE  Typed' /\ ReceiveStep
<1>1. ASSUME NEW op \in AnswerOps, Receives(op), NEW r \in Asked,
             UNCHANGED <<lost, destroyed, issued, calls>>,
             Unpin(r, IF op = "load" /\ up[1].ok THEN {r.object} ELSE {}),
             map_state' = IF op = "map"
                          THEN [map_state EXCEPT ![r.object] =
                                  IF up[1].ok THEN "Mapped" ELSE "Unmapped"]
                          ELSE map_state
      PROVE  Typed' /\ ReceiveStep
  <2>1. /\ connected /\ Heard /\ Head(up) = up[1] /\ up[1].op = op /\ up[1].req # 0 /\ 1 \in U
        /\ UNCHANGED <<objects, mapping, failed, gpu, dead, losing, surfaceTexture, compositing,
                       tasks, unseen, closed, connected, surface>>
    BY <1>1, ReceivesView
  <2>2. r \in requests /\ r.req = up[1].req
    BY <1>1, <2>1 DEF Asked
  <2>3. up[1].op = Kind(r.op)
    BY <2>1, <2>2 DEF Numbered
  <2>4. WellFormed(r, calls.requests)
    BY <2>2 DEF Typed, Shaped, Pending
  <2>5. /\ requests' = requests \ {r}
        /\ owned' = IF up[1].op = "load" /\ up[1].ok THEN owned \cup {r.object} ELSE owned
        /\ down' = IF r.object = NoObject \/ r.object \in owned' THEN down
                   ELSE Append(down, Cmd("destroyObject", r.object, 0))
        /\ UNCHANGED <<held, of>> /\ ForgetFreed
    BY <1>1, <2>1 DEF Unpin
  <2>6. IF r.object = NoObject \/ r.object \in owned' THEN down' = down
        ELSE Sent(Cmd("destroyObject", r.object, 0))
    <3>1. Cmd("destroyObject", r.object, 0) \in Commands
      BY <2>4, SessionAssumption DEF WellFormed, Cmd, Commands, Ops
    <3> QED BY <2>5, <3>1, SentView DEF Typed
  <2>7. Takes(r)
    BY <1>1, <2>1, <2>2, <2>3, <2>5, <2>6 DEF Takes
  <2>8. Typed'
    BY <1>1, <2>1, <2>5, <2>7, TakesTyped
  <2> QED BY <2>2, <2>7, <2>8 DEF ReceiveStep
<1>2. CASE handle_map_buffer_data
  <2>1. Receives("map") /\ UNCHANGED <<lost, destroyed, issued, calls>>
    BY <1>2 DEF handle_map_buffer_data
  <2>2. PICK r \in Asked :
          /\ Unpin(r, {})
          /\ map_state' = [map_state EXCEPT ![r.object] =
                              IF Head(up).ok THEN "Mapped" ELSE "Unmapped"]
    BY <1>2 DEF handle_map_buffer_data
  <2>3. Head(up) = up[1]
    BY <2>1, ReceivesView
  <2> QED BY <1>1, <2>1, <2>2, <2>3 DEF AnswerOps
<1>3. CASE handle_texture_loaded
  <2>1. Receives("load") /\ UNCHANGED <<lost, destroyed, issued, calls>> /\ map_state' = map_state
    BY <1>3 DEF handle_texture_loaded
  <2>2. PICK r \in Asked : Unpin(r, IF Head(up).ok THEN {r.object} ELSE {})
    BY <1>3 DEF handle_texture_loaded
  <2>3. Head(up) = up[1]
    BY <2>1, ReceivesView
  <2> QED BY <1>1, <2>1, <2>2, <2>3 DEF AnswerOps
<1>4. ASSUME NEW op \in QuestionOps, handle_work_done(op) PROVE Typed' /\ ReceiveStep
  <2>1. Receives(op) /\ UNCHANGED <<lost, destroyed, issued, calls>> /\ map_state' = map_state
    BY <1>4 DEF handle_work_done
  <2>2. PICK r \in Asked : Unpin(r, {})
    BY <1>4 DEF handle_work_done
  <2>3. op \in AnswerOps /\ op # "map" /\ op # "load"
    BY DEF AnswerOps, QuestionOps
  <2> QED BY <1>1, <2>1, <2>2, <2>3
<1>5. CASE handle_present_done
  <2>1. /\ Receives("presentDone") /\ UNCHANGED <<down, deviceVars, handleVars>>
        /\ calls' = [calls EXCEPT !.done = IF @ < calls.sent THEN @ + 1 ELSE @]
    BY <1>5 DEF handle_present_done
  <2>2. /\ connected /\ Heard /\ Head(up) = up[1] /\ up[1].op = "presentDone" /\ up[1].req = 0
        /\ UNCHANGED <<objects, mapping, failed, gpu, dead, losing, surfaceTexture, compositing,
                       tasks, unseen, closed, connected, surface>>
    BY <2>1, ReceivesView DEF AnswerOps
  <2>3. calls \in CallsType
    BY DEF Typed, Shaped
  <2>4. /\ calls' \in CallsType /\ calls'.requests = calls.requests /\ calls'.sent = calls.sent
        /\ calls'.done = IF calls.done < calls.sent THEN calls.done + 1 ELSE calls.done
    BY <2>1, <2>3 DEF CallsType
  <2>5. Notices
    BY <2>1, <2>2, <2>4 DEF Notices, handleVars
  <2>6. Typed'
    BY <2>1, <2>2, <2>5, NoticesTyped DEF Typed, TypeOK, deviceVars
  <2> QED BY <2>5, <2>6 DEF ReceiveStep
<1>6. CASE handle_device_lost
  <2>1. /\ Receives("deviceLost")
        /\ UNCHANGED <<down, held, of, lost_device, destroyed, handleVars, calls>>
        /\ lost' = IF lost_device = NoDevice THEN lost ELSE lost \cup {lost_device}
    BY <1>6 DEF handle_device_lost
  <2>2. /\ connected /\ Heard /\ Head(up) = up[1] /\ up[1].op = "deviceLost" /\ up[1].req = 0
        /\ UNCHANGED <<objects, mapping, failed, gpu, dead, losing, surfaceTexture, compositing,
                       tasks, unseen, closed, connected, surface>>
    BY <2>1, ReceivesView DEF AnswerOps
  <2>3. calls \in CallsType
    BY DEF Typed, Shaped
  <2>4. Notices
    BY <2>1, <2>2, <2>3 DEF Notices, handleVars, CallsType
  <2>7. /\ held \cup lost \cup destroyed \subseteq Devices
        /\ of \in [Objects -> Devices \cup {NoDevice}] /\ surface \in Devices \cup {NoDevice}
        /\ lost_device \in Referenced \cup {NoDevice}
    BY DEF Typed, TypeOK
  <2>8. Referenced \subseteq Devices \cup {NoDevice}
    BY <2>7 DEF Referenced
  <2>5. lost' \subseteq Devices
    BY <2>1, <2>7, <2>8
  <2>6. Typed'
    BY <2>1, <2>2, <2>4, <2>5, NoticesTyped
  <2> QED BY <2>4, <2>6 DEF ReceiveStep
<1>7. CASE ReceiveError
  BY <1>7, DisconnectTypes DEF ReceiveError
<1> QED BY <1>2, <1>3, <1>4, <1>5, <1>6, <1>7 DEF Receive, QuestionOps

Step == AppStep \/ ClientStep \/ ReceiveStep

(* Every step keeps the types, and is one of the steps above.              *)
LEMMA NextTypes ==
    ASSUME Typed, Numbered, Next
    PROVE  Typed' /\ Step
<1>1. CASE App
  BY <1>1, AppTypes DEF Step
<1>2. CASE Receive
  BY <1>2, ReceiveTypes DEF Step
<1>3. CASE Disconnect
  BY <1>3, DisconnectTypes DEF Step
<1>4. CASE Client /\ UNCHANGED serverVars
  <2>1. CASE Execute
    BY <1>4, <2>1, ExecuteTypes DEF Step
  <2>2. CASE \/ AnimationFrame \/ \E g \in 1 .. gpu : LoseDevice(g) \/ ReportLost(g)
             \/ \E t \in tasks : Settle(t)
    BY <1>4, <2>2, BrowserTypes DEF Step
  <2> QED BY <1>4, <2>1, <2>2 DEF Client
<1> QED BY <1>1, <1>2, <1>3, <1>4 DEF Next

-----------------------------------------------------------------------------
(* Where a request is: never in two places, and in one while the           *)
(* connection lasts.                                                       *)

Asking ==
    /\ \A i \in D : down[i].req # 0 => down[i] \in requests
    /\ \A t \in tasks : t.req # 0 => t \in requests

Once ==
    /\ \A i, j \in D : down[i].req # 0 /\ down[i].req = down[j].req => i = j
    /\ \A i, j \in U : up[i].req # 0 /\ up[i].req = up[j].req => i = j

Apart ==
    /\ \A i \in D : down[i].req # 0 =>
          /\ \A t \in tasks : t.req # down[i].req
          /\ \A j \in U : up[j].req # down[i].req
    /\ \A i \in U : up[i].req # 0 => \A t \in tasks : t.req # up[i].req

Tracked == Numbered /\ Asking /\ Once /\ Apart

NoneLost ==
    connected /\ ~closed =>
        \A r \in requests : \/ \E i \in D : down[i] = r
                            \/ r \in tasks
                            \/ \E i \in U : up[i].req = r.req
                            \/ r.req \in unseen

\* What came to nothing is nowhere else, and is of a kind that may.
Unseen ==
    \A n \in unseen :
        /\ n <= calls.requests
        /\ \A i \in D : down[i].req # n
        /\ \A t \in tasks : t.req # n
        /\ \A i \in U : up[i].req # n
        /\ \A r \in requests : r.req = n => Unanswerable(r)

\* A map that is about to run finds its buffer, if it was created.
MapsFind == down # <<>> /\ down[1].op \in MapOps
                => Known(down[1].object) \/ down[1].object \in failed

LEMMA Indices ==
    ASSUME Typed
    PROVE  /\ Len(down) \in Nat /\ Len(up) \in Nat
           /\ \A c : Sent(c) => D' = D \cup {Len(down) + 1} /\ Len(down) + 1 \notin D
           /\ \A a : Replied(a) => U' = U \cup {Len(up) + 1} /\ Len(up) + 1 \notin U
           /\ Executed => 1 \in D /\ \A i \in D' : /\ i + 1 \in D /\ i + 1 # 1
                                                   /\ down'[i] = down[i + 1]
           /\ Executed => \A i \in D \ {1} : i - 1 \in D' /\ down'[i - 1] = down[i]
           /\ Executed => \A i, j \in D' : i + 1 = j + 1 => i = j
           /\ Executed => \A i, j \in D' : i + 1 < j + 1 => i < j
           /\ Heard => 1 \in U /\ \A i \in U' : /\ i + 1 \in U /\ i + 1 # 1
                                                /\ up'[i] = up[i + 1]
           /\ Heard => \A i \in U \ {1} : i - 1 \in U' /\ up'[i - 1] = up[i]
           /\ Heard => \A i, j \in U' : i + 1 = j + 1 => i = j
<1>1. Len(down) \in Nat /\ Len(up) \in Nat
  BY Lengths DEF Typed
<1>2. ASSUME NEW c, Sent(c) PROVE D' = D \cup {Len(down) + 1} /\ Len(down) + 1 \notin D
  BY <1>1, <1>2 DEF Sent, D
<1>3. ASSUME NEW a, Replied(a) PROVE U' = U \cup {Len(up) + 1} /\ Len(up) + 1 \notin U
  BY <1>1, <1>3 DEF Replied, U
<1>4. ASSUME Executed
      PROVE  /\ 1 \in D
             /\ \A i \in D' : i + 1 \in D /\ i + 1 # 1 /\ down'[i] = down[i + 1]
             /\ \A i \in D \ {1} : i - 1 \in D' /\ down'[i - 1] = down[i]
             /\ \A i, j \in D' : i + 1 = j + 1 => i = j
             /\ \A i, j \in D' : i + 1 < j + 1 => i < j
  BY <1>1, <1>4 DEF Executed, D
<1>5. ASSUME Heard
      PROVE  /\ 1 \in U
             /\ \A i \in U' : i + 1 \in U /\ i + 1 # 1 /\ up'[i] = up[i + 1]
             /\ \A i \in U \ {1} : i - 1 \in U' /\ up'[i - 1] = up[i]
             /\ \A i, j \in U' : i + 1 = j + 1 => i = j
  BY <1>1, <1>5 DEF Heard, U
<1> QED BY <1>1, <1>2, <1>3, <1>4, <1>5

(* A command without a request is sent.                                    *)
LEMMA TrackedSent ==
    ASSUME Typed, Tracked, NEW c, Sent(c), c.req = 0,
           UNCHANGED <<up, tasks, requests>>
    PROVE  Tracked'
<1>1. D' = D \cup {Len(down) + 1} /\ down'[Len(down) + 1].req = 0
      /\ \A i \in D : down'[i] = down[i]
  BY Indices DEF Sent
<1>2. U' = U
  BY DEF U
<1>3. Numbered'
  BY <1>2 DEF Tracked, Numbered
<1>4. Asking'
  BY <1>1 DEF Tracked, Asking
<1>5. Once'
  BY <1>1, <1>2 DEF Tracked, Once
<1>6. Apart'
  BY <1>1, <1>2 DEF Tracked, Apart
<1> QED BY <1>3, <1>4, <1>5, <1>6 DEF Tracked

(* A request is made.                                                      *)
LEMMA TrackedAsks ==
    ASSUME Typed, Tracked, NEW c, Asks(c)
    PROVE  Tracked'
<1>0. UNCHANGED <<up, tasks>> /\ requests' = requests \cup {c} /\ Sent(c)
      /\ c.req = calls.requests + 1
  BY DEF Asks, Issued
<1>1. D' = D \cup {Len(down) + 1} /\ down'[Len(down) + 1] = c
      /\ \A i \in D : down'[i] = down[i]
  BY <1>0, Indices DEF Sent
<1>2. U' = U
  BY <1>0 DEF U
<1>3. calls.requests \in Nat /\ c.req # 0
  BY <1>0, SessionAssumption DEF Typed, Shaped, CallsType
<1>4. /\ \A r \in requests : r.req # c.req
      /\ \A i \in D : down[i].req # c.req
      /\ \A t \in tasks : t.req # c.req
  <2>1. \A r : WellFormed(r, calls.requests) => r.req # c.req
    BY <1>0, <1>3 DEF WellFormed
  <2> QED BY <2>1 DEF Typed, Shaped, Pending, Downs, Tasks
<1>5. \A i \in U : up[i].req # c.req
  BY <1>3, <1>4 DEF Tracked, Numbered
<1>6. Numbered'
  BY <1>0, <1>2, <1>4 DEF Tracked, Numbered
<1>7. Asking'
  BY <1>0, <1>1 DEF Tracked, Asking
<1>8. Once'
  BY <1>0, <1>1, <1>2, <1>4 DEF Tracked, Once
<1>9. Apart'
  BY <1>0, <1>1, <1>2, <1>4, <1>5 DEF Tracked, Apart
<1> QED BY <1>6, <1>7, <1>8, <1>9 DEF Tracked

(* The browser does something about no request.                            *)
LEMMA TrackedQuiet ==
    ASSUME Typed, Tracked, Executed \/ down' = down,
           up' = up \/ \E a : Replied(a) /\ a.req = 0,
           tasks' \subseteq tasks, UNCHANGED requests
    PROVE  Tracked'
<1>1. ASSUME NEW i \in D'
      PROVE  \E k \in D : down'[i] = down[k] /\ k = IF Executed THEN i + 1 ELSE i
  BY <1>1, Indices DEF D
<1>2. ASSUME NEW i \in U'
      PROVE  up'[i].req = 0 \/ (i \in U /\ up'[i] = up[i])
  BY <1>2, Indices DEF U, Replied
<1>3. Numbered'
  BY <1>2 DEF Tracked, Numbered
<1>4. Asking'
  BY <1>1 DEF Tracked, Asking
<1>5. Once'
  <2>1. ASSUME NEW i \in D', NEW j \in D', down'[i].req # 0, down'[i].req = down'[j].req
        PROVE  i = j
    <3>1. PICK k \in D : down'[i] = down[k] /\ k = IF Executed THEN i + 1 ELSE i
      BY <1>1
    <3>2. PICK l \in D : down'[j] = down[l] /\ l = IF Executed THEN j + 1 ELSE j
      BY <1>1
    <3>3. k = l
      BY <2>1, <3>1, <3>2 DEF Tracked, Once
    <3>4. i \in Int /\ j \in Int
      BY DEF D
    <3> QED BY <3>1, <3>2, <3>3, <3>4
  <2>2. \A i, j \in U' : up'[i].req # 0 /\ up'[i].req = up'[j].req => i = j
    BY <1>2 DEF Tracked, Once
  <2> QED BY <2>1, <2>2 DEF Once
<1>6. Apart'
  BY <1>1, <1>2 DEF Tracked, Apart
<1> QED BY <1>3, <1>4, <1>5, <1>6 DEF Tracked

(* A command becomes a task.                                               *)
LEMMA TrackedStarts ==
    ASSUME Typed, Tracked, Executed, tasks' = tasks \/ tasks' = tasks \cup {down[1]},
           UNCHANGED <<up, requests>>
    PROVE  Tracked'
<1>0. 1 \in D /\ \A i \in D' : i + 1 \in D /\ i + 1 # 1 /\ down'[i] = down[i + 1]
  BY Indices
<1>1. U' = U
  BY DEF U
<1>2. Numbered'
  BY <1>1 DEF Tracked, Numbered
<1>3. Asking'
  BY <1>0 DEF Tracked, Asking
<1>4. Once'
  <2>1. \A i, j \in D' : i + 1 = j + 1 => i = j
    BY Indices
  <2> QED BY <1>0, <1>1, <2>1 DEF Tracked, Once
<1>5. Apart'
  <2>1. ASSUME NEW i \in D', down'[i].req # 0
        PROVE  down'[i].req # down[1].req
    BY <1>0, <2>1 DEF Tracked, Once
  <2>2. ASSUME NEW i \in D', down'[i].req # 0
        PROVE  (\A t \in tasks' : t.req # down'[i].req)
               /\ (\A j \in U' : up'[j].req # down'[i].req)
    BY <1>0, <1>1, <2>1, <2>2 DEF Tracked, Apart
  <2>3. ASSUME NEW i \in U', up'[i].req # 0
        PROVE  \A t \in tasks' : t.req # up'[i].req
    BY <1>0, <1>1, <2>3 DEF Tracked, Apart
  <2> QED BY <2>2, <2>3 DEF Apart
<1> QED BY <1>2, <1>3, <1>4, <1>5 DEF Tracked

(* A task is answered, unless the socket is closed.                        *)
LEMMA TrackedEnds ==
    ASSUME Typed, Tracked, NEW t, NEW a, Ends(t, a), a.req = t.req,
           a.req # 0 => a.op = Kind(t.op)
    PROVE  Tracked'
<1>0. /\ t \in tasks /\ tasks' = tasks \ {t} /\ UNCHANGED <<down, requests>>
      /\ up' = up \/ Replied(a)
  BY DEF Ends, ServerKept
<1>1. D' = D
  BY <1>0 DEF D
<1>2. ASSUME NEW i \in U'
      PROVE  \/ i \in U /\ up'[i] = up[i]
             \/ Replied(a) /\ up'[i] = a /\ i = Len(up) + 1
  BY <1>0, <1>2, Indices DEF U, Replied
<1>3. a.req # 0 => t \in requests
  BY <1>0 DEF Tracked, Asking
<1>4. \A s \in tasks' : s.req # 0 => s.req # a.req
  BY <1>0, <1>3 DEF Tracked, Asking, Numbered
<1>5. \A i \in U : up[i].req # 0 => up[i].req # a.req
  BY <1>0 DEF Tracked, Apart
<1>6. \A i \in D : down[i].req # 0 => down[i].req # a.req
  BY <1>0 DEF Tracked, Apart
<1>7. Numbered'
  BY <1>0, <1>2, <1>3 DEF Tracked, Numbered
<1>8. Asking'
  BY <1>0, <1>1 DEF Tracked, Asking
<1>9. Once'
  BY <1>0, <1>1, <1>2, <1>5 DEF Tracked, Once
<1>10. Apart'
  BY <1>0, <1>1, <1>2, <1>4, <1>6 DEF Tracked, Apart
<1> QED BY <1>7, <1>8, <1>9, <1>10 DEF Tracked

(* An answer arrives.                                                      *)
LEMMA TrackedTakes ==
    ASSUME Typed, Tracked, NEW r, Takes(r)
    PROVE  Tracked'
<1> DEFINE c == Cmd("destroyObject", r.object, 0)
<1>0. /\ r \in requests /\ r.req = up[1].req /\ up[1].req # 0 /\ requests' = requests \ {r}
      /\ UNCHANGED tasks /\ Heard
      /\ down' = down \/ Sent(c)
  BY DEF Takes
<1>1. c.req = 0
  BY DEF Cmd
<1> HIDE DEF c
<1>2. ASSUME NEW i \in D'
      PROVE  down'[i].req = 0 \/ (i \in D /\ down'[i] = down[i])
  BY <1>0, <1>1, <1>2, Indices DEF D, Sent
<1>3. 1 \in U /\ \A i \in U' : i + 1 \in U /\ i + 1 # 1 /\ up'[i] = up[i + 1]
  BY <1>0, Indices
<1>4. \A i \in U' : up'[i].req # 0 => up'[i].req # r.req
  BY <1>0, <1>3 DEF Tracked, Once
<1>5. \A i \in D : down[i].req # r.req
  BY <1>0, <1>3 DEF Tracked, Apart
<1>6. \A t \in tasks : t.req # r.req
  BY <1>0, <1>3 DEF Tracked, Apart
<1>7. Numbered'
  BY <1>0, <1>3, <1>4 DEF Tracked, Numbered
<1>8. Asking'
  BY <1>0, <1>2, <1>5, <1>6 DEF Tracked, Asking
<1>9. Once'
  <2>1. \A i, j \in U' : i + 1 = j + 1 => i = j
    BY <1>0, Indices
  <2> QED BY <1>2, <1>3, <2>1 DEF Tracked, Once
<1>10. Apart'
  BY <1>0, <1>2, <1>3 DEF Tracked, Apart
<1> QED BY <1>7, <1>8, <1>9, <1>10 DEF Tracked

LEMMA TrackedNotices ==
    ASSUME Typed, Tracked, Heard, UNCHANGED <<down, tasks, requests>>
    PROVE  Tracked'
<1>1. D' = D
  BY DEF D
<1>2. \A i \in U' : i + 1 \in U /\ i + 1 # 1 /\ up'[i] = up[i + 1]
  BY Indices
<1>3. Numbered' /\ Asking'
  BY <1>1, <1>2 DEF Tracked, Numbered, Asking
<1>4. Once'
  <2>1. \A i, j \in U' : i + 1 = j + 1 => i = j
    BY Indices
  <2> QED BY <1>1, <1>2, <2>1 DEF Tracked, Once
<1>5. Apart'
  BY <1>1, <1>2 DEF Tracked, Apart
<1> QED BY <1>3, <1>4, <1>5 DEF Tracked

LEMMA TrackedStep ==
    ASSUME Typed, Tracked, Step
    PROVE  Tracked'
<1>1. ASSUME NEW c, Tells(c) \/ Makes(c) \/ Unmaps(c) \/ GivesUp(c)
      PROVE  Tracked'
  <2>1. Issued(c) /\ UNCHANGED requests /\ c.op \notin AskOps
    BY <1>1 DEF Tells, Makes, Unmaps, GivesUp, Drops, AskOps
  <2>2. Sent(c) /\ UNCHANGED <<up, tasks>> /\ c.req = 0
    BY <2>1 DEF Issued, WellFormed
  <2> QED BY <2>1, <2>2, TrackedSent
<1>2. ASSUME NEW c, Maps(c) \/ Loads(c) \/ Inquires(c) PROVE Tracked'
  BY <1>2, TrackedAsks DEF Maps, Loads, Inquires
<1>3. ASSUME (\E id \in Objects : LetsGo(id)) \/ Idle PROVE Tracked'
  BY <1>3, TrackedQuiet DEF LetsGo, Idle
<1>5. ASSUME \/ Passes \/ MakesBuffer \/ FailsBuffer \/ MissesMap \/ UnmapsBuffer
             \/ DestroysResource \/ DropsObject \/ Acquires
      PROVE  Tracked'
  BY <1>5, TrackedQuiet
     DEF Passes, MakesBuffer, FailsBuffer, MissesMap, UnmapsBuffer, DestroysResource, DropsObject,
         Acquires, Runs, ServerKept
<1>6. ASSUME Refuses \/ ShowsFrame \/ ReportsLoss PROVE Tracked'
  <2>1. Answer("error", 0, FALSE).req = 0 /\ Answer("presentDone", 0, TRUE).req = 0
        /\ Answer("deviceLost", 0, TRUE).req = 0
    BY DEF Answer
  <2> QED BY <1>6, <2>1, TrackedQuiet
          DEF Refuses, ShowsFrame, ReportsLoss, Runs, ServerKept
<1>7. ASSUME StartsMap \/ StartsTask PROVE Tracked'
  BY <1>7, TrackedStarts DEF StartsMap, StartsTask, Runs, ServerKept
<1>8. ASSUME NEW t \in tasks, NEW ok \in BOOLEAN, EndsMap(t, ok) PROVE Tracked'
  BY <1>8, TrackedEnds DEF EndsMap, Answer, Kind
<1>9. ASSUME NEW t \in tasks, NEW ok \in BOOLEAN, EndsLoad(t, ok) PROVE Tracked'
  BY <1>9, TrackedEnds DEF EndsLoad, Answer, Kind, MapOps
<1>10. ASSUME NEW t \in tasks, EndsAsk(t) PROVE Tracked'
  BY <1>10, TrackedEnds DEF EndsAsk, Answer, Kind, MapOps, QuestionOps
<1>11. ASSUME NEW t \in tasks, LosesAsk(t) PROVE Tracked'
  BY <1>11, TrackedQuiet DEF LosesAsk, ServerKept
<1>12. ASSUME NEW r \in requests, Takes(r) PROVE Tracked'
  BY <1>12, TrackedTakes
<1>13. ASSUME Notices PROVE Tracked'
  BY <1>13, TrackedNotices DEF Notices
<1>14. ASSUME Breaks PROVE Tracked'
  BY <1>14 DEF Breaks, Tracked, Numbered, Asking, Once, Apart, D, U
<1> QED BY <1>1, <1>2, <1>3, <1>5, <1>6, <1>7, <1>8, <1>9, <1>10, <1>11, <1>12, <1>13, <1>14
        DEF Step, AppStep, ClientStep, ReceiveStep

(* No step loses a request.                                                *)
LEMMA NoneLostStep ==
    ASSUME Typed, Typed', Tracked, NoneLost, Step
    PROVE  NoneLost'
<1> DEFINE At(r) == \/ \E i \in D : down[i] = r
                    \/ r \in tasks
                    \/ \E i \in U : up[i].req = r.req
                    \/ r.req \in unseen
           Before == connected /\ ~closed => \A r \in requests : At(r)
           After == connected' /\ ~closed' => \A r \in requests' : At(r)'
<1>0. Before /\ (NoneLost' <=> After)
  BY DEF NoneLost
<1> HIDE DEF At
<1>a. ASSUME NEW c, Sent(c), UNCHANGED <<up, tasks, unseen>>, NEW r
      PROVE  (At(r) => At(r)') /\ At(c)'
  <2>1. D' = D \cup {Len(down) + 1} /\ down'[Len(down) + 1] = c /\ U' = U
        /\ \A i \in D : down'[i] = down[i]
    BY <1>a, Indices DEF Sent, U
  <2> QED BY <1>a, <2>1 DEF At
<1>b. ASSUME Executed, tasks \subseteq tasks', unseen \subseteq unseen',
             down[1] \in tasks' \/ down[1].req = 0 \/ down[1].req \in unseen',
             up' = up \/ \E a : Replied(a), NEW r \in requests, At(r)
      PROVE  At(r)'
  <2>1. r.req # 0
    BY <1>b DEF Typed, Shaped, Pending, WellFormed
  <2>2. \A i \in D : i # 1 => \E j \in D' : down'[j] = down[i]
    BY <1>b, Indices
  <2>3. \A i \in U : i \in U' /\ up'[i] = up[i]
    BY <1>b, Indices DEF U, Replied
  <2> QED BY <1>b, <2>1, <2>2, <2>3 DEF At
<1>1. ASSUME NEW c, Tells(c) \/ Makes(c) \/ Unmaps(c) \/ GivesUp(c)
      PROVE  NoneLost'
  <2>1. Sent(c) /\ UNCHANGED <<up, tasks, unseen, requests, connected, closed>>
    BY <1>1 DEF Tells, Makes, Unmaps, GivesUp, Issued
  <2> QED BY <1>0, <1>a, <2>1
<1>2. ASSUME NEW c, Maps(c) \/ Loads(c) \/ Inquires(c) PROVE NoneLost'
  <2>1. /\ Sent(c) /\ UNCHANGED <<up, tasks, unseen, connected, closed>>
        /\ requests' = requests \cup {c}
    BY <1>2 DEF Maps, Loads, Inquires, Asks, Issued
  <2>2. \A r : (At(r) => At(r)') /\ At(c)'
    BY <1>a, <2>1
  <2> QED BY <1>0, <2>1, <2>2
<1>3. ASSUME (\E id \in Objects : LetsGo(id)) \/ Idle PROVE NoneLost'
  BY <1>3 DEF LetsGo, Idle, NoneLost, D, U
<1>4. ASSUME \/ Passes \/ MakesBuffer \/ FailsBuffer \/ UnmapsBuffer \/ DestroysResource
             \/ DropsObject \/ Acquires \/ Refuses
      PROVE  NoneLost'
  <2>1. Executed /\ UNCHANGED <<tasks, unseen, requests>>
        /\ UNCHANGED connected /\ (closed => closed') /\ (up' = up \/ \E a : Replied(a))
    <3>1. CASE Refuses
      <4>1. up' = up \/ Replied(Answer("error", 0, FALSE))
        BY <3>1 DEF Refuses
      <4>2. up' = up \/ \E a : Replied(a)
        BY <4>1
      <4> QED BY <3>1, <4>2 DEF Refuses, Runs, ServerKept
    <3>2. CASE ~Refuses
      BY <1>4, <3>2 DEF Passes, MakesBuffer, FailsBuffer, UnmapsBuffer, DestroysResource, DropsObject,
                        Acquires, Runs, ServerKept
    <3> QED BY <3>1, <3>2
  <2>2. down[1].op \notin AskOps
    BY <1>4 DEF Passes, MakesBuffer, FailsBuffer, UnmapsBuffer, DestroysResource, DropsObject,
                Acquires,
                Refuses, Runs, AskOps, CreateOps
  <2>3. down[1].req = 0
    BY <2>1, <2>2, Indices DEF Typed, Shaped, Downs, WellFormed
  <2> QED BY <1>0, <1>b, <2>1, <2>3
<1>5. ASSUME StartsMap \/ StartsTask \/ MissesMap PROVE NoneLost'
  <2>1. Executed /\ UNCHANGED <<up, requests, connected, closed>> /\ tasks \subseteq tasks'
        /\ unseen \subseteq unseen'
    BY <1>5 DEF StartsMap, StartsTask, MissesMap, Runs, ServerKept
  <2>2. down[1] \in tasks' \/ down[1].req \in unseen'
    BY <1>5 DEF StartsMap, StartsTask, MissesMap
  <2> QED BY <1>0, <1>b, <2>1, <2>2
<1>6. ASSUME NEW t \in tasks, NEW a, Ends(t, a), a.req = t.req PROVE NoneLost'
  <2>1. /\ tasks' = tasks \ {t} /\ UNCHANGED <<down, unseen, requests, connected, closed>>
        /\ ~closed => Replied(a)
    BY <1>6 DEF Ends, ServerKept
  <2>2. ASSUME ~closed, NEW r, At(r) PROVE At(r)'
    <3>1. U' = U \cup {Len(up) + 1} /\ up'[Len(up) + 1] = a /\ \A i \in U : up'[i] = up[i]
      BY <2>1, <2>2, Indices DEF Replied
    <3>2. D' = D /\ down' = down
      BY <2>1 DEF D
    <3> QED BY <1>6, <2>1, <2>2, <3>1, <3>2 DEF At
  <2> QED BY <1>0, <2>1, <2>2
<1>7. ASSUME NEW t \in tasks, (\E ok \in BOOLEAN : EndsMap(t, ok) \/ EndsLoad(t, ok))
                              \/ EndsAsk(t)
      PROVE  NoneLost'
  BY <1>6, <1>7 DEF EndsMap, EndsLoad, EndsAsk, Answer
<1>12. ASSUME NEW t \in tasks, LosesAsk(t) PROVE NoneLost'
  <2>1. /\ tasks' = tasks \ {t} /\ unseen' = unseen \cup {t.req}
        /\ UNCHANGED <<down, up, requests, connected, closed>>
    BY <1>12 DEF LosesAsk, ServerKept
  <2>2. \A r : At(r) => At(r)'
    BY <2>1 DEF At, D, U
  <2> QED BY <1>0, <2>1, <2>2
<1>8. ASSUME ShowsFrame \/ ReportsLoss PROVE NoneLost'
  <2>1. UNCHANGED <<down, tasks, unseen, requests, connected, closed>>
    BY <1>8 DEF ShowsFrame, ReportsLoss, ServerKept
  <2>4. up' = up \/ \E a : Replied(a)
    <3>1. CASE ShowsFrame
      BY <3>1 DEF ShowsFrame
    <3>2. CASE ReportsLoss
      BY <3>2 DEF ReportsLoss
    <3> QED BY <1>8, <3>1, <3>2
  <2>2. \A i \in U : i \in U' /\ up'[i] = up[i]
    BY <2>4, Indices DEF U, Replied
  <2>3. \A r : At(r) => At(r)'
    BY <2>1, <2>2 DEF At, D
  <2> QED BY <1>0, <2>1, <2>3
<1>9. ASSUME NEW r \in requests, Takes(r) PROVE NoneLost'
  <2>1. /\ requests' = requests \ {r} /\ UNCHANGED <<tasks, unseen, connected, closed>> /\ Heard
        /\ r.req = up[1].req
        /\ down' = down \/ \E c : Sent(c)
    BY <1>9 DEF Takes
  <2>2. \A i \in D : i \in D' /\ down'[i] = down[i]
    BY <2>1, Indices DEF D, Sent
  <2>3. \A i \in U : i # 1 => \E j \in U' : up'[j] = up[i]
    BY <2>1, Indices
  <2>4. ASSUME NEW s \in requests', At(s) PROVE At(s)'
    <3>1. s.req # up[1].req
      BY <1>9, <2>1, <2>4 DEF Tracked, Numbered
    <3> QED BY <2>1, <2>2, <2>3, <2>4, <3>1 DEF At
  <2> QED BY <1>0, <2>1, <2>4
<1>10. ASSUME Notices PROVE NoneLost'
  <2>1. Heard /\ up[1].req = 0 /\ UNCHANGED <<down, tasks, unseen, requests, connected, closed>>
    BY <1>10 DEF Notices
  <2>2. \A i \in U : i # 1 => \E j \in U' : up'[j] = up[i]
    BY <2>1, Indices
  <2>3. ASSUME NEW s \in requests', At(s) PROVE At(s)'
    <3>1. s.req # 0
      BY <2>1, <2>3 DEF Typed, Shaped, Pending, WellFormed
    <3> QED BY <2>1, <2>2, <2>3, <3>1 DEF At, D
  <2> QED BY <1>0, <2>1, <2>3
<1>11. ASSUME Breaks PROVE NoneLost'
  BY <1>11 DEF Breaks, NoneLost
<1> QED BY <1>1, <1>2, <1>3, <1>4, <1>5, <1>7, <1>8, <1>9, <1>10, <1>11,
           <1>12
        DEF Step, AppStep, ClientStep, ReceiveStep

(* No step puts elsewhere what came to nothing.                            *)
LEMMA UnseenKept ==
    ASSUME Typed, Unseen, UNCHANGED unseen, failed \subseteq failed',
           calls.requests <= calls'.requests, calls'.requests \in Nat,
           \A i \in D' : \/ down'[i].req = 0 \/ down'[i].req = calls.requests + 1
                        \/ \E j \in D : down'[i] = down[j],
           \A t \in tasks' : t \in tasks \/ \E j \in D : t = down[j],
           \A i \in U' : \/ up'[i].req = 0 \/ \E j \in U : up'[i] = up[j]
                        \/ \E t \in tasks : up'[i].req = t.req,
           \A r \in requests' : r \in requests \/ r.req = calls.requests + 1
    PROVE  Unseen'
<1>1. calls.requests \in Nat /\ \A n \in unseen : n \in Nat /\ n # 0
  BY SessionAssumption DEF Typed, TypeOK, Shaped, CallsType
<1>2. \A r : Unanswerable(r) => Unanswerable(r)'
  BY DEF Unanswerable
<1>3. ASSUME NEW n \in unseen
      PROVE  /\ n <= calls'.requests
             /\ \A i \in D' : down'[i].req # n
             /\ \A t \in tasks' : t.req # n
             /\ \A i \in U' : up'[i].req # n
             /\ \A r \in requests' : r.req = n => Unanswerable(r)'
  <2>1. /\ n <= calls.requests
        /\ \A i \in D : down[i].req # n
        /\ \A t \in tasks : t.req # n
        /\ \A i \in U : up[i].req # n
        /\ \A r \in requests : r.req = n => Unanswerable(r)
    BY DEF Unseen
  <2>2. n <= calls'.requests /\ n # calls.requests + 1 /\ n # 0
    BY <1>1, <2>1
  <2>3. \A i \in D' : down'[i].req # n
    BY <2>1, <2>2
  <2>4. \A t \in tasks' : t.req # n
    BY <2>1
  <2>5. ASSUME NEW i \in U', up'[i].req = n PROVE FALSE
    <3>1. CASE up'[i].req = 0
      BY <2>2, <2>5, <3>1
    <3>2. CASE \E j \in U : up'[i] = up[j]
      <4>1. PICK j \in U : up'[i] = up[j]
        BY <3>2
      <4> QED BY <2>1, <2>5, <4>1
    <3>3. CASE \E t \in tasks : up'[i].req = t.req
      BY <2>1, <2>5, <3>3
    <3> QED BY <3>1, <3>2, <3>3
  <2>6. \A r \in requests' : r.req = n => Unanswerable(r)'
    BY <1>2, <2>1, <2>2
  <2> QED BY <2>2, <2>3, <2>4, <2>5, <2>6
<1> QED BY <1>3 DEF Unseen

LEMMA UnseenStep ==
    ASSUME Typed, Typed', Tracked, Unseen, MapsFind, Step
    PROVE  Unseen'
<1>0. calls.requests \in Nat /\ calls'.requests \in Nat
  BY SessionAssumption DEF Typed, Shaped, CallsType
<1>1. ASSUME NEW c, Issued(c), (c.req = 0 /\ UNCHANGED requests) \/ Asks(c) PROVE Unseen'
  <2>1. /\ UNCHANGED <<up, tasks, unseen, failed>> /\ Sent(c)
        /\ calls'.requests = IF c.req = 0 THEN calls.requests ELSE c.req
    BY <1>1 DEF Issued
  <2>2. /\ c.req = 0 \/ c.req = calls.requests + 1
        /\ \A r \in requests' : r \in requests \/ r.req = calls.requests + 1
    BY <1>1 DEF Asks
  <2>3. D' = D \cup {Len(down) + 1} /\ down'[Len(down) + 1] = c /\ U' = U
        /\ \A i \in D : down'[i] = down[i]
    BY <2>1, Indices DEF Sent, U
  <2>4. calls.requests <= calls'.requests
    BY <1>0, <2>1, <2>2
  <2> QED BY <1>0, <2>1, <2>2, <2>3, <2>4, UnseenKept
<1>2. ASSUME NEW c, Tells(c) \/ Makes(c) \/ Unmaps(c) \/ GivesUp(c) PROVE Unseen'
  <2>1. Issued(c) /\ UNCHANGED requests /\ c.op \notin AskOps
    BY <1>2 DEF Tells, Makes, Unmaps, GivesUp, Drops, AskOps
  <2>2. c.req = 0
    BY <2>1 DEF Issued, WellFormed
  <2> QED BY <1>1, <2>1, <2>2
<1>3. ASSUME NEW c, Maps(c) \/ Loads(c) \/ Inquires(c) PROVE Unseen'
  BY <1>1, <1>3 DEF Maps, Loads, Inquires, Asks
<1>4. ASSUME (\E id \in Objects : LetsGo(id)) \/ Idle PROVE Unseen'
  BY <1>0, <1>4, UnseenKept DEF LetsGo, Idle, D, U
<1>5. ASSUME Executed, UNCHANGED <<unseen, requests, calls>>, failed \subseteq failed',
             tasks' \subseteq tasks \cup {down[1]},
             up' = up \/ \E a : Replied(a) /\ a.req = 0
      PROVE  Unseen'
  <2>1. 1 \in D /\ \A i \in D' : \E j \in D : down'[i] = down[j]
    BY <1>5, Indices
  <2>2. \A i \in U' : up'[i].req = 0 \/ \E j \in U : up'[i] = up[j]
    BY <1>5, Indices DEF U, Replied
  <2>3. calls.requests <= calls'.requests
    BY <1>0, <1>5
  <2> QED BY <1>0, <1>5, <2>1, <2>2, <2>3, UnseenKept
<1>6. ASSUME \/ Passes \/ MakesBuffer \/ FailsBuffer \/ StartsMap \/ UnmapsBuffer
             \/ DestroysResource \/ DropsObject \/ StartsTask \/ Acquires
      PROVE  Unseen'
  BY <1>5, <1>6 DEF Passes, MakesBuffer, FailsBuffer, StartsMap, UnmapsBuffer, DestroysResource,
     DropsObject, StartsTask, Acquires, Runs, ServerKept
<1>7. ASSUME Refuses PROVE Unseen'
  <2>1. up' = up \/ (Replied(Answer("error", 0, FALSE)) /\ Answer("error", 0, FALSE).req = 0)
    BY <1>7 DEF Refuses, Answer
  <2> QED BY <1>5, <1>7, <2>1 DEF Refuses, Runs, ServerKept
<1>8. ASSUME MissesMap PROVE Unseen'
  <2> DEFINE n == down[1].req
  <2>1. /\ Executed /\ unseen' = unseen \cup {n} /\ UNCHANGED <<up, tasks, failed, requests, calls>>
        /\ down[1].op \in MapOps /\ ~Known(down[1].object)
    BY <1>8 DEF MissesMap, Runs, ServerKept
  <2>2. /\ 1 \in D /\ U' = U
        /\ \A i \in D' : i + 1 \in D /\ i + 1 # 1 /\ down'[i] = down[i + 1]
    BY <2>1, Indices DEF U
  <2>3. WellFormed(down[1], calls.requests) /\ down[1].op \in AskOps
    BY <2>1, <2>2, Operations DEF Typed, Shaped, Downs
  <2>4. n # 0 /\ n <= calls.requests
    BY <1>0, <2>3 DEF WellFormed
  <2>5. down[1] \in requests
    BY <2>2, <2>4 DEF Tracked, Asking
  <2>6. down[1].object \in failed
    BY <2>1, <2>2, Lengths DEF MapsFind, Typed, Executed
  <2>7. ASSUME NEW r \in requests, r.req = n PROVE Unanswerable(r)'
    BY <2>1, <2>5, <2>6, <2>7 DEF Tracked, Numbered, Unanswerable
  <2>8. \A i \in D' : down'[i].req # n
    BY <2>2, <2>4 DEF Tracked, Once
  <2>9. (\A t \in tasks : t.req # n) /\ \A i \in U : up[i].req # n
    BY <2>2, <2>4 DEF Tracked, Apart
  <2>10. ASSUME NEW m \in unseen
         PROVE  /\ m <= calls.requests /\ \A i \in D' : down'[i].req # m
                /\ \A t \in tasks : t.req # m /\ \A i \in U : up[i].req # m
                /\ \A r \in requests : r.req = m => Unanswerable(r)'
    BY <2>1, <2>2 DEF Unseen, Unanswerable
  <2> HIDE DEF n
  <2> QED BY <2>1, <2>2, <2>4, <2>7, <2>8, <2>9, <2>10 DEF Unseen
<1>9. ASSUME NEW t \in tasks, NEW a, Ends(t, a), a.req = t.req PROVE Unseen'
  <2>1. /\ tasks' \subseteq tasks /\ UNCHANGED <<down, failed, unseen, requests, calls>>
        /\ up' = up \/ Replied(a)
    BY <1>9 DEF Ends, ServerKept
  <2>2. \A i \in U' : \/ \E j \in U : up'[i] = up[j]
                      \/ \E s \in tasks : up'[i].req = s.req
    BY <1>9, <2>1, Indices DEF U, Replied
  <2>3. calls.requests <= calls'.requests
    BY <1>0, <2>1
  <2> QED BY <1>0, <2>1, <2>2, <2>3, UnseenKept DEF D
<1>10. ASSUME NEW t \in tasks, (\E ok \in BOOLEAN : EndsMap(t, ok) \/ EndsLoad(t, ok))
                               \/ EndsAsk(t)
       PROVE  Unseen'
  BY <1>9, <1>10 DEF EndsMap, EndsLoad, EndsAsk, Answer
<1>11. ASSUME NEW t \in tasks, LosesAsk(t) PROVE Unseen'
  <2>1. /\ tasks' = tasks \ {t} /\ unseen' = unseen \cup {t.req} /\ t.op = "ask"
        /\ UNCHANGED <<down, up, failed, requests, calls>>
    BY <1>11 DEF LosesAsk, ServerKept
  <2>2. WellFormed(t, calls.requests) /\ t.op \in AskOps
    BY DEF Typed, Shaped, Tasks
  <2>3. t.req # 0 /\ t.req <= calls.requests
    BY <1>0, <2>2 DEF WellFormed
  <2>4. t \in requests
    BY <2>3 DEF Tracked, Asking
  <2>5. \A r \in requests : r.req = t.req => Unanswerable(r)'
    BY <2>1, <2>4 DEF Tracked, Numbered, Unanswerable
  <2>6. \A s \in tasks' : s.req # t.req
    BY <2>1, <2>3, <2>4 DEF Tracked, Numbered, Asking
  <2>7. (\A i \in D : down[i].req # t.req) /\ \A i \in U : up[i].req # t.req
    BY <2>3 DEF Tracked, Apart
  <2>8. ASSUME NEW m \in unseen
        PROVE  /\ m <= calls.requests /\ \A i \in D : down[i].req # m
               /\ \A s \in tasks' : s.req # m /\ \A i \in U : up[i].req # m
               /\ \A r \in requests : r.req = m => Unanswerable(r)'
    BY <2>1 DEF Unseen, Unanswerable
  <2>9. D' = D /\ U' = U
    BY <2>1 DEF D, U
  <2> QED BY <2>1, <2>3, <2>5, <2>6, <2>7, <2>8, <2>9 DEF Unseen
<1>12. ASSUME ShowsFrame \/ ReportsLoss PROVE Unseen'
  <2>1. UNCHANGED <<down, tasks, unseen, failed, requests, calls>>
    BY <1>12 DEF ShowsFrame, ReportsLoss, ServerKept
  <2>2. PICK a : a.req = 0 /\ (up' = up \/ Replied(a))
    <3>1. Answer("presentDone", 0, TRUE).req = 0 /\ Answer("deviceLost", 0, TRUE).req = 0
      BY DEF Answer
    <3> QED BY <1>12, <3>1 DEF ShowsFrame, ReportsLoss
  <2>3. \A i \in U' : up'[i].req = 0 \/ \E j \in U : up'[i] = up[j]
    BY <2>2, Indices DEF U, Replied
  <2>4. calls.requests <= calls'.requests
    BY <1>0, <2>1
  <2> QED BY <1>0, <2>1, <2>3, <2>4, UnseenKept DEF D
<1>13. ASSUME NEW r \in requests, Takes(r) PROVE Unseen'
  <2>1. /\ UNCHANGED <<tasks, unseen, failed, calls>> /\ Heard /\ requests' \subseteq requests
        /\ down' = down \/ (Sent(Cmd("destroyObject", r.object, 0))
                            /\ Cmd("destroyObject", r.object, 0).req = 0)
    BY <1>13 DEF Takes, Cmd
  <2>2. \A i \in D' : down'[i].req = 0 \/ \E j \in D : down'[i] = down[j]
    BY <2>1, Indices DEF D, Sent
  <2>3. \A i \in U' : \E j \in U : up'[i] = up[j]
    BY <2>1, Indices
  <2>4. calls.requests <= calls'.requests
    BY <1>0, <2>1
  <2> QED BY <1>0, <2>1, <2>2, <2>3, <2>4, UnseenKept
<1>14. ASSUME Notices PROVE Unseen'
  <2>1. UNCHANGED <<down, tasks, unseen, failed, requests>> /\ Heard
        /\ calls'.requests = calls.requests
    BY <1>14 DEF Notices
  <2>2. \A i \in U' : \E j \in U : up'[i] = up[j]
    BY <2>1, Indices
  <2>3. calls.requests <= calls'.requests
    BY <1>0, <2>1
  <2> QED BY <1>0, <2>1, <2>2, <2>3, UnseenKept DEF D
<1>15. ASSUME Breaks PROVE Unseen'
  BY <1>15 DEF Breaks, Unseen, D, U
<1> QED BY <1>2, <1>3, <1>4, <1>6, <1>7, <1>8, <1>10, <1>11, <1>12, <1>13, <1>14, <1>15
        DEF Step, AppStep, ClientStep, ReceiveStep

-----------------------------------------------------------------------------
(* The life of an object: made once, by its first command, and destroyed   *)
(* by its last, which is sent when nobody holds it any more.               *)

Introduces(c, id) == c.op \in {"createBuffer", "createMappedBuffer", "acquire", "loadTexture"}
                     /\ c.object = id
Held(id) == id \in owned \/ Pinned(id)

Unissued ==
    \A id \in Objects \ issued :
        ~Held(id) /\ id \notin objects /\ \A i \in D : down[i].object # id

IntroducedHeld ==
    \A id \in Objects, i \in D : Introduces(down[i], id) =>
        Held(id) \/ \E j \in D : j > i /\ Drops(down[j], id)

DroppedLast ==
    \A id \in Objects, i \in D : Drops(down[i], id) =>
        ~Held(id) /\ \A j \in D : down[j].object = id => j <= i

ObjectsHeld ==
    connected => \A id \in Objects : id \in objects =>
        Held(id) \/ \E j \in D : Drops(down[j], id)

Lives == Unissued /\ IntroducedHeld /\ DroppedLast /\ ObjectsHeld

\* A buffer is pending exactly while a request holds it, and one request
\* holds an object at a time.
Pins ==
    /\ \A r, s \in requests : r.object = s.object /\ r.object # NoObject => r = s
    /\ \A b \in Buffers : map_state[b] = "Pending" <=> Pinned(b)
    /\ \A b \in Buffers : b \notin issued => map_state[b] = "Unmapped"

HeldSame == \A id \in Objects : Held(id)' <=> Held(id)

LEMMA SentAt ==
    ASSUME Typed, NEW c, Sent(c)
    PROVE  /\ D' = D \cup {Len(down) + 1} /\ down'[Len(down) + 1] = c
           /\ Len(down) + 1 \notin D
           /\ \A i \in D : down'[i] = down[i] /\ i < Len(down) + 1
           /\ D \subseteq Int /\ Len(down) + 1 \in Int
BY Indices DEF Sent, D

LEMMA LivesSent ==
    ASSUME Typed, Lives, NEW c, Sent(c), c.object \in Objects => Held(c.object),
           ~Introduces(c, c.object), ~Drops(c, c.object),
           issued \subseteq issued', HeldSame, UNCHANGED <<objects, connected>>
    PROVE  Lives'
<1>0. /\ D' = D \cup {Len(down) + 1} /\ down'[Len(down) + 1] = c /\ Len(down) + 1 \notin D
      /\ \A i \in D : down'[i] = down[i] /\ i < Len(down) + 1
  BY SentAt
<1>a. \A id : ~Introduces(c, id) /\ ~Drops(c, id)
  BY DEF Introduces, Drops
<1>1. Unissued'
  BY <1>0 DEF Lives, Unissued, HeldSame
<1>2. IntroducedHeld'
  BY <1>0, <1>a DEF Lives, IntroducedHeld, HeldSame
<1>3. DroppedLast'
  BY <1>0, <1>a DEF Lives, DroppedLast, HeldSame
<1>4. ObjectsHeld'
  BY <1>0 DEF Lives, ObjectsHeld, HeldSame
<1> QED BY <1>1, <1>2, <1>3, <1>4 DEF Lives

LEMMA LivesMakes ==
    ASSUME Typed, Lives, NEW c, Sent(c), c.object \in Objects \ issued,
           Introduces(c, c.object), issued' = issued \cup {c.object},
           \A id \in Objects : Held(id)' <=> Held(id) \/ id = c.object,
           UNCHANGED <<objects, connected>>
    PROVE  Lives'
<1>0. /\ D' = D \cup {Len(down) + 1} /\ down'[Len(down) + 1] = c /\ Len(down) + 1 \notin D
      /\ \A i \in D : down'[i] = down[i] /\ i < Len(down) + 1
  BY SentAt
<1>a. \A id : ~Drops(c, id) /\ (Introduces(c, id) => id = c.object)
  BY DEF Introduces, Drops
<1>1. Unissued'
  BY <1>0 DEF Lives, Unissued
<1>2. IntroducedHeld'
  BY <1>0, <1>a DEF Lives, IntroducedHeld
<1>3. DroppedLast'
  <2>1. \A i \in D : ~Drops(down[i], c.object)
    BY DEF Lives, Unissued, Drops
  <2> QED BY <1>0, <1>a, <2>1 DEF Lives, DroppedLast
<1>4. ObjectsHeld'
  BY <1>0 DEF Lives, ObjectsHeld
<1> QED BY <1>1, <1>2, <1>3, <1>4 DEF Lives

LEMMA LivesDrops ==
    ASSUME Typed, Lives, NEW c, Sent(c), c.object \in Objects, Held(c.object),
           Drops(c, c.object), UNCHANGED <<issued, objects, connected>>,
           \A id \in Objects : Held(id)' <=> Held(id) /\ id # c.object
    PROVE  Lives'
<1>0. /\ D' = D \cup {Len(down) + 1} /\ down'[Len(down) + 1] = c /\ Len(down) + 1 \notin D
      /\ \A i \in D : down'[i] = down[i] /\ i < Len(down) + 1
      /\ D \subseteq Int /\ Len(down) + 1 \in Int
  BY SentAt
<1>a. \A id : ~Introduces(c, id) /\ (Drops(c, id) <=> id = c.object)
  BY DEF Introduces, Drops
<1>1. Unissued'
  BY <1>0 DEF Lives, Unissued
<1>2. IntroducedHeld'
  BY <1>0, <1>a DEF Lives, IntroducedHeld
<1>3. DroppedLast'
  <2>1. \A i \in D : ~Drops(down[i], c.object)
    BY DEF Lives, DroppedLast
  <2>2. ASSUME NEW id \in Objects, NEW i \in D', Drops(down'[i], id)
        PROVE  ~Held(id)' /\ \A j \in D' : down'[j].object = id => j <= i
    <3>1. CASE i = Len(down) + 1
      BY <1>0, <1>a, <2>2, <3>1
    <3>2. CASE i \in D
      <4>1. Drops(down[i], id) /\ id # c.object
        BY <1>0, <2>1, <2>2, <3>2
      <4>2. ~Held(id) /\ \A j \in D : down[j].object = id => j <= i
        BY <3>2, <4>1 DEF Lives, DroppedLast
      <4> QED BY <1>0, <4>1, <4>2
    <3> QED BY <1>0, <3>1, <3>2
  <2> QED BY <2>2 DEF DroppedLast
<1>4. ObjectsHeld'
  BY <1>0, <1>a DEF Lives, ObjectsHeld
<1> QED BY <1>1, <1>2, <1>3, <1>4 DEF Lives

LEMMA LivesQuiet ==
    ASSUME Typed, Lives, HeldSame, UNCHANGED <<down, issued, connected>>,
           \A id \in Objects : id \in objects' => id \in objects \/ Held(id)
    PROVE  Lives'
<1>1. D' = D
  BY DEF D
<1>2. Unissued' /\ IntroducedHeld' /\ DroppedLast' /\ ObjectsHeld'
  BY <1>1 DEF Lives, Unissued, IntroducedHeld, DroppedLast, ObjectsHeld, HeldSame
<1> QED BY <1>2 DEF Lives

LEMMA LivesExecuted ==
    ASSUME Typed, Lives, Executed, HeldSame, UNCHANGED <<issued, connected>>,
           \A id \in Objects : id \in objects' => id \in objects \/ Introduces(down[1], id),
           \A id \in Objects : Drops(down[1], id) => id \notin objects'
    PROVE  Lives'
<1>1. /\ 1 \in D
      /\ \A i \in D' : i + 1 \in D /\ i + 1 # 1 /\ down'[i] = down[i + 1]
      /\ \A i \in D \ {1} : i - 1 \in D' /\ down'[i - 1] = down[i]
      /\ \A i \in D : i \in Int /\ i >= 1
      /\ \A i \in D' : i \in Int
  BY Indices DEF D
<1>2. Unissued'
  <2>1. ASSUME NEW id \in Objects \ issued
        PROVE  id \notin objects'
    BY <1>1 DEF Lives, Unissued, Introduces
  <2> QED BY <1>1, <2>1 DEF Lives, Unissued, HeldSame
<1>3. ASSUME NEW id \in Objects, NEW j \in D, Drops(down[j], id), j # 1
      PROVE  \E k \in D' : k = j - 1 /\ Drops(down'[k], id)
  BY <1>1, <1>3
<1>4. IntroducedHeld'
  <2>1. ASSUME NEW id \in Objects, NEW i \in D', Introduces(down'[i], id), ~Held(id)
        PROVE  \E j \in D' : j > i /\ Drops(down'[j], id)
    <3>1. PICK j \in D : j > i + 1 /\ Drops(down[j], id)
      BY <1>1, <2>1 DEF Lives, IntroducedHeld
    <3>2. j # 1
      BY <1>1, <3>1
    <3> QED BY <1>1, <1>3, <3>1, <3>2
  <2> QED BY <2>1 DEF IntroducedHeld, HeldSame
<1>5. DroppedLast'
  <2>1. ASSUME NEW id \in Objects, NEW i \in D', Drops(down'[i], id)
        PROVE  ~Held(id) /\ \A j \in D' : down'[j].object = id => j <= i
    <3>1. ~Held(id) /\ \A j \in D : down[j].object = id => j <= i + 1
      BY <1>1, <2>1 DEF Lives, DroppedLast
    <3> QED BY <1>1, <3>1
  <2> QED BY <2>1 DEF DroppedLast, HeldSame
<1>6. ObjectsHeld'
  <2>1. ASSUME connected, NEW id \in Objects, id \in objects', ~Held(id)
        PROVE  \E j \in D' : Drops(down'[j], id)
    <3>1. PICK j \in D : Drops(down[j], id)
      BY <1>1, <2>1 DEF Lives, ObjectsHeld, IntroducedHeld
    <3>2. j # 1
      BY <2>1, <3>1
    <3> QED BY <1>3, <3>1, <3>2
  <2> QED BY <2>1 DEF ObjectsHeld, HeldSame
<1> QED BY <1>2, <1>4, <1>5, <1>6 DEF Lives

LEMMA TaskPinned ==
    ASSUME Typed, Tracked, NEW t \in tasks
    PROVE  t \in requests
<1>1. t.req # 0
  BY DEF Typed, Shaped, Tasks, WellFormed
<1> QED BY <1>1 DEF Tracked, Asking

LEMMA LivesStep ==
    ASSUME Typed, Tracked, Pins, Lives, Step
    PROVE  Lives'
<1>0. NoObject \notin Objects
  BY ClientExecutorAssumption
<1>a. ASSUME UNCHANGED <<owned, requests>> PROVE HeldSame
  BY <1>a DEF HeldSame, Held, Pinned
<1>1. ASSUME NEW c, Tells(c) \/ Unmaps(c) PROVE Lives'
  <2>1. /\ Sent(c) /\ UNCHANGED <<owned, requests, objects, connected>>
        /\ issued \subseteq issued'
        /\ c.object \in Objects => c.object \in owned
    BY <1>0, <1>1 DEF Tells, Unmaps, Issued
  <2>2. ~Introduces(c, c.object) /\ ~Drops(c, c.object)
    BY <1>1 DEF Tells, Unmaps, Introduces, Drops
  <2> QED BY <1>a, <2>1, <2>2, LivesSent DEF Held
<1>2. ASSUME NEW c, Makes(c) PROVE Lives'
  <2>1. /\ Sent(c) /\ UNCHANGED <<requests, objects, connected>>
        /\ owned' = owned \cup {c.object}
        /\ c.object \in Objects \ issued /\ issued' = issued \cup {c.object}
        /\ Introduces(c, c.object)
    BY <1>2 DEF Makes, Issued, Introduces
  <2>2. \A id \in Objects : Held(id)' <=> Held(id) \/ id = c.object
    BY <2>1 DEF Held, Pinned
  <2> QED BY <2>1, <2>2, LivesMakes
<1>3. ASSUME NEW c, Maps(c) PROVE Lives'
  <2>1. /\ Sent(c) /\ UNCHANGED <<owned, objects, connected, issued>>
        /\ requests' = requests \cup {c} /\ c.object \in owned /\ c.op \in MapOps
    BY <1>3 DEF Maps, Asks, Issued
  <2>2. ~Introduces(c, c.object) /\ ~Drops(c, c.object)
    BY <2>1 DEF Introduces, Drops, MapOps
  <2>3. HeldSame
    BY <2>1 DEF HeldSame, Held, Pinned
  <2> QED BY <2>1, <2>2, <2>3, LivesSent DEF Held
<1>4. ASSUME NEW c, Loads(c) PROVE Lives'
  <2>1. /\ Sent(c) /\ UNCHANGED <<owned, objects, connected>>
        /\ requests' = requests \cup {c}
        /\ c.object \in Objects \ issued /\ issued' = issued \cup {c.object}
        /\ Introduces(c, c.object)
    BY <1>4 DEF Loads, Asks, Issued, Introduces
  <2>2. \A id \in Objects : Held(id)' <=> Held(id) \/ id = c.object
    BY <2>1 DEF Held, Pinned
  <2> QED BY <2>1, <2>2, LivesMakes
<1>5. ASSUME NEW c, Inquires(c) PROVE Lives'
  <2>1. /\ Sent(c) /\ UNCHANGED <<owned, objects, connected, issued>>
        /\ requests' = requests \cup {c} /\ c.object \notin Objects /\ c.op \in QuestionOps
    BY <1>0, <1>5 DEF Inquires, Asks, Issued, WellFormed
  <2>2. ~Introduces(c, c.object) /\ ~Drops(c, c.object)
    BY <2>1 DEF Introduces, Drops, QuestionOps
  <2>3. HeldSame
    BY <2>1 DEF HeldSame, Held, Pinned
  <2> QED BY <2>1, <2>2, <2>3, LivesSent
<1>6. ASSUME NEW c \in Commands, GivesUp(c) PROVE Lives'
  <2>1. /\ Sent(c) /\ UNCHANGED <<requests, objects, connected, issued>>
        /\ owned' = owned \ {c.object} /\ Drops(c, c.object)
        /\ c.object \in owned /\ ~Pinned(c.object)
    BY <1>6 DEF GivesUp, Issued
  <2>2. c.object \in Objects
    BY <2>1 DEF Typed, TypeOK
  <2>3. Held(c.object) /\ \A id \in Objects : Held(id)' <=> Held(id) /\ id # c.object
    BY <2>1 DEF Held, Pinned
  <2> QED BY <2>1, <2>2, <2>3, LivesDrops
<1>7. ASSUME NEW id \in Objects, LetsGo(id) PROVE Lives'
  <2>1. /\ id \in owned /\ Pinned(id) /\ owned' = owned \ {id}
        /\ UNCHANGED <<down, objects, connected, requests, issued>>
    BY <1>7 DEF LetsGo
  <2>2. HeldSame
    BY <2>1 DEF HeldSame, Held, Pinned
  <2> QED BY <2>1, <2>2, LivesQuiet
<1>8. ASSUME \/ Idle \/ ReportsLoss \/ ShowsFrame \/ Notices
             \/ \E t \in tasks : (\E ok \in BOOLEAN : EndsMap(t, ok)) \/ EndsAsk(t) \/ LosesAsk(t)
      PROVE  Lives'
  <2>1. UNCHANGED <<down, objects, connected, owned, requests, issued>>
    BY <1>8 DEF Idle, ReportsLoss, ShowsFrame, Notices, EndsMap, EndsAsk, LosesAsk, Ends,
                ServerKept
  <2> QED BY <1>a, <2>1, LivesQuiet
<1>9. ASSUME NEW t \in tasks, NEW ok \in BOOLEAN, EndsLoad(t, ok) PROVE Lives'
  <2>1. /\ UNCHANGED <<down, connected, owned, requests, issued>>
        /\ objects' \subseteq objects \cup {t.object} /\ t.op = "loadTexture"
    BY <1>9 DEF EndsLoad, Ends, ServerKept
  <2>2. Held(t.object)
    BY <2>1, TaskPinned DEF Held, Pinned
  <2> QED BY <1>a, <2>1, <2>2, LivesQuiet
<1>10. ASSUME \/ Passes \/ Refuses \/ FailsBuffer \/ UnmapsBuffer \/ DestroysResource
              \/ StartsMap \/ MissesMap \/ StartsTask
       PROVE  Lives'
  <2>1. Executed /\ UNCHANGED <<objects, connected, owned, requests, issued>>
        /\ down[1].op # "destroyObject"
    BY <1>10 DEF Passes, Refuses, FailsBuffer, UnmapsBuffer, DestroysResource, StartsMap,
                 MissesMap, StartsTask, Runs, ServerKept, MapOps, CreateOps
  <2>2. \A id : ~Drops(down[1], id)
    BY <2>1 DEF Drops
  <2> QED BY <1>a, <2>1, <2>2, LivesExecuted
<1>11. ASSUME MakesBuffer \/ Acquires PROVE Lives'
  <2>1. /\ Executed /\ UNCHANGED <<connected, owned, requests, issued>>
        /\ objects' \subseteq objects \cup {down[1].object}
        /\ Introduces(down[1], down[1].object) /\ down[1].op # "destroyObject"
    BY <1>11 DEF MakesBuffer, Acquires, Runs, ServerKept, CreateOps, Introduces
  <2>2. \A id : ~Drops(down[1], id)
    BY <2>1 DEF Drops
  <2> QED BY <1>a, <2>1, <2>2, LivesExecuted
<1>12. ASSUME DropsObject PROVE Lives'
  <2>1. /\ Executed /\ UNCHANGED <<connected, owned, requests, issued>>
        /\ objects' = objects \ {down[1].object}
    BY <1>12 DEF DropsObject, Runs, ServerKept
  <2>2. \A id : Drops(down[1], id) => id \notin objects'
    BY <2>1 DEF Drops
  <2> QED BY <1>a, <2>1, <2>2, LivesExecuted
<1>13. ASSUME NEW r \in requests, Takes(r) PROVE Lives'
  <2>1. /\ requests' = requests \ {r}
        /\ owned' = owned \/ owned' = owned \cup {r.object}
        /\ IF r.object = NoObject \/ r.object \in owned' THEN down' = down
           ELSE Sent(Cmd("destroyObject", r.object, 0))
        /\ UNCHANGED <<objects, connected, issued>>
    BY <1>13 DEF Takes
  <2>2. r.object \in Objects \cup {NoObject}
    BY DEF Typed, Shaped, Pending, WellFormed
  <2>3. ASSUME r.object = NoObject \/ r.object \in owned' PROVE Lives'
    <3>1. HeldSame
      <4>1. ASSUME NEW id \in Objects, id # r.object
            PROVE  Held(id)' <=> Held(id)
        BY <2>1, <4>1 DEF Held, Pinned
      <4>2. ASSUME r.object \in Objects
            PROVE  Held(r.object)' /\ Held(r.object)
        BY <1>0, <2>1, <2>3, <4>2 DEF Held, Pinned
      <4> QED BY <4>1, <4>2 DEF HeldSame
    <3> QED BY <2>1, <2>3, <3>1, LivesQuiet
  <2>4. ASSUME r.object # NoObject, r.object \notin owned' PROVE Lives'
    <3> DEFINE c == Cmd("destroyObject", r.object, 0)
    <3>1. Sent(c) /\ c.object = r.object /\ Drops(c, c.object) /\ owned' = owned
      BY <2>1, <2>4 DEF Cmd, Drops
    <3>2. r.object \in Objects
      BY <2>2, <2>4
    <3>3. Held(r.object) /\ ~Held(r.object)'
      BY <2>1, <2>4, <3>1 DEF Held, Pinned, Pins
    <3>4. ASSUME NEW id \in Objects, id # r.object
          PROVE  Held(id)' <=> Held(id)
      BY <2>1, <3>1, <3>4 DEF Held, Pinned
    <3>5. \A id \in Objects : Held(id)' <=> Held(id) /\ id # c.object
      BY <3>1, <3>3, <3>4
    <3> HIDE DEF c
    <3> QED BY <2>1, <3>1, <3>2, <3>3, <3>5, LivesDrops
  <2> QED BY <2>3, <2>4
<1>14. ASSUME Breaks PROVE Lives'
  <2>1. D' = {} /\ requests' = {} /\ ~connected' /\ UNCHANGED <<objects, owned, issued>>
    BY <1>14 DEF Breaks, D
  <2>2. \A id \in Objects : Held(id)' => Held(id)
    BY <2>1 DEF Held, Pinned
  <2> QED BY <2>1, <2>2 DEF Lives, Unissued, IntroducedHeld, DroppedLast, ObjectsHeld
<1> QED BY <1>1, <1>2, <1>3, <1>4, <1>5, <1>6, <1>7, <1>8, <1>9, <1>10, <1>11, <1>12, <1>13,
           <1>14 DEF Step, AppStep, ClientStep, ReceiveStep

LEMMA PinsStep ==
    ASSUME Typed, Tracked, Pins, Lives, Step
    PROVE  Pins'
<1>0. NoObject \notin Objects /\ Buffers \subseteq Objects
      /\ map_state \in [Buffers -> {"Unmapped", "Pending", "Mapped"}]
  BY ClientExecutorAssumption, AppObjects DEF Typed, TypeOK
<1>a. \A id \in Objects : id \notin issued => ~Pinned(id) /\ id \notin owned
  BY DEF Lives, Unissued, Held
<1>1. ASSUME NEW c, Makes(c) PROVE Pins'
  <2>1. /\ UNCHANGED requests /\ c.object \in Objects \ issued
        /\ issued' = issued \cup {c.object}
        /\ map_state' = map_state \/ map_state' = [map_state EXCEPT ![c.object] = "Mapped"]
    BY <1>1 DEF Makes
  <2>2. ~Pinned(c.object)
    BY <1>a, <2>1
  <2> QED BY <1>0, <2>1, <2>2 DEF Pins, Pinned
<1>2. ASSUME NEW c, Maps(c) PROVE Pins'
  <2>1. /\ requests' = requests \cup {c} /\ c.object \in Buffers /\ c.object \in issued
        /\ map_state[c.object] = "Unmapped" /\ UNCHANGED issued
        /\ map_state' = [map_state EXCEPT ![c.object] = "Pending"]
    <3>1. c.op \in BufferOps
      BY <1>2 DEF Maps, MapOps, BufferOps
    <3>2. c.object \in Buffers
      BY <1>2, <3>1 DEF Maps, Asks, Issued, WellFormed
    <3> QED BY <1>0, <1>2, <1>a, <3>2 DEF Maps, Asks
  <2>2. ~Pinned(c.object)
    BY <2>1 DEF Pins
  <2>3. Pinned(c.object)' /\ \A id : id # c.object => (Pinned(id)' <=> Pinned(id))
    BY <2>1 DEF Pinned
  <2>4. \A r, s \in requests' : r.object = s.object /\ r.object # NoObject => r = s
    BY <2>1, <2>2 DEF Pins, Pinned
  <2>5. \A b \in Buffers : map_state'[b] = "Pending" <=> Pinned(b)'
    BY <1>0, <2>1, <2>3 DEF Pins
  <2> QED BY <1>0, <2>1, <2>4, <2>5 DEF Pins
<1>3. ASSUME NEW c, Loads(c) PROVE Pins'
  <2>1. /\ requests' = requests \cup {c} /\ c.object \in Objects \ issued
        /\ c.object \notin Buffers
        /\ issued' = issued \cup {c.object} /\ UNCHANGED map_state
    BY <1>3, ClientExecutorAssumption DEF Loads, Asks, Issued, WellFormed
  <2>2. ~Pinned(c.object)
    BY <1>a, <2>1
  <2>3. \A id : id # c.object => (Pinned(id)' <=> Pinned(id))
    BY <2>1 DEF Pinned
  <2>4. \A r, s \in requests' : r.object = s.object /\ r.object # NoObject => r = s
    BY <2>1, <2>2 DEF Pins, Pinned
  <2> QED BY <2>1, <2>3, <2>4 DEF Pins
<1>4. ASSUME NEW c, Inquires(c) PROVE Pins'
  <2>1. /\ requests' = requests \cup {c} /\ c.object = NoObject /\ UNCHANGED <<map_state, issued>>
    BY <1>4 DEF Inquires, Asks, Issued, WellFormed
  <2>2. \A id \in Objects : Pinned(id)' <=> Pinned(id)
    BY <1>0, <2>1 DEF Pinned
  <2> QED BY <1>0, <2>1, <2>2 DEF Pins
<1>5. ASSUME NEW c, Unmaps(c) PROVE Pins'
  <2>1. /\ UNCHANGED <<requests, issued>> /\ map_state[c.object] = "Mapped"
        /\ map_state' = [map_state EXCEPT ![c.object] = "Unmapped"]
    BY <1>5 DEF Unmaps
  <2>2. \A id : Pinned(id)' <=> Pinned(id)
    BY <2>1 DEF Pinned
  <2> QED BY <1>0, <2>1, <2>2 DEF Pins
<1>6. ASSUME UNCHANGED <<requests, map_state>>, issued \subseteq issued' PROVE Pins'
  BY <1>6 DEF Pins, Pinned
<1>7. ASSUME (\E c : Tells(c) \/ GivesUp(c)) \/ (\E id \in Objects : LetsGo(id)) \/ Idle
             \/ ClientStep \/ Notices
      PROVE  Pins'
  <2>1. UNCHANGED <<requests, map_state>> /\ issued \subseteq issued'
    BY <1>7 DEF Tells, GivesUp, LetsGo, Idle, Notices, ClientStep, Passes, Refuses,
                MakesBuffer, FailsBuffer, StartsMap, MissesMap, UnmapsBuffer, DestroysResource,
                DropsObject, StartsTask, Acquires, EndsMap, EndsLoad, EndsAsk, LosesAsk, Ends,
                ShowsFrame, ReportsLoss, Runs, ServerKept
  <2> QED BY <1>6, <2>1
<1>8. ASSUME NEW r \in requests, Takes(r) PROVE Pins'
  <2>1. requests' = requests \ {r} /\ UNCHANGED issued /\ up[1].op = Kind(r.op)
        /\ map_state' = IF up[1].op = "map"
                    THEN [map_state EXCEPT ![r.object] =
                             IF up[1].ok THEN "Mapped" ELSE "Unmapped"]
                    ELSE map_state
    BY <1>8 DEF Takes
  <2>2. \A id : id # r.object => (Pinned(id)' <=> Pinned(id))
    BY <2>1 DEF Pinned
  <2>3. r.object \in Objects => ~Pinned(r.object)' /\ Pinned(r.object)
    BY <1>0, <2>1 DEF Pinned, Pins
  <2>4. r.object \in Buffers <=> up[1].op = "map"
    <3>1. WellFormed(r, calls.requests) /\ r.op \in AskOps
      BY DEF Typed, Shaped, Pending
    <3>2. CASE r.op \in MapOps
      <4>1. r.op \in BufferOps
        BY <3>2 DEF MapOps, BufferOps
      <4> QED BY <2>1, <3>1, <3>2, <4>1 DEF WellFormed, Kind
    <3>3. CASE r.op \notin MapOps
      <4>1. r.op = "loadTexture" \/ r.op \in QuestionOps
        BY <3>1, <3>3 DEF AskOps, MapOps, QuestionOps
      <4>2. r.object \in Textures \/ r.object = NoObject
        BY <3>1, <4>1 DEF WellFormed
      <4>3. r.object \notin Buffers
        BY <1>0, <4>2, ClientExecutorAssumption
      <4> QED BY <2>1, <3>3, <4>1, <4>3 DEF Kind, QuestionOps
    <3> QED BY <3>2, <3>3
  <2>5. \A b \in Buffers : map_state'[b] = "Pending" <=> Pinned(b)'
    BY <1>0, <2>1, <2>2, <2>3, <2>4 DEF Pins
  <2>6. \A b \in Buffers : b \notin issued => map_state'[b] = "Unmapped"
    BY <1>0, <1>a, <2>1, <2>3 DEF Pins
  <2> QED BY <2>1, <2>5, <2>6 DEF Pins
<1>9. ASSUME Breaks PROVE Pins'
  <2>1. /\ requests' = {} /\ UNCHANGED issued
        /\ \A b \in Buffers : map_state'[b] # "Pending"
        /\ \A b \in Buffers : map_state[b] = "Unmapped" => map_state'[b] = "Unmapped"
    BY <1>0, <1>9 DEF Breaks
  <2> QED BY <2>1 DEF Pins, Pinned
<1> QED BY <1>1, <1>2, <1>3, <1>4, <1>5, <1>7, <1>8, <1>9 DEF Step, AppStep, ReceiveStep

-----------------------------------------------------------------------------
(* Where a name resolves: a buffer is known, or could not be created, or   *)
(* is on its way before the command that names it; a fetched texture is    *)
(* named once it is there.                                                 *)

Came(b) == b \in objects \/ b \in failed

NamedKnown ==
    \A b \in Buffers, i \in D : down[i].object = b /\ down[i].op \notin CreateOps =>
        Came(b) \/ \E j \in D : j < i /\ Introduces(down[j], b)

HeldKnown ==
    connected => \A b \in Buffers : Held(b) =>
        Came(b) \/ \E j \in D : Introduces(down[j], b)

IntroducedFirst ==
    \A b \in Buffers, i \in D : Introduces(down[i], b) =>
        \A j \in D : down[j].object = b => j >= i

Bufs == NamedKnown /\ HeldKnown /\ IntroducedFirst

Texs ==
    /\ connected => \A t \in Textures : t \in owned => t \in objects /\ ~Pinned(t)
    /\ \A t \in Textures, i \in D :
          down[i].object = t /\ down[i].op \notin {"loadTexture", "destroyObject"} =>
              t \in objects
    /\ \A i \in U, r \in requests :
          up[i].op = "load" /\ up[i].ok /\ r.req = up[i].req => r.object \in objects

LEMMA BufsSent ==
    ASSUME Typed, Lives, Bufs, NEW c, Sent(c), connected,
           c.object \in Buffers => Held(c.object),
           c.object \in Buffers => c.op \notin CreateOps,
           \A b \in Buffers : ~Introduces(c, b),
           \A b \in Buffers : Held(b)' => Held(b), UNCHANGED <<objects, failed, connected>>
    PROVE  Bufs'
<1>0. /\ D' = D \cup {Len(down) + 1} /\ down'[Len(down) + 1] = c /\ Len(down) + 1 \notin D
      /\ \A i \in D : down'[i] = down[i] /\ i < Len(down) + 1
      /\ D \subseteq Int /\ Len(down) + 1 \in Int
  BY SentAt
<1>1. NamedKnown'
  <2>1. ASSUME NEW b \in Buffers, NEW i \in D', down'[i].object = b,
               down'[i].op \notin CreateOps
        PROVE  Came(b) \/ \E j \in D : j < i /\ Introduces(down[j], b)
    <3>1. CASE i \in D
      BY <1>0, <2>1, <3>1 DEF Bufs, NamedKnown
    <3>2. CASE i = Len(down) + 1
      BY <1>0, <2>1, <3>2 DEF Bufs, HeldKnown
    <3> QED BY <1>0, <3>1, <3>2
  <2> QED BY <1>0, <2>1 DEF NamedKnown, Came
<1>2. HeldKnown'
  BY <1>0 DEF Bufs, HeldKnown, Came
<1>3. IntroducedFirst'
  BY <1>0 DEF Bufs, IntroducedFirst
<1> QED BY <1>1, <1>2, <1>3 DEF Bufs

LEMMA BufsMakes ==
    ASSUME Typed, Lives, Bufs, NEW c, Sent(c), c.object \in Objects \ issued,
           Introduces(c, c.object), c.object \in Buffers => c.op \in CreateOps,
           \A b \in Buffers : Held(b)' => Held(b) \/ b = c.object,
           UNCHANGED <<objects, failed, connected>>
    PROVE  Bufs'
<1>0. /\ D' = D \cup {Len(down) + 1} /\ down'[Len(down) + 1] = c /\ Len(down) + 1 \notin D
      /\ \A i \in D : down'[i] = down[i] /\ i < Len(down) + 1
      /\ D \subseteq Int /\ Len(down) + 1 \in Int
  BY SentAt
<1>a. \A b : Introduces(c, b) => b = c.object
  BY DEF Introduces
<1>b. \A i \in D : down[i].object # c.object
  BY DEF Lives, Unissued
<1>1. NamedKnown'
  BY <1>0 DEF Bufs, NamedKnown, Came
<1>2. HeldKnown'
  BY <1>0 DEF Bufs, HeldKnown, Came
<1>3. IntroducedFirst'
  BY <1>0, <1>a, <1>b DEF Bufs, IntroducedFirst
<1> QED BY <1>1, <1>2, <1>3 DEF Bufs

LEMMA BufsQuiet ==
    ASSUME Typed, Bufs, \A b \in Buffers : Held(b)' => Held(b),
           \A b \in Buffers : Came(b) => Came(b)',
           UNCHANGED <<down, connected>>
    PROVE  Bufs'
<1>1. D' = D
  BY DEF D
<1> QED BY <1>1 DEF Bufs, NamedKnown, HeldKnown, IntroducedFirst

LEMMA BufsExecuted ==
    ASSUME Typed, Lives, Bufs, Executed, UNCHANGED connected,
           \A b \in Buffers : Held(b)' => Held(b),
           \A b \in Buffers : Came(b) \/ Introduces(down[1], b) =>
                Came(b)' \/ Drops(down[1], b)
    PROVE  Bufs'
<1>1. /\ 1 \in D
      /\ \A i \in D' : i + 1 \in D /\ i + 1 # 1 /\ down'[i] = down[i + 1]
      /\ \A i \in D \ {1} : i - 1 \in D' /\ down'[i - 1] = down[i]
      /\ \A i \in D : i \in Int /\ i >= 1
      /\ \A i \in D' : i \in Int /\ i >= 1
  BY Indices DEF D
<1>2. ASSUME NEW b \in Buffers, Drops(down[1], b)
      PROVE  ~Held(b) /\ \A i \in D' : down'[i].object # b
  <2>1. b \in Objects
    BY AppObjects
  <2>2. ~Held(b) /\ \A j \in D : down[j].object = b => j <= 1
    BY <1>1, <1>2, <2>1 DEF Lives, DroppedLast
  <2> QED BY <1>1, <2>2
<1>3. ASSUME NEW b \in Buffers, NEW j \in D, Introduces(down[j], b), ~Drops(down[1], b),
             ~Came(b)'
      PROVE  \E k \in D' : k = j - 1 /\ Introduces(down'[k], b)
  BY <1>1, <1>3
<1>4. NamedKnown'
  <2>1. ASSUME NEW b \in Buffers, NEW i \in D', down'[i].object = b,
               down'[i].op \notin CreateOps, ~Came(b)'
        PROVE  \E j \in D' : j < i /\ Introduces(down'[j], b)
    <3>1. ~Drops(down[1], b)
      BY <1>2, <2>1
    <3>2. PICK j \in D : j < i + 1 /\ Introduces(down[j], b)
      BY <1>1, <2>1, <3>1 DEF Bufs, NamedKnown
    <3> QED BY <1>1, <1>3, <2>1, <3>1, <3>2
  <2> QED BY <2>1 DEF NamedKnown
<1>5. HeldKnown'
  <2>1. ASSUME connected, NEW b \in Buffers, Held(b), ~Came(b)'
        PROVE  \E j \in D' : Introduces(down'[j], b)
    <3>1. ~Drops(down[1], b)
      BY <1>2, <2>1
    <3>2. PICK j \in D : Introduces(down[j], b)
      BY <2>1, <3>1 DEF Bufs, HeldKnown
    <3> QED BY <1>3, <2>1, <3>1, <3>2
  <2> QED BY <2>1 DEF HeldKnown
<1>6. IntroducedFirst'
  <2>1. ASSUME NEW b \in Buffers, NEW i \in D', Introduces(down'[i], b), NEW j \in D',
               down'[j].object = b
        PROVE  j >= i
    <3>1. j + 1 >= i + 1
      BY <1>1, <2>1 DEF Bufs, IntroducedFirst
    <3> QED BY <1>1, <3>1
  <2> QED BY <2>1 DEF IntroducedFirst
<1> QED BY <1>4, <1>5, <1>6 DEF Bufs

LEMMA BufsStep ==
    ASSUME Typed, Tracked, Pins, Lives, Bufs, Step
    PROVE  Bufs'
<1>0. /\ NoObject \notin Objects /\ Buffers \subseteq Objects
      /\ Buffers \cap Textures = {} /\ Buffers \cap Frames = {}
  BY ClientExecutorAssumption, AppObjects
<1>a. ASSUME UNCHANGED <<owned, requests>> PROVE \A b \in Buffers : Held(b)' => Held(b)
  BY <1>a DEF Held, Pinned
<1>1. ASSUME NEW c, Tells(c) \/ Unmaps(c) \/ GivesUp(c) PROVE Bufs'
  <2>1. /\ connected /\ Sent(c) /\ UNCHANGED <<requests, objects, failed, connected>>
        /\ owned' \subseteq owned
        /\ c.object \in Buffers => c.object \in owned
    BY <1>0, <1>1 DEF Tells, Unmaps, GivesUp, Issued
  <2>2. (\A b : ~Introduces(c, b)) /\ c.op \notin CreateOps
    BY <1>1 DEF Tells, Unmaps, GivesUp, Introduces, Drops, CreateOps
  <2>3. \A b \in Buffers : Held(b)' => Held(b)
    BY <2>1 DEF Held, Pinned
  <2> QED BY <2>1, <2>2, <2>3, BufsSent DEF Held
<1>2. ASSUME NEW c, Makes(c) PROVE Bufs'
  <2>1. /\ Sent(c) /\ UNCHANGED <<requests, objects, failed, connected>>
        /\ owned' = owned \cup {c.object}
        /\ c.object \in Objects \ issued
        /\ Introduces(c, c.object)
    BY <1>2 DEF Makes, Issued, Introduces
  <2>2. \A b \in Buffers : Held(b)' => Held(b) \/ b = c.object
    BY <2>1 DEF Held, Pinned
  <2>3. c.object \in Buffers => c.op \in CreateOps
    BY <1>0, <1>2 DEF Makes, Issued, WellFormed, CreateOps
  <2> QED BY <2>1, <2>2, <2>3, BufsMakes
<1>3. ASSUME NEW c, Maps(c) PROVE Bufs'
  <2>1. /\ connected /\ Sent(c) /\ UNCHANGED <<owned, objects, failed, connected>>
        /\ requests' = requests \cup {c} /\ c.object \in owned /\ c.op \in MapOps
    BY <1>3 DEF Maps, Asks, Issued
  <2>2. (\A b : ~Introduces(c, b)) /\ c.op \notin CreateOps
    BY <2>1 DEF Introduces, MapOps, CreateOps
  <2>3. \A b \in Buffers : Held(b)' => Held(b)
    BY <2>1 DEF Held, Pinned
  <2> QED BY <2>1, <2>2, <2>3, BufsSent DEF Held
<1>4. ASSUME NEW c, Loads(c) \/ Inquires(c) PROVE Bufs'
  <2>1. /\ connected /\ Sent(c) /\ UNCHANGED <<owned, objects, failed, connected>>
        /\ requests' = requests \cup {c} /\ c.object \notin Buffers
    BY <1>0, <1>4 DEF Loads, Inquires, Asks, Issued, WellFormed
  <2>2. \A b \in Buffers : ~Introduces(c, b)
    BY <2>1 DEF Introduces
  <2>3. \A b \in Buffers : Held(b)' => Held(b)
    BY <2>1 DEF Held, Pinned
  <2> QED BY <2>1, <2>2, <2>3, BufsSent
<1>5. ASSUME \/ \E id \in Objects : LetsGo(id)
             \/ Idle \/ ReportsLoss \/ ShowsFrame \/ Notices
             \/ \E t \in tasks : \/ \E ok \in BOOLEAN : EndsMap(t, ok) \/ EndsLoad(t, ok)
                                 \/ EndsAsk(t) \/ LosesAsk(t)
      PROVE  Bufs'
  <2>1. /\ UNCHANGED <<down, connected, requests>> /\ owned' \subseteq owned
        /\ objects \subseteq objects' /\ UNCHANGED failed
    BY <1>5 DEF LetsGo, Idle, ReportsLoss, ShowsFrame, Notices, EndsMap, EndsLoad, EndsAsk,
                LosesAsk, Ends, ServerKept
  <2>2. \A b \in Buffers : Held(b)' => Held(b)
    BY <2>1 DEF Held, Pinned
  <2> QED BY <2>1, <2>2, BufsQuiet DEF Came
<1>6. ASSUME \/ Passes \/ Refuses \/ UnmapsBuffer \/ DestroysResource \/ StartsMap
             \/ MissesMap \/ StartsTask \/ Acquires
      PROVE  Bufs'
  <2>1. /\ Executed /\ UNCHANGED <<connected, owned, requests, failed>>
        /\ objects \subseteq objects'
        /\ down[1].op \notin CreateOps
    BY <1>6 DEF Passes, Refuses, UnmapsBuffer, DestroysResource, StartsMap, MissesMap, StartsTask,
                Acquires, Runs, ServerKept, MapOps, CreateOps
  <2>2. WellFormed(down[1], calls.requests)
    BY <2>1, Indices DEF Typed, Shaped, Downs
  <2>3. \A b \in Buffers : ~Introduces(down[1], b)
    BY <1>0, <2>1, <2>2 DEF Introduces, WellFormed, CreateOps
  <2> QED BY <1>a, <2>1, <2>3, BufsExecuted DEF Came
<1>7. ASSUME MakesBuffer \/ FailsBuffer PROVE Bufs'
  <2>1. /\ Executed /\ UNCHANGED <<connected, owned, requests>>
        /\ objects \subseteq objects' /\ failed \subseteq failed'
        /\ down[1].object \in objects' \cup failed'
    BY <1>7 DEF MakesBuffer, FailsBuffer, Runs, ServerKept
  <2>2. \A b : Came(b) \/ Introduces(down[1], b) => Came(b)'
    BY <2>1 DEF Introduces, Came
  <2> QED BY <1>a, <2>1, <2>2, BufsExecuted
<1>8. ASSUME DropsObject PROVE Bufs'
  <2>1. /\ Executed /\ UNCHANGED <<connected, owned, requests, failed>>
        /\ objects' = objects \ {down[1].object} /\ down[1].op = "destroyObject"
    BY <1>8 DEF DropsObject, Runs, ServerKept
  <2>2. \A b : Came(b) => Came(b)' \/ Drops(down[1], b)
    BY <2>1 DEF Drops, Came
  <2>3. \A b : ~Introduces(down[1], b)
    BY <2>1 DEF Introduces
  <2> QED BY <1>a, <2>1, <2>2, <2>3, BufsExecuted
<1>9. ASSUME NEW r \in requests, Takes(r) PROVE Bufs'
  <2> DEFINE c == Cmd("destroyObject", r.object, 0)
  <2>1. /\ requests' = requests \ {r} /\ connected
        /\ owned' = IF up[1].op = "load" /\ up[1].ok THEN owned \cup {r.object} ELSE owned
        /\ up[1].op = Kind(r.op)
        /\ down' = down \/ Sent(c)
        /\ UNCHANGED <<objects, failed, connected>>
    BY <1>9 DEF Takes
  <2>2. \A b \in Buffers : Held(b)' => Held(b)
    BY <2>1 DEF Held, Pinned
  <2>3. c.object = r.object /\ c.op = "destroyObject"
    BY DEF Cmd
  <2> HIDE DEF c
  <2>4. (\A b : ~Introduces(c, b)) /\ c.op \notin CreateOps /\ Held(c.object)
    BY <2>3 DEF Introduces, CreateOps, Held, Pinned
  <2> QED BY <2>1, <2>2, <2>4, BufsSent, BufsQuiet DEF Came
<1>10. ASSUME Breaks PROVE Bufs'
  BY <1>10 DEF Breaks, D, Bufs, NamedKnown, HeldKnown, IntroducedFirst
<1> QED BY <1>1, <1>2, <1>3, <1>4, <1>5, <1>6, <1>7, <1>8, <1>9, <1>10
        DEF Step, AppStep, ClientStep, ReceiveStep

LEMMA TexsStep ==
    ASSUME Typed, Typed', Tracked, Pins, Lives, Texs, Step
    PROVE  Texs'
<1> DEFINE OwnedThere == connected => \A t \in Textures : t \in owned => t \in objects /\ ~Pinned(t)
           NamedThere == \A t \in Textures, i \in D :
              down[i].object = t /\ down[i].op \notin {"loadTexture", "destroyObject"} =>
                 t \in objects
           LoadedThere == \A i \in U, r \in requests :
              up[i].op = "load" /\ up[i].ok /\ r.req = up[i].req => r.object \in objects
<1>0. /\ NoObject \notin Objects /\ Textures \subseteq Objects
      /\ Buffers \cap Textures = {} /\ Textures \cap Frames = {}
      /\ OwnedThere /\ NamedThere /\ LoadedThere
  BY ClientExecutorAssumption, AppObjects DEF Texs
<1>z. OwnedThere' /\ NamedThere' /\ LoadedThere' => Texs'
  BY DEF Texs
<1>a. ASSUME NEW c, Sent(c), UNCHANGED objects, connected,
             c.object \in Textures /\ c.op \notin {"loadTexture", "destroyObject"} =>
                c.object \in owned
      PROVE  NamedThere'
  <2>1. /\ D' = D \cup {Len(down) + 1} /\ down'[Len(down) + 1] = c
        /\ \A i \in D : down'[i] = down[i]
    BY <1>a, SentAt
  <2> QED BY <1>0, <1>a, <2>1
<1>1. ASSUME NEW c, Tells(c) \/ Unmaps(c) \/ GivesUp(c) PROVE Texs'
  <2>1. /\ connected /\ Sent(c) /\ UNCHANGED <<requests, objects, connected, up>>
        /\ owned' \subseteq owned
        /\ c.object \in Textures => c.object \in owned
    BY <1>0, <1>1 DEF Tells, Unmaps, GivesUp, Issued
  <2>2. OwnedThere' /\ LoadedThere'
    BY <1>0, <2>1 DEF Pinned, U
  <2> QED BY <1>a, <1>z, <2>1, <2>2
<1>2. ASSUME NEW c, Makes(c) PROVE Texs'
  <2>1. /\ connected /\ Sent(c) /\ UNCHANGED <<requests, objects, connected, up>>
        /\ owned' = owned \cup {c.object}
    BY <1>2 DEF Makes, Issued
  <2>2. c.object \notin Textures
    BY <1>0, <1>2 DEF Makes, Issued, WellFormed, BufferOps
  <2>3. OwnedThere' /\ LoadedThere'
    BY <1>0, <2>1, <2>2 DEF Pinned, U
  <2> QED BY <1>a, <1>z, <2>1, <2>2, <2>3
<1>3. ASSUME NEW c, Asks(c), c.op = "loadTexture" \/ c.object \notin Textures,
             c.object \in Textures => c.object \notin issued
      PROVE  Texs'
  <2>1. /\ connected /\ Sent(c) /\ UNCHANGED <<owned, objects, connected, up>>
        /\ requests' = requests \cup {c} /\ c.req = calls.requests + 1
    BY <1>3 DEF Asks, Issued
  <2>2. c.object \in Textures => c.object \notin owned
    BY <1>0, <1>3 DEF Lives, Unissued, Held
  <2>3. OwnedThere'
    BY <1>0, <2>1, <2>2 DEF Pinned
  <2>4. \A i \in U : up[i].op = "load" => up[i].req # c.req
    <3>1. \A r \in requests : r.req # calls.requests + 1
      BY SessionAssumption DEF Typed, Shaped, Pending, WellFormed, CallsType
    <3> QED BY <2>1, <3>1 DEF Tracked, Numbered, Typed, Shaped, Ups, AnswerOps
  <2>5. LoadedThere'
    BY <1>0, <2>1, <2>4 DEF U
  <2> QED BY <1>3, <1>a, <1>z, <2>1, <2>3, <2>5
<1>4. ASSUME NEW c, Maps(c) \/ Loads(c) \/ Inquires(c) PROVE Texs'
  <2>1. Asks(c)
    BY <1>4 DEF Maps, Loads, Inquires
  <2>2. WellFormed(c, calls'.requests)
    BY <2>1 DEF Asks, Issued
  <2>3. c.op = "loadTexture" \/ c.object \notin Textures
    BY <1>0, <1>4, <2>2 DEF Maps, Loads, Inquires, WellFormed, MapOps, BufferOps
  <2>4. c.object \in Textures => c.object \notin issued
    BY <1>0, <1>4, <2>3 DEF Maps, Loads, Inquires, MapOps, QuestionOps
  <2> QED BY <1>3, <2>1, <2>3, <2>4
<1>5. ASSUME UNCHANGED <<down, connected, requests>>, owned' \subseteq owned,
             objects \subseteq objects',
             up' = up \/ \E a : Replied(a) /\ a.op # "load"
      PROVE  Texs'
  <2>1. OwnedThere' /\ NamedThere'
    BY <1>0, <1>5 DEF Pinned, D
  <2>2. \A i \in U' : up'[i].op # "load" \/ (i \in U /\ up'[i] = up[i])
    BY <1>5, Indices DEF Replied, U
  <2>3. LoadedThere'
    BY <1>0, <1>5, <2>2
  <2> QED BY <1>z, <2>1, <2>3
<1>6. ASSUME NEW t \in tasks, NEW a, Ends(t, a), a.op # "load", UNCHANGED objects PROVE Texs'
  BY <1>5, <1>6 DEF Ends, ServerKept
<1>7. ASSUME NEW t \in tasks, (\E ok \in BOOLEAN : EndsMap(t, ok)) \/ EndsAsk(t) PROVE Texs'
  BY <1>6, <1>7 DEF EndsMap, EndsAsk, Answer, QuestionOps
<1>8. ASSUME \/ \E id \in Objects : LetsGo(id)
             \/ Idle
             \/ \E t \in tasks : LosesAsk(t)
      PROVE  Texs'
  BY <1>5, <1>8 DEF LetsGo, Idle, LosesAsk, ServerKept
<1>9. ASSUME ShowsFrame \/ ReportsLoss PROVE Texs'
  BY <1>5, <1>9 DEF ShowsFrame, ReportsLoss, ServerKept, Answer
<1>10. ASSUME NEW t \in tasks, NEW ok \in BOOLEAN, EndsLoad(t, ok) PROVE Texs'
  <2> DEFINE a == Answer("load", t.req, ok)
  <2>1. /\ UNCHANGED <<down, connected, requests, owned>> /\ objects \subseteq objects'
        /\ ok => t.object \in objects'
        /\ up' = up \/ Replied(a)
        /\ t.op = "loadTexture"
    BY <1>10 DEF EndsLoad, Ends, ServerKept
  <2>2. a.req = t.req /\ a.ok = ok
    BY DEF Answer
  <2> HIDE DEF a
  <2>3. t \in requests
    BY <2>1, TaskPinned
  <2>4. \A r \in requests : r.req = a.req => r = t
    BY <2>2, <2>3 DEF Tracked, Numbered
  <2>5. \A i \in U' : (Replied(a) /\ up'[i] = a) \/ (i \in U /\ up'[i] = up[i])
    BY <2>1, Indices DEF Replied, U
  <2>6. LoadedThere'
    BY <1>0, <2>1, <2>2, <2>4, <2>5
  <2>7. OwnedThere' /\ NamedThere'
    BY <1>0, <2>1 DEF Pinned, D
  <2> QED BY <1>z, <2>6, <2>7
<1>11. ASSUME Passes \/ UnmapsBuffer \/ DestroysResource \/ StartsMap \/ MissesMap \/ StartsTask
             \/ Acquires \/ MakesBuffer \/ FailsBuffer \/ Refuses
      PROVE  Texs'
  <2>1. /\ Executed /\ UNCHANGED <<connected, owned, requests>> /\ objects \subseteq objects'
    BY <1>11 DEF Passes, Refuses, UnmapsBuffer, DestroysResource, StartsMap, MissesMap, StartsTask,
                Acquires, MakesBuffer, FailsBuffer, Runs, ServerKept
  <2>2. \A i \in D' : i + 1 \in D /\ down'[i] = down[i + 1]
    BY <2>1, Indices
  <2>3. OwnedThere' /\ NamedThere'
    BY <1>0, <2>1, <2>2 DEF Pinned
  <2>4. up' = up \/ \E a : Replied(a) /\ a.op # "load"
    <3>1. Answer("error", 0, FALSE).op # "load"
      BY DEF Answer
    <3> QED BY <1>11, <3>1 DEF Passes, Refuses, UnmapsBuffer, DestroysResource, StartsMap,
                MissesMap, StartsTask, Acquires, MakesBuffer, FailsBuffer
  <2>5. \A i \in U' : up'[i].op # "load" \/ (i \in U /\ up'[i] = up[i])
    BY <2>4, Indices DEF Replied, U
  <2>6. LoadedThere'
    BY <1>0, <2>1, <2>5
  <2> QED BY <1>z, <2>3, <2>6
<1>12. ASSUME DropsObject PROVE Texs'
  <2>1. /\ Executed /\ UNCHANGED <<connected, owned, requests, up>>
        /\ objects' = objects \ {down[1].object} /\ Drops(down[1], down[1].object)
    BY <1>12 DEF DropsObject, Runs, ServerKept, Drops
  <2>2. 1 \in D /\ \A i \in D' : i + 1 \in D /\ i + 1 > 1 /\ down'[i] = down[i + 1]
    BY <2>1, Indices DEF D
  <2>3. down[1].object \in Objects => ~Held(down[1].object)
            /\ \A i \in D : down[i].object = down[1].object => i <= 1
    BY <2>1, <2>2 DEF Lives, DroppedLast
  <2>4. OwnedThere'
    BY <1>0, <2>1, <2>3 DEF Pinned, Held
  <2>5. NamedThere'
    <3>1. ASSUME NEW i \in D', down'[i].object \in Objects, down'[i].object = down[1].object
          PROVE  FALSE
      <4>1. i + 1 \in D /\ i + 1 > 1 /\ down[i + 1].object = down[1].object
        BY <2>2, <3>1
      <4>2. i + 1 <= 1
        BY <2>3, <3>1, <4>1
      <4>3. i \in Int
        BY DEF D
      <4> QED BY <4>1, <4>2, <4>3
    <3> QED BY <1>0, <2>1, <2>2, <3>1
  <2>6. LoadedThere'
    <3>1. ASSUME NEW r \in requests PROVE r.object # down[1].object \/ r.object \notin Objects
      BY <2>3 DEF Held, Pinned
    <3>2. ASSUME NEW r \in requests, NEW i \in U, up[i].op = "load", r.req = up[i].req
          PROVE  r.object \in Objects
      <4>1. Kind(r.op) = "load"
        BY <3>2 DEF Tracked, Numbered, Typed, Shaped, Ups, AnswerOps
      <4>2. r.op = "loadTexture"
        BY <4>1, KindView DEF Typed, Shaped, Pending
      <4> QED BY <1>0, <4>2 DEF Typed, Shaped, Pending, WellFormed
    <3> QED BY <1>0, <2>1, <3>1, <3>2 DEF U
  <2> QED BY <1>z, <2>4, <2>5, <2>6
<1>13. ASSUME NEW r \in requests, Takes(r) PROVE Texs'
  <2> DEFINE c == Cmd("destroyObject", r.object, 0)
  <2>1. /\ requests' = requests \ {r} /\ connected /\ Heard
        /\ r.req = up[1].req
        /\ owned' = IF up[1].op = "load" /\ up[1].ok THEN owned \cup {r.object} ELSE owned
        /\ down' = down \/ Sent(c)
        /\ UNCHANGED <<objects, connected>>
    BY <1>13 DEF Takes
  <2>2. 1 \in U /\ \A i \in U' : i + 1 \in U /\ up'[i] = up[i + 1]
    BY <2>1, Indices
  <2>3. LoadedThere'
    BY <1>0, <2>1, <2>2
  <2>4. c.op = "destroyObject"
    BY DEF Cmd
  <2> HIDE DEF c
  <2>5. NamedThere'
    BY <1>0, <1>a, <2>1, <2>4 DEF D
  <2>6. ASSUME up[1].op = "load", up[1].ok, r.object \in Textures
        PROVE  r.object \in objects /\ ~Pinned(r.object)'
    BY <1>0, <2>1, <2>2, <2>6 DEF Pinned, Pins
  <2>7. OwnedThere'
    BY <1>0, <2>1, <2>6 DEF Pinned
  <2> QED BY <1>z, <2>3, <2>5, <2>7
<1>14. ASSUME Notices PROVE Texs'
  <2>1. Heard /\ UNCHANGED <<down, connected, requests, owned, objects>>
    BY <1>14 DEF Notices
  <2>2. \A i \in U' : i + 1 \in U /\ up'[i] = up[i + 1]
    BY <2>1, Indices
  <2>3. OwnedThere' /\ NamedThere' /\ LoadedThere'
    BY <1>0, <2>1, <2>2 DEF Pinned, D
  <2> QED BY <1>z, <2>3
<1>15. ASSUME Breaks PROVE Texs'
  BY <1>15 DEF Breaks, D, U, Texs
<1> QED BY <1>1, <1>2, <1>4, <1>7, <1>8, <1>9, <1>10, <1>11, <1>12, <1>13, <1>14, <1>15
        DEF Step, AppStep, ClientStep, ReceiveStep

-----------------------------------------------------------------------------
(* What both sides know of a buffer's mapping.                             *)

At(i, b, ops) == down[i].object = b /\ down[i].op \in ops

\* The browser is not mapping it, nor is it still mapped from its creation.
AtRest == {"unmapped", "taken", "destroyed"}

Resting(b) ==
    /\ mapping[b] \in AtRest
    /\ \A j \in D : ~At(j, b, {"createMappedBuffer"})

\* Before the n-th command the buffer will be at rest.
Ready(b, n) == Resting(b) \/ \E j \in D : j < n /\ At(j, b, {"unmap", "createBuffer"})

PendingTask ==
    connected => \A b \in Buffers : mapping[b] = "pending" => \E t \in tasks : t.object = b

MapReady == \A b \in Buffers, i \in D : At(i, b, MapOps) => Ready(b, i)

UnmappedReady ==
    connected => \A b \in Buffers :
        b \in owned /\ map_state[b] = "Unmapped" => Ready(b, Len(down) + 1)

RefusedRests ==
    \A i \in U, r \in requests : up[i].op = "map" /\ ~up[i].ok /\ r.req = up[i].req =>
        mapping[r.object] \in AtRest

TaskMaps ==
    \A t \in tasks : t.op \in MapOps => mapping[t.object] \in {"pending", "taken", "destroyed"}

\* A buffer is created and unmapped before the request that holds it is sent.
RequestLast ==
    \A r \in requests, j \in D : At(j, r.object, {"createBuffer", "createMappedBuffer", "unmap"}) =>
        \E i \in D : i > j /\ down[i] = r

\* What the browser maps it has, and what is still to be made it has not.
Made ==
    \A b \in Buffers :
        /\ mapping[b] \in {"pending", "mapped"} => b \in objects
        /\ \A i \in D : At(i, b, CreateOps) => b \notin objects

\* What is mapped at its creation the server believes mapped, or unmaps.
MadeMapped ==
    connected => \A b \in Buffers :
        mapping[b] = "mapped" \/ (\E i \in D : At(i, b, {"createMappedBuffer"})) =>
            map_state[b] = "Mapped" \/ \E j \in D : At(j, b, {"unmap"})

Mapped == PendingTask /\ MapReady /\ UnmappedReady /\ RefusedRests /\ TaskMaps /\ RequestLast
          /\ Made /\ MadeMapped

Inv == Typed /\ Tracked /\ NoneLost /\ Unseen /\ Pins /\ Lives /\ Bufs /\ Texs /\ Mapped

\* The steps that run a command, and what they do to the mapping of a buffer.
Execution == Passes \/ Refuses \/ MakesBuffer \/ FailsBuffer \/ StartsMap \/ MissesMap
             \/ UnmapsBuffer \/ DestroysResource \/ DropsObject \/ StartsTask \/ Acquires

DropOps == {"destroyResource", "destroyObject"}

Remaps(b) ==
    /\ ~At(1, b, CreateOps \cup MapOps \cup DropOps \cup {"unmap"}) => mapping'[b] = mapping[b]
    /\ At(1, b, {"createBuffer"}) => mapping'[b] \in {mapping[b], "unmapped"}
    /\ At(1, b, {"createMappedBuffer"}) => mapping'[b] \in {mapping[b], "mapped"}
    /\ At(1, b, MapOps) =>
          mapping'[b] = IF b \in objects /\ mapping[b] = "unmapped" THEN "pending" ELSE mapping[b]
    /\ At(1, b, {"unmap"}) =>
          \/ b \in objects /\ mapping'[b] = "unmapped"
          \/ mapping'[b] = mapping[b] /\ (b \notin objects \/ mapping[b] \in AtRest)
    /\ At(1, b, DropOps) =>
          mapping'[b] = IF b \in objects THEN "destroyed" ELSE mapping[b]

LEMMA RunsMapping ==
    ASSUME Typed, Execution
    PROVE  /\ Executed /\ ServerKept /\ 1 \in D
           /\ \A b \in Buffers : Remaps(b)
           /\ tasks \subseteq tasks'
           /\ tasks' \subseteq tasks \cup {down[1]}
           /\ down[1].op \in MapOps /\ down[1] \in tasks' => down[1] \in tasks \/ Known(down[1].object)
           /\ up' = up \/ \E a : Replied(a) /\ a.op # "map"
<1>0. mapping \in [Buffers -> MapStates]
  BY DEF Typed, TypeOK, MapStates
<1>1. Executed /\ ServerKept /\ tasks \subseteq tasks' /\ tasks' \subseteq tasks \cup {down[1]}
  BY DEF Execution, Passes, Refuses, MakesBuffer, FailsBuffer, StartsMap, MissesMap, UnmapsBuffer,
         DestroysResource, DropsObject, StartsTask, Acquires, Runs
<1>2. 1 \in D
  BY <1>1, Indices
<1>3. ASSUME NEW b \in Buffers PROVE Remaps(b)
  <2>1. CASE Passes \/ Refuses \/ StartsTask \/ Acquires
    <3>1. down[1].op \notin CreateOps \cup MapOps \cup DropOps \cup {"unmap"}
          /\ mapping' = mapping
      BY <2>1 DEF Passes, Refuses, StartsTask, Acquires, Runs, CreateOps, MapOps, DropOps
    <3> QED BY <3>1 DEF Remaps, At, CreateOps, DropOps
  <2>2. CASE MakesBuffer
    <3>1. down[1].op \in CreateOps /\ down[1].op \notin MapOps \cup DropOps \cup {"unmap"}
          /\ mapping'[b] = IF down[1].object # b THEN mapping[b]
                           ELSE IF down[1].op = "createBuffer" THEN "unmapped" ELSE "mapped"
      BY <1>0, <2>2 DEF MakesBuffer, Runs, CreateOps, MapOps, DropOps
    <3> QED BY <3>1 DEF Remaps, At, CreateOps
  <2>3. CASE FailsBuffer
    <3>1. down[1].op \in CreateOps /\ down[1].op \notin MapOps \cup DropOps \cup {"unmap"}
          /\ mapping' = mapping
      BY <2>3 DEF FailsBuffer, Runs, CreateOps, MapOps, DropOps
    <3> QED BY <3>1 DEF Remaps, At, CreateOps
  <2>4. CASE StartsMap \/ MissesMap
    <3>1. down[1].op \in MapOps /\ down[1].op \notin CreateOps \cup DropOps \cup {"unmap"}
          /\ mapping'[b] = IF down[1].object = b /\ b \in objects /\ mapping[b] = "unmapped"
                           THEN "pending" ELSE mapping[b]
      BY <1>0, <2>4 DEF StartsMap, MissesMap, Known, Runs, CreateOps, MapOps, DropOps
    <3> QED BY <3>1 DEF Remaps, At, CreateOps
  <2>5. CASE UnmapsBuffer
    <3>1. down[1].op = "unmap"
      BY <2>5 DEF UnmapsBuffer, Runs
    <3>2. PICK kept \in {{"destroyed"}, {"destroyed", "taken"}} :
             mapping' = [mapping EXCEPT ![down[1].object] =
                            IF Known(down[1].object) /\ @ \notin kept THEN "unmapped" ELSE @]
      BY <2>5 DEF UnmapsBuffer
    <3>3. mapping'[b] = IF down[1].object = b /\ b \in objects /\ mapping[b] \notin kept
                       THEN "unmapped" ELSE mapping[b]
      BY <1>0, <3>2 DEF Known
    <3> QED BY <3>1, <3>3 DEF Remaps, At, CreateOps, MapOps, DropOps, AtRest
  <2>6. CASE DestroysResource \/ DropsObject
    <3>1. down[1].op \in DropOps /\ down[1].op \notin CreateOps \cup MapOps \cup {"unmap"}
          /\ mapping' = Destroyed(down[1].object)
      BY <2>6 DEF DestroysResource, DropsObject, Runs, DropOps, MapOps, CreateOps
    <3>2. mapping'[b] = IF down[1].object = b /\ b \in objects THEN "destroyed" ELSE mapping[b]
      BY <1>0, <3>1 DEF Destroyed, Known
    <3> QED BY <3>1, <3>2 DEF Remaps, At, CreateOps
  <2> QED BY <2>1, <2>2, <2>3, <2>4, <2>5, <2>6 DEF Execution
<1>4. down[1].op \in MapOps /\ down[1] \in tasks' => down[1] \in tasks \/ Known(down[1].object)
  BY DEF Execution, Passes, Refuses, MakesBuffer, FailsBuffer, StartsMap, MissesMap, UnmapsBuffer,
         DestroysResource, DropsObject, StartsTask, Acquires, Runs, MapOps
<1>5. up' = up \/ \E a : Replied(a) /\ a.op # "map"
  <2>1. Answer("error", 0, FALSE).op # "map"
    BY DEF Answer
  <2> QED BY <2>1 DEF Execution, Passes, Refuses, MakesBuffer, FailsBuffer, StartsMap, MissesMap,
                  UnmapsBuffer, DestroysResource, DropsObject, StartsTask, Acquires
<1> QED BY <1>1, <1>2, <1>3, <1>4, <1>5

(* What holds when a command runs: a buffer that is made was not named     *)
(* before, and a map is the only one of its buffer.                        *)
LEMMA RunsFacts ==
    ASSUME Inv, Executed
    PROVE  /\ \A i \in D' : i + 1 \in D /\ i + 1 > 1 /\ down'[i] = down[i + 1]
           /\ \A i \in D \ {1} : i - 1 \in D' /\ down'[i - 1] = down[i]
           /\ D \subseteq Int /\ D' \subseteq Int /\ 1 \in D
           /\ \A b \in Buffers, k \in D : down[1].object = b /\ k # 1 => ~At(k, b, CreateOps)
           /\ \A b \in Buffers, k \in D : At(1, b, MapOps) /\ k # 1 => ~At(k, b, MapOps)
           /\ \A b \in Buffers : At(1, b, MapOps) => Pinned(b)
           /\ \A b \in Buffers, r \in requests : At(1, b, MapOps) /\ r.object = b => r = down[1]
<1>1. /\ \A i \in D' : i + 1 \in D /\ i + 1 > 1 /\ down'[i] = down[i + 1]
      /\ \A i \in D \ {1} : i - 1 \in D' /\ down'[i - 1] = down[i]
      /\ D \subseteq Int /\ D' \subseteq Int /\ 1 \in D
      /\ \A i \in D : i >= 1
  BY Indices DEF D, Inv
<1>3. ASSUME NEW b \in Buffers, NEW k \in D, down[1].object = b, k # 1, At(k, b, CreateOps)
      PROVE  FALSE
  <2>1. Introduces(down[k], b)
    BY <1>3 DEF At, Introduces, CreateOps
  <2>2. 1 >= k
    BY <1>1, <1>3, <2>1 DEF Inv, Bufs, IntroducedFirst
  <2> QED BY <1>1, <1>3, <2>2
<1>4. ASSUME NEW i \in D, NEW b \in Buffers, At(i, b, MapOps)
      PROVE  down[i] \in requests /\ down[i].req # 0 /\ down[i].object = b
  BY <1>4, Operations DEF Inv, Typed, Shaped, Downs, WellFormed, Tracked, Asking, At
<1>5. NoObject \notin Buffers
  BY ClientExecutorAssumption, AppObjects
<1>6. ASSUME NEW b \in Buffers, NEW r \in requests, At(1, b, MapOps), r.object = b
      PROVE  r = down[1]
  BY <1>1, <1>4, <1>5, <1>6 DEF Inv, Pins
<1>7. ASSUME NEW b \in Buffers, NEW k \in D, At(1, b, MapOps), k # 1, At(k, b, MapOps)
      PROVE  FALSE
  <2>1. down[k] = down[1] /\ down[1].req # 0
    BY <1>1, <1>4, <1>6, <1>7
  <2> QED BY <1>1, <1>7, <2>1 DEF Inv, Tracked, Once
<1>8. ASSUME NEW b \in Buffers, At(1, b, MapOps) PROVE Pinned(b)
  BY <1>1, <1>4, <1>8 DEF Pinned
<1> QED BY <1>1, <1>3, <1>6, <1>7, <1>8

LEMMA ReadyExecuted ==
    ASSUME Inv, Execution, NEW b \in Buffers, NEW n \in Int, n > 1, Ready(b, n),
           ~At(1, b, MapOps)
    PROVE  Ready(b, n - 1)'
<1>1. Executed /\ Remaps(b) /\ 1 \in D
  BY RunsMapping DEF Inv
<1>2. /\ \A i \in D' : i + 1 \in D /\ i + 1 > 1 /\ down'[i] = down[i + 1]
      /\ \A i \in D \ {1} : i - 1 \in D' /\ down'[i - 1] = down[i]
      /\ D \subseteq Int /\ D' \subseteq Int
      /\ \A k \in D : down[1].object = b /\ k # 1 => ~At(k, b, CreateOps)
  BY <1>1, RunsFacts
<1>3. CASE Resting(b)
  <2>1. ~At(1, b, {"createMappedBuffer"}) /\ mapping[b] \in AtRest
    BY <1>1, <1>3 DEF Resting
  <2>2. mapping'[b] \in AtRest
    BY <1>1, <2>1 DEF Remaps, AtRest, At, CreateOps
  <2>3. \A j \in D' : ~At(j, b, {"createMappedBuffer"})'
    BY <1>2, <1>3 DEF Resting, At
  <2> QED BY <2>2, <2>3 DEF Ready, Resting
<1>4. CASE At(1, b, {"unmap", "createBuffer"})
  <2>1. At(1, b, CreateOps) => b \notin objects
    BY <1>1 DEF Inv, Mapped, Made
  <2>2. b \notin objects => mapping[b] \in AtRest
    <3>1. mapping[b] \in MapStates
      BY DEF Inv, Typed, TypeOK, MapStates
    <3>2. b \notin objects => mapping[b] \notin {"pending", "mapped"}
      BY DEF Inv, Mapped, Made
    <3> QED BY <3>1, <3>2 DEF MapStates, AtRest
  <2>3. ASSUME At(1, b, {"unmap"}) PROVE mapping'[b] \in AtRest
    BY <1>1, <2>2, <2>3 DEF Remaps, AtRest
  <2>4. ASSUME At(1, b, {"createBuffer"}) PROVE mapping'[b] \in AtRest
    <3>1. At(1, b, CreateOps)
      BY <2>4 DEF At, CreateOps
    <3> QED BY <1>1, <2>1, <2>2, <2>4, <3>1 DEF Remaps, AtRest
  <2>5. mapping'[b] \in AtRest
    BY <1>4, <2>3, <2>4 DEF At
  <2>6. \A j \in D' : ~At(j, b, {"createMappedBuffer"})'
    BY <1>2, <1>4 DEF At, CreateOps
  <2> QED BY <2>5, <2>6 DEF Ready, Resting
<1>5. ASSUME NEW j \in D, j # 1, j < n, At(j, b, {"unmap", "createBuffer"})
      PROVE  Ready(b, n - 1)'
  <2>1. j - 1 \in D' /\ j - 1 < n - 1 /\ At(j - 1, b, {"unmap", "createBuffer"})'
    BY <1>2, <1>5 DEF At
  <2> QED BY <2>1 DEF Ready
<1> QED BY <1>3, <1>4, <1>5 DEF Ready

LEMMA ReadySent ==
    ASSUME Typed, NEW c, Sent(c), UNCHANGED mapping, NEW b \in Buffers, NEW n \in Int,
           Ready(b, n), ~(c.op = "createMappedBuffer" /\ c.object = b)
    PROVE  Ready(b, n)'
<1>0. /\ D' = D \cup {Len(down) + 1} /\ down'[Len(down) + 1] = c
      /\ \A i \in D : down'[i] = down[i]
  BY SentAt
<1>1. CASE Resting(b)
  BY <1>0, <1>1 DEF Ready, Resting, At
<1>2. CASE ~Resting(b)
  BY <1>0, <1>2 DEF Ready, At
<1> QED BY <1>1, <1>2

LEMMA ReadyLater ==
    ASSUME Typed, NEW b \in Buffers, NEW n \in Int, NEW m \in Int, n <= m, Ready(b, n)
    PROVE  Ready(b, m)
BY DEF Ready, D

LEMMA MapTask ==
    ASSUME Inv, NEW t \in tasks
    PROVE  /\ t.object \in Buffers <=> t.op \in MapOps
           /\ t \in requests
           /\ t.object \in Buffers => t.object # NoObject
<1>1. WellFormed(t, calls.requests) /\ t.op \in AskOps
  BY DEF Inv, Typed, Shaped, Tasks
<1>2. t.op \in MapOps => t.op \in BufferOps
  BY DEF MapOps, BufferOps
<1>3. t.op \notin MapOps => t.object \in Textures \cup {NoObject}
  BY <1>1 DEF WellFormed, AskOps, MapOps, QuestionOps
<1>4. NoObject \notin Buffers /\ Buffers \cap Textures = {}
  BY ClientExecutorAssumption, AppObjects
<1>5. t \in requests
  BY TaskPinned DEF Inv
<1> QED BY <1>1, <1>2, <1>3, <1>4, <1>5 DEF WellFormed

(* A step is a call of the application, the running of a command, the end  *)
(* of a task, an answer that arrives or something about no buffer.         *)
Small ==
    /\ UNCHANGED <<down, mapping, connected, map_state, requests, issued>>
    /\ owned' \subseteq owned
    /\ tasks' = tasks \/ \E t \in tasks : t.op \notin MapOps /\ tasks' = tasks \ {t}
    /\ \A b \in Buffers : b \in objects' <=> b \in objects
    /\ up' = up \/ \E a : Replied(a) /\ a.op # "map"

Kinds ==
    \/ \E c \in Commands : Tells(c) \/ Makes(c) \/ Maps(c) \/ Loads(c) \/ Inquires(c)
                           \/ Unmaps(c) \/ GivesUp(c)
    \/ Execution
    \/ \E t \in tasks, ok \in BOOLEAN : EndsMap(t, ok)
    \/ \E r \in requests : Takes(r)
    \/ Notices
    \/ Breaks
    \/ Small

LEMMA StepKinds ==
    ASSUME Inv, Step
    PROVE  Kinds
<1>1. ASSUME (\E id \in Objects : LetsGo(id)) \/ Idle PROVE Small
  BY <1>1 DEF Small, LetsGo, Idle
<1>2. ASSUME ShowsFrame \/ ReportsLoss PROVE Small
  BY <1>2 DEF Small, ShowsFrame, ReportsLoss, ServerKept, Answer
<1>3. ASSUME NEW t \in tasks, NEW a, Ends(t, a), a.op # "map", t.op \notin MapOps,
             UNCHANGED mapping, \A b \in Buffers : b \in objects' <=> b \in objects
      PROVE  Small
  BY <1>3 DEF Small, Ends, ServerKept
<1>4. ASSUME NEW t \in tasks, EndsAsk(t) \/ LosesAsk(t) PROVE Small
  <2>1. CASE EndsAsk(t)
    BY <1>3, <2>1 DEF EndsAsk, Answer, MapOps, QuestionOps
  <2>2. CASE LosesAsk(t)
    BY <2>2 DEF Small, LosesAsk, ServerKept, MapOps
  <2> QED BY <1>4, <2>1, <2>2
<1>5. ASSUME NEW t \in tasks, NEW ok \in BOOLEAN, EndsLoad(t, ok) PROVE Small
  <2>1. t.op = "loadTexture" /\ t.op \notin MapOps /\ Answer("load", t.req, ok).op # "map"
    BY <1>5 DEF EndsLoad, MapOps, Answer
  <2>2. t.object \notin Buffers
    BY <2>1, MapTask
  <2>3. \A b \in Buffers : b \in objects' <=> b \in objects
    BY <1>5, <2>2 DEF EndsLoad
  <2> QED BY <1>3, <1>5, <2>1, <2>3 DEF EndsLoad
<1> QED BY <1>1, <1>2, <1>4, <1>5 DEF Step, AppStep, ClientStep, ReceiveStep, Kinds, Execution

LEMMA AppMapping ==
    ASSUME NEW c, Tells(c) \/ Makes(c) \/ Maps(c) \/ Loads(c) \/ Inquires(c)
                  \/ Unmaps(c) \/ GivesUp(c)
    PROVE  Issued(c) /\ UNCHANGED <<mapping, tasks, up, connected, objects>> /\ connected
           /\ Sent(c) /\ WellFormed(c, calls'.requests)
BY DEF Tells, Makes, Maps, Loads, Inquires, Asks, Unmaps, GivesUp, Issued

LEMMA EndsMapView ==
    ASSUME Inv, NEW t \in tasks, NEW ok \in BOOLEAN, EndsMap(t, ok)
    PROVE  /\ t \in requests /\ t.object \in Buffers /\ tasks' = tasks \ {t}
           /\ UNCHANGED <<down, connected, owned, map_state, requests, issued, objects>>
           /\ mapping'[t.object] \in AtRest
           /\ \A b \in Buffers : mapping[b] # "pending" => mapping'[b] = mapping[b]
           /\ \A b \in Buffers : b # t.object => mapping'[b] = mapping[b]
           /\ up' = up \/ Replied(Answer("map", t.req, ok))
<1>1. mapping \in [Buffers -> MapStates]
  BY DEF Inv, Typed, TypeOK, MapStates
<1>2. t \in requests /\ t.object \in Buffers /\ t.op \in MapOps
  BY MapTask DEF EndsMap
<1>3. PICK state \in {"unmapped", "taken"} :
         mapping' = [mapping EXCEPT ![t.object] = IF @ = "pending" THEN state ELSE @]
  BY DEF EndsMap
<1>4. mapping[t.object] \in {"pending", "taken", "destroyed"}
  BY <1>2 DEF Inv, Mapped, TaskMaps
<1>5. /\ tasks' = tasks \ {t}
      /\ UNCHANGED <<down, connected, owned, map_state, requests, issued, objects>>
      /\ up' = up \/ Replied(Answer("map", t.req, ok))
  BY DEF EndsMap, Ends, ServerKept
<1> QED BY <1>1, <1>2, <1>3, <1>4, <1>5 DEF AtRest

LEMMA PendingTaskStep ==
    ASSUME Inv, Step
    PROVE  PendingTask'
<1>0. Kinds
  BY StepKinds
<1>1. ASSUME NEW c, Tells(c) \/ Makes(c) \/ Maps(c) \/ Loads(c) \/ Inquires(c)
                    \/ Unmaps(c) \/ GivesUp(c)
      PROVE  PendingTask'
  BY <1>1, AppMapping DEF Inv, Mapped, PendingTask
<1>2. ASSUME Execution PROVE PendingTask'
  <2>1. /\ tasks \subseteq tasks' /\ ServerKept /\ \A b \in Buffers : Remaps(b)
    BY <1>2, RunsMapping DEF Inv
  <2>2. ASSUME NEW b \in Buffers, mapping'[b] = "pending", mapping[b] # "pending"
        PROVE  \E t \in tasks' : t.object = b
    <3>1. At(1, b, MapOps) /\ b \in objects
      <4>1. Remaps(b)
        BY <2>1
      <4> QED BY <2>2, <4>1 DEF Remaps, At, MapOps, CreateOps, DropOps
    <3>2. StartsMap
      BY <1>2, <3>1 DEF Execution, Passes, Refuses, MakesBuffer, FailsBuffer, MissesMap, Known,
                        UnmapsBuffer, DestroysResource, DropsObject, StartsTask, Acquires, Runs,
                        At, MapOps, CreateOps
    <3>3. down[1] \in tasks' /\ down[1].object = b
      BY <3>1, <3>2 DEF StartsMap, At
    <3> QED BY <3>3
  <2> QED BY <2>1, <2>2 DEF Inv, Mapped, PendingTask, ServerKept
<1>3. ASSUME NEW t \in tasks, NEW ok \in BOOLEAN, EndsMap(t, ok) PROVE PendingTask'
  <2>1. /\ tasks' = tasks \ {t} /\ UNCHANGED connected
        /\ mapping'[t.object] # "pending"
        /\ \A b \in Buffers : b # t.object => mapping'[b] = mapping[b]
    BY <1>3, EndsMapView DEF AtRest
  <2> QED BY <2>1 DEF Inv, Mapped, PendingTask
<1>4. ASSUME (\E r \in requests : Takes(r)) \/ Notices PROVE PendingTask'
  BY <1>4 DEF Takes, Notices, Inv, Mapped, PendingTask
<1>5. ASSUME Breaks PROVE PendingTask'
  BY <1>5 DEF Breaks, PendingTask
<1>6. ASSUME Small PROVE PendingTask'
  <2>1. UNCHANGED <<mapping, connected>>
    BY <1>6 DEF Small
  <2>2. \A t \in tasks : t.object \in Buffers => t \in tasks'
    BY <1>6, MapTask DEF Small
  <2> QED BY <2>1, <2>2 DEF Inv, Mapped, PendingTask
<1> QED BY <1>0, <1>1, <1>2, <1>3, <1>4, <1>5, <1>6 DEF Kinds

LEMMA ReadySame ==
    ASSUME UNCHANGED <<down, mapping>>
    PROVE  \A b, n : Ready(b, n)' <=> Ready(b, n)
BY DEF Ready, Resting, At, D

LEMMA ReadyEndsMap ==
    ASSUME Inv, NEW t \in tasks, NEW ok \in BOOLEAN, EndsMap(t, ok), NEW b \in Buffers,
           NEW n \in Int, Ready(b, n)
    PROVE  Ready(b, n)'
<1>1. D' = D /\ down' = down /\ (mapping[b] # "pending" => mapping'[b] = mapping[b])
  BY EndsMapView DEF D
<1> QED BY <1>1 DEF Ready, Resting, At, AtRest

LEMMA MapReadyStep ==
    ASSUME Inv, Step
    PROVE  MapReady'
<1>0. Kinds
  BY StepKinds
<1>a. Typed
  BY DEF Inv
<1>1. ASSUME NEW c, Tells(c) \/ Makes(c) \/ Maps(c) \/ Loads(c) \/ Inquires(c)
                    \/ Unmaps(c) \/ GivesUp(c)
      PROVE  MapReady'
  <2>1. Sent(c) /\ UNCHANGED mapping /\ connected
    BY <1>1, AppMapping
  <2>2. /\ D' = D \cup {Len(down) + 1} /\ down'[Len(down) + 1] = c
        /\ \A i \in D : down'[i] = down[i] /\ i < Len(down) + 1
        /\ D \subseteq Int /\ Len(down) + 1 \in Int
    BY <1>a, <2>1, SentAt
  <2>3. ASSUME NEW b \in Buffers, NEW i \in D', At(i, b, MapOps)' PROVE Ready(b, i)'
    <3>1. CASE i \in D
      <4>1. At(i, b, MapOps) /\ i \in Int
        BY <2>2, <2>3, <3>1 DEF At
      <4>2. Ready(b, i)
        BY <3>1, <4>1 DEF Inv, Mapped, MapReady
      <4>3. ~(c.op = "createMappedBuffer" /\ c.object = b)
        <5>1. ASSUME c.op = "createMappedBuffer" PROVE c.object \in Objects \ issued
          BY <1>1, <5>1 DEF Tells, Makes, Maps, Loads, Inquires, Unmaps, GivesUp, Drops, MapOps,
                            QuestionOps
        <5>2. down[i].object = b /\ b \in Objects
          BY <4>1, AppObjects DEF At
        <5> QED BY <3>1, <5>1, <5>2 DEF Inv, Lives, Unissued
      <4> QED BY <1>a, <2>1, <4>1, <4>2, <4>3, ReadySent
    <3>2. CASE i = Len(down) + 1
      <4>1. c.op \in MapOps /\ c.object = b
        BY <2>2, <2>3, <3>2 DEF At
      <4>2. Maps(c)
        BY <1>1, <4>1 DEF Tells, Makes, Loads, Inquires, Unmaps, GivesUp, Drops, MapOps, QuestionOps
      <4>3. b \in owned /\ map_state[b] = "Unmapped"
        BY <4>1, <4>2 DEF Maps
      <4>4. Ready(b, i) /\ i \in Int
        BY <2>1, <2>2, <3>2, <4>3 DEF Inv, Mapped, UnmappedReady
      <4>5. c.op # "createMappedBuffer"
        BY <4>1 DEF MapOps
      <4> QED BY <1>a, <2>1, <4>4, <4>5, ReadySent
    <3> QED BY <2>2, <3>1, <3>2
  <2> QED BY <2>3 DEF MapReady
<1>2. ASSUME Execution PROVE MapReady'
  <2>1. Executed
    BY <1>2, <1>a, RunsMapping
  <2>2. /\ \A i \in D' : i + 1 \in D /\ i + 1 > 1 /\ down'[i] = down[i + 1]
        /\ D' \subseteq Int
        /\ \A b \in Buffers, k \in D : At(1, b, MapOps) /\ k # 1 => ~At(k, b, MapOps)
    BY <2>1, RunsFacts
  <2>3. ASSUME NEW b \in Buffers, NEW i \in D', At(i, b, MapOps)' PROVE Ready(b, i)'
    <3>1. At(i + 1, b, MapOps) /\ i \in Int /\ i + 1 \in Int /\ i + 1 > 1 /\ i + 1 # 1 /\ i + 1 \in D
      BY <2>2, <2>3 DEF At
    <3>2. Ready(b, i + 1) /\ ~At(1, b, MapOps)
      BY <2>2, <3>1 DEF Inv, Mapped, MapReady
    <3>3. Ready(b, (i + 1) - 1)'
      BY <1>2, <3>1, <3>2, ReadyExecuted
    <3>4. (i + 1) - 1 = i
      BY <3>1
    <3> QED BY <3>3, <3>4
  <2> QED BY <2>3 DEF MapReady
<1>3. ASSUME NEW t \in tasks, NEW ok \in BOOLEAN, EndsMap(t, ok) PROVE MapReady'
  <2>1. D' = D /\ down' = down /\ D \subseteq Int
    BY <1>3, EndsMapView DEF D
  <2> QED BY <1>3, <2>1, ReadyEndsMap DEF Inv, Mapped, MapReady, At
<1>4. ASSUME NEW r \in requests, Takes(r) PROVE MapReady'
  <2> DEFINE c == Cmd("destroyObject", r.object, 0)
  <2>1. UNCHANGED mapping /\ (down' = down \/ Sent(c)) /\ c.op = "destroyObject"
    BY <1>4 DEF Takes, Cmd
  <2> HIDE DEF c
  <2>2. CASE down' = down
    <3>1. D' = D
      BY <2>2 DEF D
    <3> QED BY <2>1, <2>2, <3>1, ReadySame DEF Inv, Mapped, MapReady, At
  <2>3. CASE Sent(c)
    <3>1. /\ D' = D \cup {Len(down) + 1} /\ down'[Len(down) + 1] = c
          /\ \A i \in D : down'[i] = down[i]
          /\ D \subseteq Int /\ c.op \notin MapOps
      BY <1>a, <2>1, <2>3, SentAt DEF MapOps
    <3>2. ASSUME NEW b \in Buffers, NEW i \in D', At(i, b, MapOps)' PROVE Ready(b, i)'
      <4>1. i \in D /\ At(i, b, MapOps) /\ i \in Int
        BY <3>1, <3>2 DEF At
      <4>2. Ready(b, i)
        BY <4>1 DEF Inv, Mapped, MapReady
      <4> QED BY <1>a, <2>1, <2>3, <4>1, <4>2, ReadySent
    <3> QED BY <3>2 DEF MapReady
  <2> QED BY <2>1, <2>2, <2>3
<1>5. ASSUME Notices \/ Small PROVE MapReady'
  <2>1. UNCHANGED <<down, mapping>> /\ D' = D
    BY <1>5 DEF Notices, Small, D
  <2> QED BY <2>1, ReadySame DEF Inv, Mapped, MapReady, At
<1>6. ASSUME Breaks PROVE MapReady'
  BY <1>6 DEF Breaks, D, MapReady
<1> QED BY <1>0, <1>1, <1>2, <1>3, <1>4, <1>5, <1>6 DEF Kinds

LEMMA UnmappedReadyStep ==
    ASSUME Inv, Step
    PROVE  UnmappedReady'
<1>0. Kinds
  BY StepKinds
<1>a. Typed /\ Len(down) \in Nat
  BY Lengths DEF Inv, Typed
<1> PICK n \in Nat : n = Len(down)
  BY <1>a
<1>b. map_state \in [Buffers -> {"Unmapped", "Pending", "Mapped"}]
      /\ Buffers \subseteq Objects /\ NoObject \notin Objects
  BY AppObjects, ClientExecutorAssumption DEF Inv, Typed, TypeOK
<1>c. ASSUME NEW b \in Buffers, connected, b \in owned, map_state[b] = "Unmapped"
      PROVE  Ready(b, n + 1)
  BY <1>c DEF Inv, Mapped, UnmappedReady
<1>d. ASSUME NEW b \in Buffers, NEW c, Sent(c), UNCHANGED mapping, connected, b \in owned,
             map_state[b] = "Unmapped", ~(c.op = "createMappedBuffer" /\ c.object = b)
      PROVE  Ready(b, n + 2)'
  <2>1. Ready(b, n + 2)
    BY <1>a, <1>c, <1>d, ReadyLater
  <2> QED BY <1>a, <1>d, <2>1, ReadySent
<1>e. ASSUME NEW b \in Buffers, NEW c, Sent(c), c.object = b, c.op \in {"unmap", "createBuffer"}
      PROVE  Ready(b, n + 2)'
  <2>1. /\ D' = D \cup {n + 1} /\ down'[n + 1] = c /\ n + 1 \in Int
    BY <1>a, <1>e, SentAt
  <2> QED BY <1>e, <2>1 DEF Ready, At
<1>f. \A c : Sent(c) => Len(down') = n + 1
  BY DEF Sent
<1>1. ASSUME NEW c, Tells(c) \/ Makes(c) \/ Maps(c) \/ Loads(c) \/ Inquires(c)
                    \/ Unmaps(c) \/ GivesUp(c)
      PROVE  UnmappedReady'
  <2>1. Sent(c) /\ UNCHANGED <<mapping, connected>> /\ connected /\ Len(down') = n + 1
    BY <1>1, <1>f, AppMapping
  <2>2. ASSUME NEW b \in Buffers, b \in owned', map_state'[b] = "Unmapped"
        PROVE  Ready(b, n + 2)'
    <3>1. CASE c.object = b /\ c.op \in {"unmap", "createBuffer"}
      BY <1>e, <2>1, <3>1
    <3>2. CASE ~(c.object = b /\ c.op \in {"unmap", "createBuffer"})
      <4>1. b \in owned /\ map_state[b] = "Unmapped"
            /\ ~(c.op = "createMappedBuffer" /\ c.object = b)
        <5>1. CASE Tells(c) \/ GivesUp(c)
          BY <2>2, <5>1 DEF Tells, GivesUp, Drops
        <5>2. CASE Makes(c)
          <6>1. b \notin Frames
            BY ClientExecutorAssumption
          <6>2. c.op = "acquire" => c.object \in Frames
            BY <5>2 DEF Makes, Issued, WellFormed
          <6>3. c.object = b => c.op = "createMappedBuffer"
            BY <3>2, <5>2, <6>1, <6>2 DEF Makes
          <6>4. c.object # b
            BY <1>b, <2>2, <5>2, <6>3 DEF Makes
          <6> QED BY <1>b, <2>2, <5>2, <6>4 DEF Makes
        <5>3. CASE Maps(c)
          BY <1>b, <2>2, <5>3 DEF Maps, Asks, MapOps
        <5>4. CASE Loads(c) \/ Inquires(c)
          BY <2>2, <5>4 DEF Loads, Inquires, Asks, QuestionOps
        <5>5. CASE Unmaps(c)
          BY <1>b, <2>2, <3>2, <5>5 DEF Unmaps
        <5> QED BY <1>1, <5>1, <5>2, <5>3, <5>4, <5>5
      <4> QED BY <1>d, <2>1, <4>1
    <3> QED BY <3>1, <3>2
  <2> QED BY <2>1, <2>2 DEF UnmappedReady
<1>2. ASSUME Execution PROVE UnmappedReady'
  <2>1. Executed /\ ServerKept
    BY <1>2, <1>a, RunsMapping
  <2>3. Len(down') + 1 = n
    BY <1>a, <2>1 DEF Executed
  <2>2. ASSUME NEW b \in Buffers, connected, b \in owned, map_state[b] = "Unmapped"
        PROVE  Ready(b, n)'
    <3>1. ~At(1, b, MapOps)
      <4>1. ~Pinned(b)
        BY <2>2 DEF Inv, Pins
      <4> QED BY <2>1, <4>1, RunsFacts
    <3>2. Ready(b, n + 1)
      BY <1>c, <2>2
    <3>3. n + 1 \in Int /\ n + 1 > 1 /\ (n + 1) - 1 = n /\ Len(down') + 1 = n
      BY <1>a, <2>1 DEF Executed
    <3>4. Ready(b, (n + 1) - 1)'
      BY <1>2, <3>1, <3>2, <3>3, ReadyExecuted
    <3> QED BY <3>3, <3>4
  <2> QED BY <2>1, <2>2, <2>3 DEF UnmappedReady, ServerKept
<1>3. ASSUME NEW t \in tasks, NEW ok \in BOOLEAN, EndsMap(t, ok) PROVE UnmappedReady'
  <2>1. UNCHANGED <<down, connected, owned, map_state>> /\ n + 1 \in Int
    BY <1>3, <1>a, EndsMapView
  <2> QED BY <1>3, <1>c, <2>1, ReadyEndsMap DEF UnmappedReady
<1>4. ASSUME NEW r \in requests, Takes(r) PROVE UnmappedReady'
  <2> DEFINE c == Cmd("destroyObject", r.object, 0)
  <2>1. /\ UNCHANGED <<mapping, connected>> /\ (down' = down \/ Sent(c)) /\ connected
        /\ c.op = "destroyObject"
        /\ Heard /\ r.req = up[1].req /\ up[1].req # 0 /\ up[1].op = Kind(r.op)
        /\ owned' = IF up[1].op = "load" /\ up[1].ok THEN owned \cup {r.object} ELSE owned
        /\ map_state' = IF up[1].op = "map"
                        THEN [map_state EXCEPT ![r.object] =
                                 IF up[1].ok THEN "Mapped" ELSE "Unmapped"]
                        ELSE map_state
    BY <1>4 DEF Takes, Cmd
  <2> HIDE DEF c
  <2>2. 1 \in U
    BY <1>a, <2>1, Indices
  <2>3. WellFormed(r, calls.requests) /\ r.op \in AskOps
    BY DEF Inv, Typed, Shaped, Pending
  <2>4. up[1].op = "load" => r.object \notin Buffers
    <3>1. up[1].op = "load" => r.op = "loadTexture"
      BY <2>1, <2>3, KindView
    <3>2. Buffers \cap Textures = {}
      BY ClientExecutorAssumption
    <3> QED BY <2>3, <3>1, <3>2 DEF WellFormed
  <2>5. ASSUME NEW b \in Buffers, b \in owned', map_state'[b] = "Unmapped"
        PROVE  Ready(b, n + 1)
    <3>1. b \in owned
      BY <2>1, <2>4, <2>5
    <3>2. CASE map_state[b] = "Unmapped"
      BY <1>c, <2>1, <3>1, <3>2
    <3>3. CASE map_state[b] # "Unmapped"
      <4>1. r.object = b /\ up[1].op = "map" /\ ~up[1].ok
        BY <1>b, <2>1, <2>5, <3>3
      <4>2. mapping[b] \in AtRest
        BY <2>1, <2>2, <4>1 DEF Inv, Mapped, RefusedRests
      <4>3. \A j \in D : ~At(j, b, {"createMappedBuffer"})
        <5>1. ASSUME NEW j \in D, At(j, b, {"createMappedBuffer"}) PROVE FALSE
          <6>1. PICK i \in D : down[i] = r
            BY <4>1, <5>1 DEF Inv, Mapped, RequestLast, At
          <6> QED BY <2>1, <2>2, <6>1 DEF Inv, Tracked, Apart
        <5> QED BY <5>1
      <4> QED BY <4>2, <4>3 DEF Ready, Resting
    <3> QED BY <3>2, <3>3
  <2>6. CASE down' = down
    BY <2>1, <2>5, <2>6, ReadySame DEF UnmappedReady
  <2>7. CASE Sent(c)
    <3>1. ASSUME NEW b \in Buffers, Ready(b, n + 1)
          PROVE  Ready(b, n + 2)'
      <4>1. Ready(b, n + 2)
        BY <1>a, <3>1, ReadyLater
      <4> QED BY <1>a, <2>1, <2>7, <4>1, ReadySent
    <3> QED BY <1>f, <2>5, <2>7, <3>1 DEF UnmappedReady
  <2> QED BY <2>1, <2>6, <2>7
<1>5. ASSUME Notices \/ Small PROVE UnmappedReady'
  <2>1. UNCHANGED <<down, mapping, connected, map_state>> /\ owned' \subseteq owned
    BY <1>5 DEF Notices, Small
  <2> QED BY <1>c, <2>1, ReadySame DEF UnmappedReady
<1>6. ASSUME Breaks PROVE UnmappedReady'
  BY <1>6 DEF Breaks, UnmappedReady
<1> QED BY <1>0, <1>1, <1>2, <1>3, <1>4, <1>5, <1>6 DEF Kinds

(* A command that runs while an answer is on its way is not about the      *)
(* buffer of the request that is answered.                                 *)
LEMMA AnsweredAlone ==
    ASSUME Inv, NEW r \in requests, NEW j \in D,
           (\E i \in U : up[i].req = r.req) \/ r \in tasks
    PROVE  ~At(j, r.object, {"createBuffer", "createMappedBuffer", "unmap"}) /\ down[j] # r
<1>1. r.req # 0
  BY DEF Inv, Typed, Shaped, Pending, WellFormed
<1>2. \A i \in D : down[i] # r
  BY <1>1 DEF Inv, Tracked, Apart
<1> QED BY <1>2 DEF Inv, Mapped, RequestLast

LEMMA RefusedRestsStep ==
    ASSUME Inv, Step
    PROVE  RefusedRests'
<1>0. Kinds
  BY StepKinds
<1>a. ASSUME NEW i \in U, NEW r \in requests, up[i].op = "map", r.req = up[i].req
      PROVE  r.object \in Buffers /\ r.req # 0
  <2>1. Kind(r.op) = "map" /\ r.req # 0
    BY <1>a DEF Inv, Tracked, Numbered, Typed, Shaped, Ups, AnswerOps
  <2>2. r.op \in MapOps
    BY <2>1, KindView DEF Inv, Typed, Shaped, Pending
  <2>3. r.op \in BufferOps
    BY <2>2 DEF MapOps, BufferOps
  <2> QED BY <2>1, <2>3 DEF Inv, Typed, Shaped, Pending, WellFormed
<1>b. ASSUME UNCHANGED mapping, requests' \subseteq requests,
             \A i \in U' : up'[i].op # "map" \/ \E k \in U : up'[i] = up[k]
      PROVE  RefusedRests'
  BY <1>b DEF Inv, Mapped, RefusedRests
<1>1. ASSUME NEW c, Tells(c) \/ Makes(c) \/ Maps(c) \/ Loads(c) \/ Inquires(c)
                    \/ Unmaps(c) \/ GivesUp(c)
      PROVE  RefusedRests'
  <2>1. UNCHANGED <<mapping, up>> /\ U' = U
    BY <1>1, AppMapping DEF U
  <2>2. requests' = requests
        \/ (requests' = requests \cup {c} /\ c.req = calls.requests + 1)
    <3>1. CASE Maps(c) \/ Loads(c) \/ Inquires(c)
      BY <3>1 DEF Maps, Loads, Inquires, Asks
    <3>2. CASE Tells(c) \/ Makes(c) \/ Unmaps(c) \/ GivesUp(c)
      BY <3>2 DEF Tells, Makes, Unmaps, GivesUp
    <3> QED BY <1>1, <3>1, <3>2
  <2>3. \A i \in U : up[i].op = "map" => up[i].req # calls.requests + 1
    <3>1. \A r \in requests : r.req # calls.requests + 1
      BY SessionAssumption DEF Inv, Typed, Shaped, Pending, WellFormed, CallsType
    <3> QED BY <3>1 DEF Inv, Tracked, Numbered, Typed, Shaped, Ups, AnswerOps
  <2> QED BY <2>1, <2>2, <2>3 DEF Inv, Mapped, RefusedRests
<1>2. ASSUME Execution PROVE RefusedRests'
  <2>1. /\ 1 \in D /\ UNCHANGED requests /\ Executed
        /\ \A b \in Buffers : Remaps(b)
    BY <1>2, RunsMapping DEF Inv, ServerKept
  <2>2. up' = up \/ \E a : Replied(a) /\ a.op # "map"
    BY <1>2, RunsMapping DEF Inv
  <2>3. \A i \in U' : up'[i].op # "map" \/ (i \in U /\ up'[i] = up[i])
    BY <2>2, Indices DEF Replied, U, Inv
  <2>4. ASSUME NEW i \in U, NEW r \in requests, up[i].op = "map", ~up[i].ok, r.req = up[i].req
        PROVE  mapping'[r.object] \in AtRest
    <3>1. mapping[r.object] \in AtRest /\ r.object \in Buffers
      BY <1>a, <2>4 DEF Inv, Mapped, RefusedRests
    <3>2. ~At(1, r.object, {"createBuffer", "createMappedBuffer", "unmap"}) /\ down[1] # r
      BY <2>1, <2>4, AnsweredAlone
    <3>3. ~At(1, r.object, MapOps)
      BY <2>1, <3>1, <3>2, RunsFacts
    <3>4. Remaps(r.object)
      BY <2>1, <3>1
    <3> QED BY <3>1, <3>2, <3>3, <3>4 DEF Remaps, At, AtRest, CreateOps
  <2> QED BY <2>1, <2>3, <2>4 DEF RefusedRests
<1>3. ASSUME NEW t \in tasks, NEW ok \in BOOLEAN, EndsMap(t, ok) PROVE RefusedRests'
  <2> DEFINE a == Answer("map", t.req, ok)
  <2>1. /\ t \in requests /\ t.object \in Buffers /\ UNCHANGED requests
        /\ mapping'[t.object] \in AtRest
        /\ \A b \in Buffers : b # t.object => mapping'[b] = mapping[b]
        /\ up' = up \/ Replied(a)
    BY <1>3, EndsMapView
  <2>2. a.req = t.req /\ a.ok = ok /\ t.req # 0
    BY <2>1 DEF Answer, Inv, Typed, Shaped, Pending, WellFormed
  <2> HIDE DEF a
  <2>3. \A i \in U' : (Replied(a) /\ up'[i] = a) \/ (i \in U /\ up'[i] = up[i])
    BY <2>1, Indices DEF Replied, U, Inv
  <2>4. \A r \in requests : r.req = a.req => r = t
    BY <2>1, <2>2 DEF Inv, Tracked, Numbered
  <2>5. ASSUME NEW i \in U, NEW r \in requests, up[i].op = "map", ~up[i].ok, r.req = up[i].req
        PROVE  mapping'[r.object] \in AtRest
    <3>1. mapping[r.object] \in AtRest /\ r.object \in Buffers /\ r.req # 0
      BY <1>a, <2>5 DEF Inv, Mapped, RefusedRests
    <3>2. r # t
      BY <2>5, <3>1 DEF Inv, Tracked, Apart
    <3>3. r.object # t.object
      BY <2>1, <3>1, <3>2, ClientExecutorAssumption, AppObjects DEF Inv, Pins
    <3> QED BY <2>1, <3>1, <3>3
  <2> QED BY <2>1, <2>2, <2>3, <2>4, <2>5 DEF RefusedRests
<1>4. ASSUME (\E r \in requests : Takes(r)) \/ Notices PROVE RefusedRests'
  <2>1. UNCHANGED mapping /\ requests' \subseteq requests /\ Heard
    BY <1>4 DEF Takes, Notices
  <2>2. \A i \in U' : \E k \in U : up'[i] = up[k]
    BY <2>1, Indices DEF Inv
  <2> QED BY <1>b, <2>1, <2>2
<1>5. ASSUME Small PROVE RefusedRests'
  <2>1. UNCHANGED mapping /\ requests' = requests
    BY <1>5 DEF Small
  <2>2. \A i \in U' : up'[i].op # "map" \/ (i \in U /\ up'[i] = up[i])
    BY <1>5, Indices DEF Replied, U, Inv, Small
  <2> QED BY <1>b, <2>1, <2>2
<1>6. ASSUME Breaks PROVE RefusedRests'
  BY <1>6 DEF Breaks, RefusedRests, U
<1> QED BY <1>0, <1>1, <1>2, <1>3, <1>4, <1>5, <1>6 DEF Kinds

LEMMA TaskMapsStep ==
    ASSUME Inv, Step
    PROVE  TaskMaps'
<1>0. Kinds
  BY StepKinds
<1>1. ASSUME NEW c, Tells(c) \/ Makes(c) \/ Maps(c) \/ Loads(c) \/ Inquires(c)
                    \/ Unmaps(c) \/ GivesUp(c)
      PROVE  TaskMaps'
  BY <1>1, AppMapping DEF Inv, Mapped, TaskMaps
<1>2. ASSUME Execution PROVE TaskMaps'
  <2>1. /\ 1 \in D /\ Executed
        /\ \A b \in Buffers : Remaps(b)
        /\ tasks' \subseteq tasks \cup {down[1]}
        /\ down[1].op \in MapOps /\ down[1] \in tasks' => down[1] \in tasks \/ Known(down[1].object)
    BY <1>2, RunsMapping DEF Inv
  <2>3. ASSUME NEW t \in tasks, t.op \in MapOps
        PROVE  mapping'[t.object] \in {"pending", "taken", "destroyed"}
    <3>1. mapping[t.object] \in {"pending", "taken", "destroyed"} /\ t.object \in Buffers
          /\ t \in requests
      BY <2>3, MapTask DEF Inv, Mapped, TaskMaps
    <3>2. ~At(1, t.object, {"createBuffer", "createMappedBuffer", "unmap"})
      BY <2>1, <3>1, AnsweredAlone
    <3>3. Remaps(t.object)
      BY <2>1, <3>1
    <3> QED BY <3>1, <3>2, <3>3 DEF Remaps, At, CreateOps
  <2>4. ASSUME down[1].op \in MapOps, Known(down[1].object)
        PROVE  mapping'[down[1].object] \in {"pending", "taken", "destroyed"}
    <3>1. down[1].object \in Buffers
      BY <2>1, <2>4 DEF Inv, Typed, Shaped, Downs, WellFormed, MapOps, BufferOps
    <3>2. At(1, down[1].object, MapOps)
      BY <2>4 DEF At
    <3>3. Ready(down[1].object, 1)
      BY <2>1, <3>1, <3>2 DEF Inv, Mapped, MapReady
    <3>4. mapping[down[1].object] \in AtRest
      BY <3>3 DEF Ready, Resting, D
    <3>5. Remaps(down[1].object)
      BY <2>1, <3>1
    <3> QED BY <2>4, <3>2, <3>4, <3>5 DEF Remaps, Known, AtRest
  <2> QED BY <2>1, <2>3, <2>4 DEF TaskMaps
<1>3. ASSUME NEW t \in tasks, NEW ok \in BOOLEAN, EndsMap(t, ok) PROVE TaskMaps'
  <2>1. /\ t \in requests /\ t.object \in Buffers /\ tasks' = tasks \ {t}
        /\ \A b \in Buffers : b # t.object => mapping'[b] = mapping[b]
    BY <1>3, EndsMapView
  <2>2. ASSUME NEW s \in tasks', s.op \in MapOps
        PROVE  mapping'[s.object] \in {"pending", "taken", "destroyed"}
    <3>1. mapping[s.object] \in {"pending", "taken", "destroyed"} /\ s.object \in Buffers
          /\ s \in requests /\ s # t /\ s.object # NoObject
      BY <2>1, <2>2, MapTask DEF Inv, Mapped, TaskMaps, MapOps
    <3>2. s.object # t.object
      BY <2>1, <3>1 DEF Inv, Pins
    <3> QED BY <2>1, <3>1, <3>2
  <2> QED BY <2>2 DEF TaskMaps
<1>4. ASSUME (\E r \in requests : Takes(r)) \/ Notices PROVE TaskMaps'
  BY <1>4 DEF Takes, Notices, Inv, Mapped, TaskMaps
<1>5. ASSUME Small PROVE TaskMaps'
  BY <1>5 DEF Small, Inv, Mapped, TaskMaps
<1>6. ASSUME Breaks PROVE TaskMaps'
  BY <1>6 DEF Breaks, TaskMaps
<1> QED BY <1>0, <1>1, <1>2, <1>3, <1>4, <1>5, <1>6 DEF Kinds

LEMMA RequestLastStep ==
    ASSUME Inv, Step
    PROVE  RequestLast'
<1> DEFINE Prepares == {"createBuffer", "createMappedBuffer", "unmap"}
<1>0. Kinds
  BY StepKinds
<1>a. Typed
  BY DEF Inv
<1>b. ASSUME NEW r \in requests, NEW j \in D, At(j, r.object, Prepares)
      PROVE  \E i \in D : i > j /\ down[i] = r
  BY <1>b DEF Inv, Mapped, RequestLast
<1>c. \A o : ~(o \in Buffers /\ o = NoObject)
  BY ClientExecutorAssumption, AppObjects
<1>d. Prepares \subseteq BufferOps
  BY DEF BufferOps
<1>1. ASSUME NEW c, Tells(c) \/ Makes(c) \/ Maps(c) \/ Loads(c) \/ Inquires(c)
                    \/ Unmaps(c) \/ GivesUp(c)
      PROVE  RequestLast'
  <2>1. Sent(c) /\ WellFormed(c, calls'.requests)
    BY <1>1, AppMapping
  <2>2. /\ D' = D \cup {Len(down) + 1} /\ down'[Len(down) + 1] = c
        /\ \A i \in D : down'[i] = down[i] /\ i < Len(down) + 1
        /\ D \subseteq Int /\ Len(down) + 1 \in Int
    BY <1>a, <2>1, SentAt
  <2>3. requests' = requests \/ (requests' = requests \cup {c} /\ c.op \in AskOps)
    BY <1>1 DEF Tells, Makes, Maps, Loads, Inquires, Unmaps, GivesUp, Asks
  <2>4. ASSUME NEW r \in requests, c.op \in Prepares PROVE r.object # c.object
    <3>1. c.object \in Buffers /\ c.object \in Objects
      BY <1>d, <2>1, <2>4, AppObjects DEF WellFormed
    <3>2. ~Pinned(c.object)
      <4>1. CASE Makes(c)
        BY <3>1, <4>1 DEF Makes, Inv, Lives, Unissued, Held
      <4>2. CASE Unmaps(c)
        BY <3>1, <4>2 DEF Unmaps, Inv, Pins
      <4>3. CASE ~Makes(c) /\ ~Unmaps(c)
        BY <1>1, <2>4, <4>3 DEF Tells, Maps, Loads, Inquires, GivesUp, Drops, MapOps, QuestionOps
      <4> QED BY <4>1, <4>2, <4>3
    <3> QED BY <3>2 DEF Pinned
  <2>5. ASSUME NEW r \in requests', NEW j \in D', At(j, r.object, Prepares)'
        PROVE  \E i \in D' : i > j /\ down'[i] = r
    <3>1. CASE j \in D
      <4>1. At(j, r.object, Prepares)
        BY <2>2, <2>5, <3>1 DEF At
      <4> QED BY <1>b, <2>2, <2>3, <3>1, <4>1
    <3>2. CASE j = Len(down) + 1
      <4>1. c.object = r.object /\ c.op \in Prepares
        BY <2>2, <2>5, <3>2 DEF At
      <4>2. r = c /\ c.op \in AskOps
        BY <2>3, <2>4, <4>1
      <4> QED BY <4>1, <4>2 DEF AskOps
    <3> QED BY <2>2, <3>1, <3>2
  <2> QED BY <2>5 DEF RequestLast
<1>2. ASSUME Execution PROVE RequestLast'
  <2>1. Executed /\ UNCHANGED requests
    BY <1>2, <1>a, RunsMapping DEF ServerKept
  <2>2. /\ \A i \in D' : i + 1 \in D /\ i + 1 > 1 /\ down'[i] = down[i + 1]
        /\ \A i \in D \ {1} : i - 1 \in D' /\ down'[i - 1] = down[i]
        /\ D \subseteq Int /\ D' \subseteq Int
    BY <2>1, RunsFacts
  <2>3. ASSUME NEW r \in requests, NEW j \in D', At(j, r.object, Prepares)'
        PROVE  \E i \in D' : i > j /\ down'[i] = r
    <3>1. At(j + 1, r.object, Prepares) /\ j + 1 \in D
      BY <2>2, <2>3 DEF At
    <3>2. PICK i \in D : i > j + 1 /\ down[i] = r
      BY <1>b, <3>1
    <3>3. i \in Int /\ j \in Int /\ j + 1 > 1
      BY <2>2
    <3>4. i # 1
      BY <3>2, <3>3
    <3>5. i - 1 \in D' /\ down'[i - 1] = r /\ i - 1 > j
      BY <2>2, <3>2, <3>3, <3>4
    <3> QED BY <3>5
  <2> QED BY <2>1, <2>3 DEF RequestLast
<1>3. ASSUME UNCHANGED down, requests' \subseteq requests PROVE RequestLast'
  <2>1. D' = D
    BY <1>3 DEF D
  <2> QED BY <1>3, <2>1 DEF Inv, Mapped, RequestLast, At
<1>4. ASSUME NEW t \in tasks, NEW ok \in BOOLEAN, EndsMap(t, ok) PROVE RequestLast'
  BY <1>3, <1>4, EndsMapView
<1>5. ASSUME Notices \/ Small PROVE RequestLast'
  BY <1>3, <1>5 DEF Notices, Small
<1>6. ASSUME NEW r \in requests, Takes(r) PROVE RequestLast'
  <2> DEFINE c == Cmd("destroyObject", r.object, 0)
  <2>1. requests' \subseteq requests /\ (down' = down \/ Sent(c)) /\ c.op = "destroyObject"
    BY <1>6 DEF Takes, Cmd
  <2> HIDE DEF c
  <2>2. CASE Sent(c)
    <3>1. /\ D' = D \cup {Len(down) + 1} /\ down'[Len(down) + 1] = c
          /\ \A i \in D : down'[i] = down[i]
      BY <1>a, <2>2, SentAt
    <3>2. ASSUME NEW s \in requests', NEW j \in D', At(j, s.object, Prepares)'
          PROVE  \E i \in D' : i > j /\ down'[i] = s
      <4>1. j \in D /\ At(j, s.object, Prepares) /\ s \in requests
        BY <2>1, <3>1, <3>2 DEF At
      <4> QED BY <1>b, <3>1, <4>1
    <3> QED BY <3>2 DEF RequestLast
  <2> QED BY <1>3, <2>1, <2>2
<1>7. ASSUME Breaks PROVE RequestLast'
  BY <1>7 DEF Breaks, RequestLast, D
<1> QED BY <1>0, <1>1, <1>2, <1>4, <1>5, <1>6, <1>7 DEF Kinds

LEMMA MadeStep ==
    ASSUME Inv, Step
    PROVE  Made'
<1>0. Kinds
  BY StepKinds
<1>a. Typed /\ Made /\ Buffers \subseteq Objects
  BY AppObjects DEF Inv, Mapped
<1>1. ASSUME NEW c, Tells(c) \/ Makes(c) \/ Maps(c) \/ Loads(c) \/ Inquires(c)
                    \/ Unmaps(c) \/ GivesUp(c)
      PROVE  Made'
  <2>1. Sent(c) /\ UNCHANGED <<mapping, objects>>
    BY <1>1, AppMapping
  <2>2. /\ D' = D \cup {Len(down) + 1} /\ down'[Len(down) + 1] = c
        /\ \A i \in D : down'[i] = down[i]
    BY <1>a, <2>1, SentAt
  <2>3. ASSUME c.op \in CreateOps, c.object \in Buffers PROVE c.object \notin objects
    <3>1. Makes(c)
      BY <1>1, <2>3 DEF Tells, Maps, Loads, Inquires, Unmaps, GivesUp, Drops, MapOps, QuestionOps,
                        CreateOps
    <3> QED BY <1>a, <3>1 DEF Makes, Inv, Lives, Unissued
  <2> QED BY <1>a, <2>1, <2>2, <2>3 DEF Made, At
<1>2. ASSUME Execution PROVE Made'
  <2>1. Executed /\ \A b \in Buffers : Remaps(b)
    BY <1>2, <1>a, RunsMapping
  <2>2. /\ \A i \in D' : i + 1 \in D /\ i + 1 > 1 /\ down'[i] = down[i + 1]
        /\ D' \subseteq Int /\ 1 \in D
        /\ \A b \in Buffers, k \in D : down[1].object = b /\ k # 1 => ~At(k, b, CreateOps)
    BY <2>1, RunsFacts
  <2>3. ASSUME NEW b \in Buffers
        PROVE  /\ b \in objects' => b \in objects \/ (MakesBuffer /\ down[1].object = b)
               /\ b \in objects => b \in objects' \/ At(1, b, {"destroyObject"})
    <3>1. b \notin Frames
      BY ClientExecutorAssumption
    <3>2. WellFormed(down[1], calls.requests)
      BY <1>a, <2>2 DEF Typed, Shaped, Downs
    <3>3. Acquires => down[1].object \in Frames
      BY <3>2 DEF Acquires, Runs, WellFormed
    <3> QED BY <1>2, <3>1, <3>3 DEF Execution, Passes, Refuses, MakesBuffer, FailsBuffer, StartsMap,
               MissesMap, UnmapsBuffer, DestroysResource, DropsObject, StartsTask, Acquires, Runs, At
  <2>4. ASSUME NEW b \in Buffers, mapping'[b] \in {"pending", "mapped"} PROVE b \in objects'
    <3>1. Remaps(b)
      BY <2>1
    <3>2. CASE At(1, b, {"destroyObject"})
      <4>1. mapping'[b] = IF b \in objects THEN "destroyed" ELSE mapping[b]
        BY <3>1, <3>2 DEF Remaps, At, DropOps
      <4> QED BY <1>a, <2>4, <4>1 DEF Made
    <3>3. CASE ~At(1, b, {"destroyObject"}) /\ mapping[b] \in {"pending", "mapped"}
      BY <1>a, <2>3, <3>3 DEF Made
    <3>4. CASE ~At(1, b, {"destroyObject"}) /\ mapping[b] \notin {"pending", "mapped"}
      <4>1. (At(1, b, MapOps) /\ b \in objects) \/ At(1, b, {"createMappedBuffer"})
        BY <2>4, <3>1, <3>4 DEF Remaps, At, MapOps, CreateOps, DropOps
      <4>2. CASE b \in objects
        BY <2>3, <3>4, <4>2
      <4>3. CASE At(1, b, {"createMappedBuffer"})
        <5>1. MakesBuffer \/ FailsBuffer
          BY <1>2, <4>3 DEF Execution, Passes, Refuses, StartsMap, MissesMap, UnmapsBuffer,
                DestroysResource, DropsObject, StartsTask, Acquires, Runs, At, MapOps
        <5>2. ~FailsBuffer
          BY <2>4, <3>4 DEF FailsBuffer
        <5> QED BY <4>3, <5>1, <5>2 DEF MakesBuffer, At
      <4> QED BY <4>1, <4>2, <4>3
    <3> QED BY <3>2, <3>3, <3>4
  <2>5. ASSUME NEW b \in Buffers, NEW i \in D', At(i, b, CreateOps)' PROVE b \notin objects'
    <3>1. At(i + 1, b, CreateOps) /\ i + 1 \in D /\ i + 1 # 1
      BY <2>2, <2>5 DEF At
    <3>2. b \notin objects /\ down[1].object # b
      BY <1>a, <2>2, <3>1 DEF Made
    <3> QED BY <2>3, <3>2
  <2> QED BY <2>4, <2>5 DEF Made
<1>3. ASSUME NEW t \in tasks, NEW ok \in BOOLEAN, EndsMap(t, ok) PROVE Made'
  <2>1. /\ UNCHANGED <<down, objects>> /\ D' = D
        /\ \A b \in Buffers : mapping'[b] \in AtRest \/ mapping'[b] = mapping[b]
    BY <1>3, EndsMapView DEF D
  <2> QED BY <1>a, <2>1 DEF Made, At, AtRest
<1>4. ASSUME NEW r \in requests, Takes(r) PROVE Made'
  <2> DEFINE c == Cmd("destroyObject", r.object, 0)
  <2>1. UNCHANGED <<mapping, objects>> /\ (down' = down \/ Sent(c)) /\ c.op = "destroyObject"
    BY <1>4 DEF Takes, Cmd
  <2> HIDE DEF c
  <2>2. CASE down' = down
    BY <1>a, <2>1, <2>2 DEF Made, At, D
  <2>3. CASE Sent(c)
    <3>1. /\ D' = D \cup {Len(down) + 1} /\ down'[Len(down) + 1] = c
          /\ \A i \in D : down'[i] = down[i]
      BY <1>a, <2>3, SentAt
    <3> QED BY <1>a, <2>1, <3>1 DEF Made, At, CreateOps
  <2> QED BY <2>1, <2>2, <2>3
<1>5. ASSUME Notices \/ Small PROVE Made'
  <2>1. UNCHANGED <<down, mapping>> /\ D' = D /\ \A b \in Buffers : b \in objects' <=> b \in objects
    BY <1>5 DEF Notices, Small, D
  <2> QED BY <1>a, <2>1 DEF Made, At
<1>6. ASSUME Breaks PROVE Made'
  BY <1>a, <1>6 DEF Breaks, Made, D
<1> QED BY <1>0, <1>1, <1>2, <1>3, <1>4, <1>5, <1>6 DEF Kinds

LEMMA MadeMappedStep ==
    ASSUME Inv, Step
    PROVE  MadeMapped'
<1> DEFINE Mapping(b) == mapping[b] = "mapped" \/ \E i \in D : At(i, b, {"createMappedBuffer"})
           Unmapping(b) == \E j \in D : At(j, b, {"unmap"})
<1>0. Kinds
  BY StepKinds
<1>a. Typed /\ Buffers \subseteq Objects
      /\ map_state \in [Buffers -> {"Unmapped", "Pending", "Mapped"}]
  BY AppObjects DEF Inv, Typed, TypeOK
<1>b. ASSUME NEW b \in Buffers, connected, Mapping(b) PROVE map_state[b] = "Mapped" \/ Unmapping(b)
  BY <1>b DEF Inv, Mapped, MadeMapped
<1>c. ASSUME \A b \in Buffers : connected' /\ Mapping(b)' => map_state'[b] = "Mapped" \/ Unmapping(b)'
      PROVE  MadeMapped'
  BY <1>c DEF MadeMapped
<1>d. ASSUME NEW b \in Buffers, D' = D, \A i \in D : down'[i] = down[i]
      PROVE  /\ Unmapping(b)' <=> Unmapping(b)
             /\ (\E i \in D : At(i, b, {"createMappedBuffer"}))'
                => \E i \in D : At(i, b, {"createMappedBuffer"})
  BY <1>d DEF At
<1>e. ASSUME NEW b \in Buffers, NEW c, Sent(c)
      PROVE  /\ Unmapping(b)' <=> Unmapping(b) \/ (c.op = "unmap" /\ c.object = b)
             /\ (\E i \in D : At(i, b, {"createMappedBuffer"}))'
                => \/ \E i \in D : At(i, b, {"createMappedBuffer"})
                   \/ c.op = "createMappedBuffer" /\ c.object = b
  <2>1. /\ D' = D \cup {Len(down) + 1} /\ down'[Len(down) + 1] = c
        /\ \A i \in D : down'[i] = down[i]
    BY <1>a, <1>e, SentAt
  <2> QED BY <2>1 DEF At
<1>1. ASSUME NEW c, Tells(c) \/ Makes(c) \/ Maps(c) \/ Loads(c) \/ Inquires(c)
                    \/ Unmaps(c) \/ GivesUp(c)
      PROVE  MadeMapped'
  <2>1. Sent(c) /\ UNCHANGED <<mapping, connected>> /\ connected
    BY <1>1, AppMapping
  <2>2. ASSUME NEW b \in Buffers, Mapping(b)' PROVE map_state'[b] = "Mapped" \/ Unmapping(b)'
    <3>1. CASE c.op = "createMappedBuffer" /\ c.object = b
      <4>1. Makes(c)
        BY <1>1, <3>1 DEF Tells, Maps, Loads, Inquires, Unmaps, GivesUp, Drops, MapOps, QuestionOps
      <4> QED BY <1>a, <3>1, <4>1 DEF Makes
    <3>2. CASE ~(c.op = "createMappedBuffer" /\ c.object = b)
      <4>1. Mapping(b)
        BY <1>e, <2>1, <2>2, <3>2
      <4>2. CASE Unmapping(b)
        BY <1>e, <2>1, <4>2
      <4>3. CASE map_state[b] = "Mapped"
        <5>1. CASE Unmaps(c) /\ c.object = b
          BY <1>e, <2>1, <5>1 DEF Unmaps
        <5>2. CASE ~(Unmaps(c) /\ c.object = b)
          <6>1. map_state'[b] = map_state[b]
            BY <1>1, <1>a, <3>2, <4>3, <5>2 DEF Tells, Makes, Maps, Loads, Inquires, Unmaps, GivesUp
          <6> QED BY <4>3, <6>1
        <5> QED BY <5>1, <5>2
      <4> QED BY <1>b, <2>1, <4>1, <4>2, <4>3
    <3> QED BY <3>1, <3>2
  <2> HIDE DEF Mapping, Unmapping
  <2> QED BY <1>c, <2>2
<1>2. ASSUME Execution PROVE MadeMapped'
  <2>1. Executed /\ ServerKept /\ \A b \in Buffers : Remaps(b)
    BY <1>2, <1>a, RunsMapping
  <2>2. /\ \A i \in D' : i + 1 \in D /\ i + 1 > 1 /\ down'[i] = down[i + 1]
        /\ \A i \in D \ {1} : i - 1 \in D' /\ down'[i - 1] = down[i]
        /\ 1 \in D
        /\ \A b \in Buffers, k \in D : down[1].object = b /\ k # 1 => ~At(k, b, CreateOps)
    BY <2>1, RunsFacts
  <2>3. ASSUME NEW b \in Buffers, connected, Mapping(b)'
        PROVE  map_state[b] = "Mapped" \/ Unmapping(b)'
    <3>1. Remaps(b)
      BY <2>1
    <3>2. (\E i \in D : At(i, b, {"createMappedBuffer"}))'
          => ~At(1, b, {"unmap"}) /\ \E i \in D : At(i, b, {"createMappedBuffer"})
      BY <2>2 DEF At, CreateOps
    <3>3. mapping'[b] = "mapped" => ~At(1, b, {"unmap"})
      <4>1. mapping[b] = "mapped" => b \in objects /\ mapping[b] \notin AtRest
        BY DEF Inv, Mapped, Made, AtRest
      <4> QED BY <3>1, <4>1 DEF Remaps
    <3>4. mapping'[b] = "mapped" => mapping[b] = "mapped" \/ At(1, b, {"createMappedBuffer"})
      BY <3>1 DEF Remaps, At, CreateOps, MapOps, DropOps
    <3>5. Mapping(b) /\ ~At(1, b, {"unmap"})
      BY <2>2, <2>3, <3>2, <3>3, <3>4
    <3>6. Unmapping(b) => Unmapping(b)'
      BY <2>2, <3>5 DEF At
    <3> QED BY <1>b, <2>3, <3>5, <3>6
  <2> HIDE DEF Mapping, Unmapping
  <2> QED BY <1>c, <2>1, <2>3 DEF ServerKept
<1>3. ASSUME NEW t \in tasks, NEW ok \in BOOLEAN, EndsMap(t, ok) PROVE MadeMapped'
  <2>1. /\ UNCHANGED <<down, connected, map_state>> /\ D' = D
        /\ \A b \in Buffers : mapping'[b] \in AtRest \/ mapping'[b] = mapping[b]
    BY <1>3, EndsMapView DEF D
  <2> QED BY <1>b, <1>c, <1>d, <2>1 DEF AtRest
<1>4. ASSUME NEW r \in requests, Takes(r) PROVE MadeMapped'
  <2> DEFINE c == Cmd("destroyObject", r.object, 0)
  <2>1. UNCHANGED <<mapping, connected>> /\ (down' = down \/ Sent(c)) /\ c.op = "destroyObject"
    BY <1>4 DEF Takes, Cmd
  <2> HIDE DEF c
  <2>2. ASSUME NEW b \in Buffers
        PROVE  /\ Mapping(b)' => Mapping(b)
               /\ Unmapping(b) => Unmapping(b)'
    <3>1. CASE down' = down
      BY <1>d, <2>1, <3>1 DEF D
    <3>2. CASE Sent(c)
      BY <1>e, <2>1, <3>2
    <3> QED BY <2>1, <3>1, <3>2
  <2>3. ASSUME NEW b \in Buffers, map_state[b] = "Mapped" PROVE map_state'[b] = "Mapped"
    <3>1. r.object # b
      BY <2>3 DEF Inv, Pins, Pinned
    <3> QED BY <1>4, <1>a, <2>3, <3>1 DEF Takes
  <2> HIDE DEF Mapping, Unmapping
  <2> QED BY <1>b, <1>c, <2>1, <2>2, <2>3
<1>5. ASSUME Notices \/ Small PROVE MadeMapped'
  <2>1. UNCHANGED <<down, mapping, connected, map_state>> /\ D' = D
    BY <1>5 DEF Notices, Small, D
  <2> QED BY <1>b, <1>c, <1>d, <2>1
<1>6. ASSUME Breaks PROVE MadeMapped'
  BY <1>6 DEF Breaks, MadeMapped
<1> QED BY <1>0, <1>1, <1>2, <1>3, <1>4, <1>5, <1>6 DEF Kinds

-----------------------------------------------------------------------------
(* Frames.                                                                 *)

\* t is s, of length n, with one more element at its end.
Longer(s, t, n) ==
    /\ n \in Nat /\ DOMAIN s = 1 .. n /\ DOMAIN t = 1 .. n + 1
    /\ \A i \in 1 .. n : t[i] = s[i]

\* s is t, of length n, with one more element before it.
Shorter(s, t, n) ==
    /\ n \in Nat /\ DOMAIN s = 1 .. n + 1 /\ DOMAIN t = 1 .. n
    /\ \A i \in 1 .. n : t[i] = s[i + 1]

LEMMA CountLonger ==
    ASSUME NEW s, NEW t, NEW n, Longer(s, t, n), NEW op
    PROVE  /\ Count(s, op) \in Nat /\ Count(t, op) \in Nat
           /\ Count(t, op) = IF t[n + 1].op = op THEN Count(s, op) + 1 ELSE Count(s, op)
<1> DEFINE P == {i \in DOMAIN s : s[i].op = op}
           Q == {i \in DOMAIN t : t[i].op = op}
<1>0. /\ n \in Nat /\ DOMAIN s = 1 .. n /\ DOMAIN t = 1 .. n + 1
      /\ \A i \in 1 .. n : t[i] = s[i]
  BY DEF Longer
<1>1. IsFiniteSet(1 .. n) /\ P \subseteq 1 .. n
  BY <1>0, FS_Interval
<1>2. IsFiniteSet(P)
  BY <1>1, FS_Subset
<1>3. Q = IF t[n + 1].op = op THEN P \cup {n + 1} ELSE P
  BY <1>0
<1>4. n + 1 \notin P
  BY <1>0
<1> HIDE DEF P, Q
<1>5. Cardinality(P) \in Nat
  BY <1>2, FS_CardinalityType
<1>6. Cardinality(P \cup {n + 1}) = IF n + 1 \in P THEN Cardinality(P) ELSE Cardinality(P) + 1
  BY <1>2, FS_AddElement, Zenon
<1>7. Cardinality(Q) = IF t[n + 1].op = op THEN Cardinality(P) + 1 ELSE Cardinality(P)
  BY <1>3, <1>4, <1>6
<1>8. Count(s, op) = Cardinality(P) /\ Count(t, op) = Cardinality(Q)
  BY DEF Count, P, Q
<1> QED BY <1>5, <1>7, <1>8

LEMMA CountShorter ==
    ASSUME NEW s, NEW t, NEW n, Shorter(s, t, n), NEW op
    PROVE  /\ Count(s, op) \in Nat /\ Count(t, op) \in Nat
           /\ Count(s, op) = IF s[1].op = op THEN Count(t, op) + 1 ELSE Count(t, op)
<1> DEFINE P == {i \in DOMAIN t : t[i].op = op}
           Q == {i \in DOMAIN s : s[i].op = op}
           R == {i \in 2 .. n + 1 : s[i].op = op}
           f == [i \in P |-> i + 1]
<1>0. /\ n \in Nat /\ DOMAIN s = 1 .. n + 1 /\ DOMAIN t = 1 .. n
      /\ \A i \in 1 .. n : t[i] = s[i + 1]
  BY DEF Shorter
<1>1. IsFiniteSet(1 .. n) /\ P \subseteq 1 .. n
  BY <1>0, FS_Interval
<1>2. IsFiniteSet(P)
  BY <1>1, FS_Subset
<1>3. f \in [P -> R]
  BY <1>0
<1>4. \A i, j \in P : f[i] = f[j] => i = j
  BY <1>0
<1>5. \A j \in R : j - 1 \in P /\ f[j - 1] = j
  BY <1>0
<1>6. Q = IF s[1].op = op THEN R \cup {1} ELSE R
  BY <1>0
<1>7. 1 \notin R
  BY <1>0
<1> HIDE DEF P, Q, R, f
<1>8. f \in Bijection(P, R)
  BY <1>3, <1>4, <1>5 DEF Bijection, Injection, Surjection, IsInjective
<1>9. ExistsBijection(P, R)
  BY <1>8 DEF ExistsBijection
<1>10. IsFiniteSet(R) /\ Cardinality(R) = Cardinality(P) /\ Cardinality(P) \in Nat
  BY <1>2, <1>9, FS_Bijection, FS_CardinalityType
<1>11. Cardinality(R \cup {1}) = IF 1 \in R THEN Cardinality(R) ELSE Cardinality(R) + 1
  BY <1>10, FS_AddElement, Zenon
<1>12. Cardinality(Q) = IF s[1].op = op THEN Cardinality(P) + 1 ELSE Cardinality(P)
  BY <1>6, <1>7, <1>10, <1>11
<1>13. Count(t, op) = Cardinality(P) /\ Count(s, op) = Cardinality(Q)
  BY DEF Count, P, Q
<1> QED BY <1>10, <1>12, <1>13

(* The counts of both channels after each of their steps.                  *)
LEMMA Counts ==
    ASSUME Typed
    PROVE  /\ Count(down, "present") \in Nat /\ Count(up, "presentDone") \in Nat
           /\ \A c : Sent(c) =>
                Count(down, "present")' = IF c.op = "present" THEN Count(down, "present") + 1
                                          ELSE Count(down, "present")
           /\ \A a : Replied(a) =>
                Count(up, "presentDone")' =
                    IF a.op = "presentDone" THEN Count(up, "presentDone") + 1
                    ELSE Count(up, "presentDone")
           /\ Executed =>
                /\ Count(down, "present")' \in Nat
                /\ Count(down, "present") =
                    IF down[1].op = "present" THEN Count(down, "present")' + 1
                    ELSE Count(down, "present")'
           /\ Heard =>
                /\ Count(up, "presentDone")' \in Nat
                /\ Count(up, "presentDone") =
                    IF up[1].op = "presentDone" THEN Count(up, "presentDone")' + 1
                    ELSE Count(up, "presentDone")'
<1>1. /\ down \in Seq(Commands) /\ up \in Seq(Replies)
      /\ Len(down) \in Nat /\ Len(up) \in Nat
  BY Lengths DEF Typed, TypeOK, Commands, Replies, AnswerOps
<1>2. DOMAIN down = 1 .. Len(down) /\ DOMAIN up = 1 .. Len(up)
  BY <1>1
<1>3. ASSUME NEW S, NEW s \in Seq(S), NEW op PROVE Count(s, op) \in Nat
  <2>1. DOMAIN s = 1 .. Len(s) /\ Len(s) \in Nat
    OBVIOUS
  <2>2. IsFiniteSet(1 .. Len(s))
    BY <2>1, FS_Interval
  <2>3. {i \in DOMAIN s : s[i].op = op} \subseteq 1 .. Len(s)
    BY <2>1
  <2> QED BY <2>2, <2>3, FS_Subset, FS_CardinalityType DEF Count
<1>4. ASSUME NEW c, Sent(c)
      PROVE  Count(down, "present")' = IF c.op = "present" THEN Count(down, "present") + 1
                                       ELSE Count(down, "present")
  <2>1. DOMAIN down' = 1 .. Len(down) + 1 /\ down'[Len(down) + 1] = c
        /\ \A i \in 1 .. Len(down) : down'[i] = down[i]
    BY <1>1, <1>4 DEF Sent, D
  <2>a. Longer(down, down', Len(down))
    BY <1>1, <1>2, <2>1 DEF Longer
  <2>2. Count(down', "present") = IF down'[Len(down) + 1].op = "present"
                                  THEN Count(down, "present") + 1
                                  ELSE Count(down, "present")
    BY <2>a, CountLonger
  <2>3. down'[Len(down) + 1].op = c.op
    BY <2>1
  <2> QED BY <2>2, <2>3
<1>5. ASSUME NEW a, Replied(a)
      PROVE  Count(up, "presentDone")' = IF a.op = "presentDone"
                                         THEN Count(up, "presentDone") + 1
                                         ELSE Count(up, "presentDone")
  <2>1. DOMAIN up' = 1 .. Len(up) + 1 /\ up'[Len(up) + 1] = a
        /\ \A i \in 1 .. Len(up) : up'[i] = up[i]
    BY <1>1, <1>5 DEF Replied, U
  <2>a. Longer(up, up', Len(up))
    BY <1>1, <1>2, <2>1 DEF Longer
  <2>2. Count(up', "presentDone") = IF up'[Len(up) + 1].op = "presentDone"
                                    THEN Count(up, "presentDone") + 1
                                    ELSE Count(up, "presentDone")
    BY <2>a, CountLonger
  <2>3. up'[Len(up) + 1].op = a.op
    BY <2>1
  <2> QED BY <2>2, <2>3
<1>6. ASSUME Executed
      PROVE  /\ Count(down, "present")' \in Nat
             /\ Count(down, "present") =
                    IF down[1].op = "present" THEN Count(down, "present")' + 1
                    ELSE Count(down, "present")'
  <2>0. down' \in Seq(Commands) /\ Len(down') = Len(down) - 1
    BY <1>6 DEF Executed
  <2>1. DOMAIN down' = 1 .. Len(down') /\ Len(down') \in Nat
    BY <2>0
  <2>a. Len(down) = Len(down') + 1
    BY <1>1, <2>0, <2>1
  <2>b. \A i \in 1 .. Len(down') : down'[i] = down[i + 1]
    BY <1>6 DEF Executed
  <2>c. Shorter(down, down', Len(down'))
    BY <1>2, <2>1, <2>a, <2>b DEF Shorter
  <2>2. /\ Count(down', "present") \in Nat
        /\ Count(down, "present") =
                    IF down[1].op = "present" THEN Count(down', "present") + 1
                    ELSE Count(down', "present")
    BY <2>c, CountShorter
  <2> QED BY <2>2
<1>7. ASSUME Heard
      PROVE  /\ Count(up, "presentDone")' \in Nat
             /\ Count(up, "presentDone") =
                    IF up[1].op = "presentDone" THEN Count(up, "presentDone")' + 1
                    ELSE Count(up, "presentDone")'
  <2>1. DOMAIN up' = 1 .. Len(up') /\ Len(up') \in Nat /\ Len(up) = Len(up') + 1
        /\ \A i \in 1 .. Len(up') : up'[i] = up[i + 1]
    BY <1>1, <1>7 DEF Heard
  <2>a. Shorter(up, up', Len(up'))
    BY <1>2, <2>1 DEF Shorter
  <2>2. /\ Count(up', "presentDone") \in Nat
        /\ Count(up, "presentDone") =
                    IF up[1].op = "presentDone" THEN Count(up', "presentDone") + 1
                    ELSE Count(up', "presentDone")
    BY <2>a, CountShorter
  <2> QED BY <2>2
<1> QED BY <1>1, <1>3, <1>4, <1>5, <1>6, <1>7

LEMMA FramesStep ==
    ASSUME Typed, Tracked, FramesCounted, Step
    PROVE  FramesCounted'
<1> DEFINE cd == Count(down, "present")
           cu == Count(up, "presentDone")
           shown == IF compositing THEN 1 ELSE 0
           Before == connected /\ ~closed => calls.sent = cd + shown + cu + calls.done
           After == connected' /\ ~closed' => calls'.sent = cd' + shown' + cu' + calls'.done
<1>0. Before /\ (FramesCounted' <=> After)
  BY DEF FramesCounted
<1>a. calls.sent \in Nat /\ calls.done \in Nat /\ cd \in Nat /\ cu \in Nat /\ calls.done <= calls.sent
      /\ compositing \in BOOLEAN
  BY Counts DEF Typed, TypeOK, Shaped, CallsType
<1>b. ASSUME NEW c, Issued(c) PROVE FramesCounted'
  <2>1. cd' = IF c.op = "present" THEN cd + 1 ELSE cd
    BY <1>b, Counts DEF Issued
  <2>2. cu' = cu /\ shown' = shown /\ UNCHANGED <<connected, closed>>
        /\ calls'.done = calls.done
        /\ calls'.sent = IF c.op = "present" THEN calls.sent + 1 ELSE calls.sent
    BY <1>b DEF Issued
  <2> HIDE DEF cd, cu, shown
  <2> QED BY <1>0, <1>a, <2>1, <2>2 DEF shown
<1>1. ASSUME NEW c, Tells(c) \/ Makes(c) \/ Maps(c) \/ Loads(c) \/ Inquires(c)
                    \/ Unmaps(c) \/ GivesUp(c)
      PROVE  FramesCounted'
  BY <1>1, <1>b, AppMapping
<1>2. ASSUME UNCHANGED <<down, up, compositing, closed, connected, calls>> PROVE FramesCounted'
  BY <1>2 DEF FramesCounted, Count
<1>3. ASSUME (\E id \in Objects : LetsGo(id)) \/ Idle \/ \E t \in tasks : LosesAsk(t)
      PROVE  FramesCounted'
  BY <1>2, <1>3 DEF LetsGo, Idle, LosesAsk, ServerKept
<1>4. ASSUME Executed, ServerKept, UNCHANGED <<up, closed>>,
             IF down[1].op = "present" THEN ~compositing /\ compositing' ELSE UNCHANGED compositing
      PROVE  FramesCounted'
  <2>1. cd' \in Nat /\ cd = IF down[1].op = "present" THEN cd' + 1 ELSE cd'
    BY <1>4, Counts
  <2>2. cu' = cu /\ UNCHANGED <<connected, closed, calls>>
        /\ shown' = IF down[1].op = "present" THEN shown + 1 ELSE shown
    BY <1>4 DEF ServerKept
  <2> HIDE DEF cd, cu
  <2> QED BY <1>0, <1>a, <2>1, <2>2
<1>5. ASSUME Passes PROVE FramesCounted'
  BY <1>4, <1>5 DEF Passes, Runs
<1>6. ASSUME UnmapsBuffer \/ DestroysResource \/ StartsMap \/ MissesMap \/ StartsTask \/ Acquires
             \/ MakesBuffer \/ FailsBuffer \/ DropsObject
      PROVE  FramesCounted'
  <2>1. down[1].op # "present"
    BY <1>6 DEF UnmapsBuffer, DestroysResource, StartsMap, MissesMap, StartsTask, Acquires,
                MakesBuffer, FailsBuffer, DropsObject, Runs, MapOps, CreateOps
  <2> QED BY <1>4, <1>6, <2>1 DEF UnmapsBuffer, DestroysResource, StartsMap, MissesMap, StartsTask,
                                  Acquires, MakesBuffer, FailsBuffer, DropsObject, Runs
<1>7. ASSUME Refuses \/ Breaks PROVE FramesCounted'
  BY <1>7 DEF Refuses, Breaks, FramesCounted
<1>8. ASSUME NEW a, UNCHANGED <<down, closed>>, ServerKept,
             IF closed THEN up' = up ELSE Replied(a),
             IF a.op = "presentDone" THEN compositing /\ ~compositing'
                                     ELSE UNCHANGED compositing
      PROVE  FramesCounted'
  <2>1. CASE closed
    BY <1>8, <2>1 DEF FramesCounted
  <2>2. CASE ~closed
    <3>1. cu' = IF a.op = "presentDone" THEN cu + 1 ELSE cu
      BY <1>8, <2>2, Counts
    <3>2. cd' = cd /\ UNCHANGED <<connected, closed, calls>>
          /\ shown = IF a.op = "presentDone" THEN shown' + 1 ELSE shown'
      BY <1>8 DEF ServerKept
    <3>3. shown' \in Nat
      OBVIOUS
    <3> HIDE DEF cd, cu, shown
    <3> QED BY <1>0, <1>a, <3>1, <3>2, <3>3
  <2> QED BY <2>1, <2>2
<1>9. ASSUME ShowsFrame PROVE FramesCounted'
  <2>1. Answer("presentDone", 0, TRUE).op = "presentDone"
    BY DEF Answer
  <2> QED BY <1>8, <1>9, <2>1 DEF ShowsFrame
<1>10. ASSUME NEW t, NEW a, Ends(t, a), a.op # "presentDone" PROVE FramesCounted'
  BY <1>8, <1>10 DEF Ends
<1>11. ASSUME NEW t \in tasks, (\E ok \in BOOLEAN : EndsMap(t, ok) \/ EndsLoad(t, ok))
                              \/ EndsAsk(t)
      PROVE  FramesCounted'
  BY <1>10, <1>11 DEF EndsMap, EndsLoad, EndsAsk, Answer, QuestionOps
<1>14. ASSUME ReportsLoss PROVE FramesCounted'
  <2>1. Answer("deviceLost", 0, TRUE).op # "presentDone"
    BY DEF Answer
  <2> QED BY <1>8, <1>14, <2>1 DEF ReportsLoss
<1>12. ASSUME NEW r \in requests, Takes(r) PROVE FramesCounted'
  <2> DEFINE c == Cmd("destroyObject", r.object, 0)
  <2>1. Heard /\ up[1].op = Kind(r.op) /\ (down' = down \/ Sent(c)) /\ c.op = "destroyObject"
        /\ UNCHANGED <<compositing, connected, closed, calls>>
    BY <1>12 DEF Takes, Cmd
  <2> HIDE DEF c
  <2>2. up[1].op # "presentDone"
    <3>1. r.op \in AskOps
      BY <1>12 DEF Typed, Shaped, Pending
    <3> QED BY <2>1, <3>1 DEF Kind, AskOps
  <2>3. cu = cu'
    BY <2>1, <2>2, Counts
  <2>4. cd' = cd
    BY <2>1, Counts
  <2>5. shown' = shown
    BY <2>1
  <2> HIDE DEF cd, cu, shown
  <2> QED BY <1>0, <2>1, <2>3, <2>4, <2>5
<1>13. ASSUME Notices PROVE FramesCounted'
  <2>1. /\ Heard /\ UNCHANGED <<down, compositing, connected, closed>>
        /\ calls'.sent = calls.sent
        /\ calls'.done = IF up[1].op = "presentDone" /\ calls.done < calls.sent
                         THEN calls.done + 1 ELSE calls.done
    BY <1>13 DEF Notices
  <2>2. cu' \in Nat /\ cu = IF up[1].op = "presentDone" THEN cu' + 1 ELSE cu'
    BY <2>1, Counts
  <2>3. cd' = cd /\ shown' = shown /\ shown \in Nat
    BY <2>1
  <2> HIDE DEF cd, cu, shown
  <2> QED BY <1>0, <1>a, <2>1, <2>2, <2>3
<1> QED BY <1>1, <1>3, <1>5, <1>6, <1>7, <1>9, <1>11, <1>12, <1>13, <1>14
        DEF Step, AppStep, ClientStep, ReceiveStep

-----------------------------------------------------------------------------
(* The invariant.                                                          *)

LEMMA Names ==
    ASSUME Inv
    PROVE  NamesResolve /\ MapsFind
<1>1. CASE Len(down) = 0
  BY <1>1, Lengths DEF Inv, Typed, NamesResolve, MapsFind
<1>2. CASE Len(down) # 0
  <2>1. down \in Seq(Commands) /\ Len(down) \in Nat
    BY Lengths DEF Inv, Typed, TypeOK, Commands
  <2>2. 1 \in D /\ Command = down[1]
    BY <1>2, <2>1, TailView DEF D, Command
  <2>3. ASSUME NEW b \in Buffers, down[1].object = b, down[1].op \notin CreateOps
        PROVE  Came(b)
    BY <2>2, <2>3 DEF Inv, Bufs, NamedKnown, D
  <2>4. ASSUME NEW t \in Textures, down[1].object = t,
               down[1].op \notin {"loadTexture", "destroyObject"}
        PROVE  t \in objects
    BY <2>2, <2>4 DEF Inv, Texs
  <2>5. NamesResolve
    BY <2>2, <2>3, <2>4 DEF NamesResolve, Known, CreateOps, Came
  <2>6. MapsFind
    <3>1. down[1].op \in MapOps => down[1].op \in BufferOps /\ down[1].op \notin CreateOps
      BY DEF MapOps, BufferOps, CreateOps
    <3>2. WellFormed(down[1], calls.requests)
      BY <2>2 DEF Inv, Typed, Shaped, Downs
    <3> QED BY <2>3, <3>1, <3>2 DEF MapsFind, Known, WellFormed, Came
  <2> QED BY <2>5, <2>6
<1> QED BY <1>1, <1>2

LEMMA InitInv == Init => Inv /\ FramesCounted
<1> SUFFICES ASSUME Init PROVE Inv /\ FramesCounted
  OBVIOUS
<1>0. /\ down = <<>> /\ up = <<>> /\ objects = {} /\ mapping = [b \in Buffers |-> "unmapped"]
      /\ gpu = 1 /\ dead = {} /\ losing = {} /\ surfaceTexture = FALSE /\ compositing = FALSE
      /\ tasks = {} /\ failed = {} /\ unseen = {} /\ closed = FALSE /\ connected = TRUE
      /\ held = {} /\ of = [id \in Objects |-> NoDevice] /\ lost_device = NoDevice
      /\ lost = {} /\ destroyed = {} /\ owned = {} /\ surface = NoDevice
      /\ map_state = [b \in Buffers |-> "Unmapped"] /\ requests = {}
      /\ issued = {} /\ calls = [issued |-> 0, requests |-> 0, sent |-> 0, done |-> 0]
  BY DEF Init, ClientInit
<1>1. D = {} /\ U = {}
  BY <1>0 DEF D, U
<1>2. TypeOK
  <2>1. 1 \in 1 .. MaxGpus
    BY ClientExecutorAssumption
  <2>2. mapping \in [Buffers -> {"unmapped", "pending", "mapped", "taken", "destroyed"}]
        /\ map_state \in [Buffers -> {"Unmapped", "Pending", "Mapped"}]
        /\ of \in [Objects -> Devices \cup {NoDevice}]
    BY <1>0
  <2>3. \A S : <<>> \in Seq(S)
    OBVIOUS
  <2>4. {surfaceTexture, compositing, closed, connected} \subseteq BOOLEAN
    BY <1>0
  <2>5. /\ held \cup lost \cup destroyed \subseteq Devices
        /\ lost_device \in Referenced \cup {NoDevice} /\ surface \in Devices \cup {NoDevice}
        /\ losing \subseteq dead /\ dead \subseteq 1 .. gpu
        /\ objects \subseteq Objects /\ owned \subseteq Objects
        /\ failed \subseteq Buffers /\ unseen \subseteq 1 .. MaxRequests
        /\ gpu \in 1 .. MaxGpus /\ calls.done <= calls.sent
    BY <1>0, <2>1
  <2>6. requests \subseteq [op : Ops, object : Objects \cup {NoObject}, req : 1 .. MaxRequests]
    BY <1>0
  <2>7. down \in Seq(Commands) /\ up \in Seq(Replies)
    BY <1>0, <2>3
  <2> QED BY <2>2, <2>4, <2>5, <2>6, <2>7 DEF TypeOK, Commands, Replies, AnswerOps
<1>3. Shaped
  BY <1>0, <1>1, SessionAssumption
     DEF Shaped, CallsType, Tasks, Pending, Downs, Ups, Over, Given
<1>4. Tracked /\ NoneLost /\ Unseen /\ Lives /\ Bufs /\ Texs
  BY <1>0, <1>1 DEF Tracked, Numbered, Asking, Once, Apart, NoneLost, Unseen, Lives, Unissued, Held,
     Pinned, IntroducedHeld, DroppedLast, ObjectsHeld, Bufs, NamedKnown, HeldKnown,
     IntroducedFirst, Texs
<1>5. Pins
  BY <1>0 DEF Pins, Pinned
<1>6. Mapped
  BY <1>0, <1>1 DEF Mapped, PendingTask, MapReady, UnmappedReady, Ready, Resting, RefusedRests,
     TaskMaps, RequestLast, AtRest, Made, MadeMapped
<1>7. FramesCounted
  <2>1. Count(<<>>, "present") = 0 /\ Count(<<>>, "presentDone") = 0
    <3>1. \A op : {i \in DOMAIN <<>> : <<>>[i].op = op} = {}
      OBVIOUS
    <3> QED BY <3>1, FS_EmptySet DEF Count
  <2>2. calls.sent = 0 /\ calls.done = 0
    BY <1>0
  <2> QED BY <1>0, <2>1, <2>2 DEF FramesCounted
<1> QED BY <1>2, <1>3, <1>4, <1>5, <1>6, <1>7 DEF Inv, Typed

LEMMA NextInv ==
    ASSUME Inv, FramesCounted, [Next]_vars
    PROVE  Inv' /\ FramesCounted'
<1>1. CASE Next
  <2>1. Typed' /\ Step
    BY <1>1, NextTypes DEF Inv, Tracked
  <2>2. Tracked' /\ NoneLost' /\ Unseen' /\ Pins' /\ Lives' /\ Bufs' /\ Texs'
    BY <2>1, Names, TrackedStep, NoneLostStep, UnseenStep, PinsStep, LivesStep, BufsStep, TexsStep
       DEF Inv
  <2>3. Mapped'
    BY <2>1, PendingTaskStep, MapReadyStep, UnmappedReadyStep, RefusedRestsStep, TaskMapsStep,
       RequestLastStep, MadeStep, MadeMappedStep DEF Mapped
  <2>4. FramesCounted'
    BY <2>1, FramesStep DEF Inv
  <2> QED BY <2>1, <2>2, <2>3, <2>4 DEF Inv
<1>2. CASE UNCHANGED vars
  <2>1. Idle /\ UNCHANGED <<gpu, dead, losing, surfaceTexture, deviceVars, surface>>
    BY <1>2 DEF vars, clientVars, tableVars, taskVars, gpuVars, frameVars, serverVars, handleVars,
                deviceVars, Idle
  <2>2. AppStep
    BY <2>1 DEF AppStep
  <2>3. Typed'
    BY <2>1 DEF Idle, Inv, Typed, TypeOK, Shaped, Tasks, Pending, Downs, Ups, Over, Given, D, U,
                deviceVars, Referenced, Pinned
  <2>4. Tracked' /\ NoneLost' /\ Unseen' /\ Pins' /\ Lives' /\ Bufs' /\ Texs'
    BY <2>2, <2>3, Names, TrackedStep, NoneLostStep, UnseenStep, PinsStep, LivesStep, BufsStep,
       TexsStep DEF Inv, Step
  <2>5. Mapped'
    BY <2>2, PendingTaskStep, MapReadyStep, UnmappedReadyStep, RefusedRestsStep, TaskMapsStep,
       RequestLastStep, MadeStep, MadeMappedStep DEF Mapped, Step
  <2>6. FramesCounted'
    BY <2>2, FramesStep DEF Inv, Step
  <2> QED BY <2>3, <2>4, <2>5, <2>6 DEF Inv
<1> QED BY <1>1, <1>2

(* The parts above hold together in every state that a session reaches.    *)
THEOREM Invariance == Spec => [](Inv /\ FramesCounted)
BY InitInv, NextInv, PTL DEF Spec

(* Every variable of a session has its type; the slot that device reports  *)
(* are routed to never names a device that is freed.                       *)
THEOREM TypeCorrect == Spec => []TypeOK
<1>1. Inv => TypeOK
  BY DEF Inv, Typed
<1> QED BY <1>1, Invariance, PTL

(* A command that names a buffer or a fetched texture finds it, unless     *)
(* createBuffer threw when the browser should have made the buffer.        *)
THEOREM NamesAlwaysResolve == Spec => []NamesResolve
BY Names, Invariance, PTL

(* Nothing leaks in the browser while the connection lasts: what its table *)
(* holds the server holds too, or has told it to drop.                     *)
THEOREM NoneOrphaned == Spec => []NoOrphans
<1>1. Inv => NoOrphans
  <2> SUFFICES ASSUME Inv, connected, NEW id \in objects
               PROVE  \/ id \in owned \/ Pinned(id)
                      \/ \E i \in DOMAIN down : down[i] = Cmd("destroyObject", id, 0)
    BY DEF NoOrphans
  <2>1. id \in Objects /\ DOMAIN down = D
    BY DEF Inv, Typed, TypeOK, D
  <2>2. ASSUME NEW i \in D, Drops(down[i], id) PROVE down[i] = Cmd("destroyObject", id, 0)
    <3>1. WellFormed(down[i], calls.requests)
      BY DEF Inv, Typed, Shaped, Downs
    <3>2. down[i].req = 0
      BY <2>2, <3>1 DEF WellFormed, Drops, AskOps
    <3> QED BY <2>2, <3>1, <3>2 DEF WellFormed, Drops
  <2> QED BY <2>1, <2>2 DEF Inv, Lives, ObjectsHeld, Held
<1> QED BY <1>1, Invariance, PTL

(* Both sides agree on a buffer: what the browser is mapping the server    *)
(* waits for, what is mapped from its creation is so until the server's    *)
(* unmap arrives, and no map request meets either.  Whether UnmapBuffer    *)
(* throws and a copy fails or not, for any number of buffers and requests. *)
THEOREM MapsAlwaysAgree == Spec => []MapAgrees
<1>1. Inv => MapAgrees
  <2> SUFFICES ASSUME Inv PROVE MapAgrees
    OBVIOUS
  <2>1. ASSUME NEW b \in Buffers, connected, mapping[b] = "pending"
        PROVE  map_state[b] = "Pending"
    <3>1. PICK t \in tasks : t.object = b
      BY <2>1 DEF Inv, Mapped, PendingTask
    <3>2. Pinned(b)
      BY <3>1, MapTask DEF Pinned
    <3> QED BY <2>1, <3>2 DEF Inv, Pins
  <2>2. ASSUME NEW b \in Buffers, connected, mapping[b] = "mapped"
        PROVE  map_state[b] = "Mapped" \/ \E i \in DOMAIN down : down[i] = Cmd("unmap", b, 0)
    <3>1. ASSUME NEW i \in D, At(i, b, {"unmap"}) PROVE down[i] = Cmd("unmap", b, 0)
      <4>1. WellFormed(down[i], calls.requests)
        BY DEF Inv, Typed, Shaped, Downs
      <4>2. down[i].op = "unmap" /\ down[i].object = b /\ "unmap" \notin AskOps
        BY <3>1 DEF At, AskOps
      <4> QED BY <4>1, <4>2 DEF WellFormed
    <3>2. DOMAIN down = D
      BY DEF Inv, Typed, TypeOK, D
    <3> QED BY <2>2, <3>1, <3>2 DEF Inv, Mapped, MadeMapped
  <2>3. ASSUME down # <<>>, Command.op \in MapOps
        PROVE  mapping[Command.object] \notin {"pending", "mapped"}
    <3>1. down \in Seq(Commands) /\ Len(down) \in Nat /\ Len(down) # 0
      BY <2>3, Lengths DEF Inv, Typed, TypeOK, Commands
    <3>2. 1 \in D /\ Command = down[1]
      BY <2>3, <3>1, TailView DEF D, Command
    <3>3. down[1].object \in Buffers
      BY <2>3, <3>2 DEF Inv, Typed, Shaped, Downs, WellFormed, MapOps, BufferOps
    <3>4. At(1, down[1].object, MapOps)
      BY <2>3, <3>2 DEF At
    <3>5. Ready(down[1].object, 1)
      BY <3>2, <3>3, <3>4 DEF Inv, Mapped, MapReady
    <3> QED BY <3>2, <3>5 DEF Ready, Resting, D, AtRest
  <2> QED BY <2>1, <2>2, <2>3 DEF MapAgrees, MapOps
<1> QED BY <1>1, Invariance, PTL

(* A pending request is in exactly one place while the connection lasts:   *)
(* on its way, in the hands of the browser, answered, or in a rejection    *)
(* nobody sees; and the last can happen only to the requests whose promise *)
(* has no catch and to maps of a buffer that could not be created.         *)
THEOREM RequestsTracked == Spec => []RequestTracked
<1>1. Inv => RequestTracked
  <2> SUFFICES ASSUME Inv, connected, ~closed, NEW r \in requests
               PROVE  /\ Cardinality({i \in DOMAIN down : down[i] = r})
                         + Cardinality({t \in tasks : t.req = r.req})
                         + Cardinality({i \in DOMAIN up : up[i].req = r.req})
                         + Cardinality({n \in unseen : n = r.req}) = 1
                      /\ r.req \in unseen => Unanswerable(r)
    BY DEF RequestTracked
  <2>1. DOMAIN down = D /\ DOMAIN up = U
    BY DEF Inv, Typed, TypeOK, D, U
  <2>2. r.req # 0
    BY DEF Inv, Typed, Shaped, Pending, WellFormed
  <2> DEFINE A == {i \in DOMAIN down : down[i] = r}
             B == {t \in tasks : t.req = r.req}
             C == {i \in DOMAIN up : up[i].req = r.req}
             E == {n \in unseen : n = r.req}
  <2>3. \A i, j \in A : i = j
    BY <2>1, <2>2 DEF Inv, Tracked, Once
  <2>4. \A t \in B : t = r
    BY <2>2 DEF Inv, Tracked, Asking, Numbered
  <2>5. \A i, j \in C : i = j
    BY <2>1, <2>2 DEF Inv, Tracked, Once
  <2>6. (A # {} => B = {} /\ C = {}) /\ (C # {} => B = {})
    BY <2>1, <2>2 DEF Inv, Tracked, Apart
  <2>7. A # {} \/ B # {} \/ C # {} \/ E # {}
    BY <2>1 DEF Inv, NoneLost
  <2>12. (E # {} => A = {} /\ B = {} /\ C = {}) /\ \A m, n \in E : m = n
    BY <2>1 DEF Inv, Unseen
  <2>13. r.req \in unseen => Unanswerable(r)
    BY DEF Inv, Unseen
  <2> HIDE DEF A, B, C, E
  <2>8. ASSUME NEW S, \A i, j \in S : i = j
        PROVE  Cardinality(S) = IF S = {} THEN 0 ELSE 1
    <3>1. CASE S = {}
      BY <3>1, FS_EmptySet
    <3>2. CASE S # {}
      <4>1. PICK x : S = {x}
        BY <2>8, <3>2
      <4> QED BY <3>2, <4>1, FS_Singleton
    <3> QED BY <3>1, <3>2
  <2>9. \A i, j \in B : i = j
    BY <2>4
  <2>10. /\ Cardinality(A) = IF A = {} THEN 0 ELSE 1
         /\ Cardinality(B) = IF B = {} THEN 0 ELSE 1
         /\ Cardinality(C) = IF C = {} THEN 0 ELSE 1
         /\ Cardinality(E) = IF E = {} THEN 0 ELSE 1
    BY <2>3, <2>5, <2>8, <2>9, <2>12, Zenon
  <2>11. Cardinality(A) + Cardinality(B) + Cardinality(C) + Cardinality(E) = 1
    BY <2>6, <2>7, <2>10, <2>12
  <2> QED BY <2>11, <2>13 DEF A, B, C, E
<1> QED BY <1>1, Invariance, PTL

(* Every frame presented is under way, being shown, on its way back or     *)
(* acknowledged once.                                                      *)
THEOREM FramesAlwaysCounted == Spec => []FramesCounted
BY Invariance, PTL
=============================================================================
