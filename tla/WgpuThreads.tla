------------------------------ MODULE WgpuThreads ------------------------------
(***************************************************************************)
(* The threads of a Rust server and what they block on: the re-entrant C   *)
(* lock (CLock), the progress counter of the runtime, and the mutexes of   *)
(* the wgpu crate (rust/wgpu/src/api.rs).  A call is the sequence of locks *)
(* it takes and gives back; code[t] is what thread t has still to do.      *)
(*                                                                         *)
(* The reader holds the C lock while it handles a message; callbacks of    *)
(* the application, which may take a mutex of its own, run on a thread of  *)
(* their own.  That, and the order in which the mutexes are taken, is what *)
(* keeps the threads from waiting for each other.                          *)
(***************************************************************************)
EXTENDS Integers, Sequences, FiniteSets, SequencesExt

CONSTANTS
    AppThreads, Reader, Callbacks,  \* the threads
    NoThread,
    ReplacesHandler,    \* the application sets a device's error handler again
    MaxCalls,           \* bound on the calls of the application
    MaxEvents           \* bound on the messages that answer no request

Threads == AppThreads \cup {Reader, Callbacks}
Mutexes == {"app", "surfaces", "handlers"}

ASSUME WgpuThreadsAssumption ==
    /\ Reader # Callbacks /\ {Reader, Callbacks} \cap AppThreads = {}
    /\ NoThread \notin Threads
    /\ ReplacesHandler \in BOOLEAN /\ MaxCalls \in Nat /\ MaxEvents \in Nat

VARIABLES
    code,       \* what each thread has still to do
    owner,      \* CLock.owner: the thread, or NoThread
    depth,      \* CLock.owner: how often it holds the lock
    queued,     \* threads asleep on CLock.cond
    held,       \* who holds each other mutex
    sleepers,   \* threads asleep on Runtime.progress_cond
    pending,    \* requests the client owes an answer, oldest first
    callbacks,  \* the channel of the callback thread
    done,       \* the threads whose poll future is complete
    severed,    \* wgpuRemoteAdapterDisconnect has been called
    handler,    \* the device has an uncaptured-error handler
    calls, events   \* history: calls made, unsolicited messages received

clock == <<owner, depth, queued>>
requestVars == <<pending, callbacks, done, severed>>
bounds == <<calls, events>>
vars == <<code, clock, held, sleepers, requestVars, handler, bounds>>

Lock(m) == [do |-> "lock", on |-> m]
Unlock(m) == [do |-> "unlock", on |-> m]
Do(what) == [do |-> what, on |-> "c"]
Under(m, instructions) == <<Lock(m)>> \o instructions \o <<Unlock(m)>>

Init ==
    /\ code = [t \in Threads |-> <<>>]
    /\ owner = NoThread
    /\ depth = 0
    /\ queued = {}
    /\ held = [m \in Mutexes |-> NoThread]
    /\ sleepers = {}
    /\ pending = <<>>
    /\ callbacks = <<>>
    /\ done = {}
    /\ severed = FALSE
    /\ handler = FALSE
    /\ calls = 0
    /\ events = 0

Instruction(t) == Head(code[t])
At(t, what) == code[t] # <<>> /\ Instruction(t).do = what
Continue(t) == code' = [code EXCEPT ![t] = Tail(@)]

-----------------------------------------------------------------------------
(* Faulty variants of definitions below, each a bug the code could have.   *)
(* No specification uses them; they show which property would notice.      *)

\* The first guard dropped frees the lock, nested or not.
FreesEarly(t) ==
    /\ At(t, "unlock") /\ Instruction(t).on = "c"
    /\ Continue(t)
    /\ depth' = depth - 1
    /\ owner' = NoThread
    /\ \E woken \in SUBSET queued : Cardinality(woken) <= 1 /\ queued' = queued \ woken
    /\ UNCHANGED <<held, sleepers, requestVars, handler, bounds>>

\* The lock is freed and nobody is told.
FreesQuietly(t) ==
    /\ At(t, "unlock") /\ Instruction(t).on = "c"
    /\ Continue(t)
    /\ depth' = depth - 1
    /\ owner' = IF depth' = 0 THEN NoThread ELSE owner
    /\ UNCHANGED <<queued, held, sleepers, requestVars, handler, bounds>>

\* The reader runs the callback where the reply arrives.
AnswersInline(t) ==
    /\ At(t, "answer")
    /\ code' = [code EXCEPT ![t] = Under("app", <<>>) \o Tail(@)]
    /\ \E i \in DOMAIN pending : pending' = RemoveAt(pending, i)
    /\ UNCHANGED <<clock, held, sleepers, callbacks, done, severed, handler, bounds>>

\* wait_until trusts the notification.
WaitsForEver == FALSE /\ UNCHANGED vars

\* The request of a severed adapter is queued like any other.
RequestsBlindly(t, r) ==
    /\ At(t, r)
    /\ Continue(t)
    /\ pending' = Append(pending, [of |-> t, kind |-> r])
    /\ done' = done \ {t}
    /\ UNCHANGED <<clock, held, sleepers, callbacks, severed, handler, bounds>>

-----------------------------------------------------------------------------
(* What each call does, in the order it does it.                           *)

SurfaceCall == Under("surfaces", Under("c", <<>>))
MapAsync == Under("c", <<Do("user")>>)
Submit == Under("c", MapAsync)
Poll == Under("c", <<>>) \o Under("c", <<Do("poll")>>) \o Under("c", <<>>) \o <<Do("wait")>>
\* A handler may own anything, a device for instance: to drop it takes the lock.
DropHandler == Under("c", <<>>)
OnUncapturedError == Under("handlers", <<Do("register")>>)
DropDevice == Under("c", Under("handlers", <<Do("forget")>>))
\* A render system that draws with a mutex of the application held.
Draw == Under("app", Under("c", <<>>))

\* A callback of the application: it may lock what it likes.
UserCallback == Draw \o <<Do("notify")>>
PollCallback(t) == <<[do |-> "complete", on |-> t], Do("notify")>>

Reply == Under("c", <<Do("answer")>>) \o <<Do("notify")>>
VsyncDone == Under("c", <<Do("notify")>>) \o <<Do("notify")>>
UncapturedError == Under("c", Under("handlers", <<>>) \o <<Do("report")>>) \o <<Do("notify")>>
MarkDisconnected == Under("c", <<Do("sever")>>) \o <<Do("notify")>>

-----------------------------------------------------------------------------
\* Poll and on_uncaptured_error borrow the device.  It is dropped with the last
\* reference to it, so by nobody while another thread borrows it; calls made
\* after that are to the device the application requests next.
Borrows(u) ==
    code[u] # <<>> /\ Last(code[u]) \in {Do("wait"), Do("sleep"), Do("asleep"), Unlock("handlers")}
Drops(u) == Contains(code[u], Unlock("handlers")) /\ Last(code[u]) = Unlock("c")

Call(t) ==
    /\ code[t] = <<>>
    /\ calls < MaxCalls
    /\ calls' = calls + 1
    /\ \E op \in {SurfaceCall, MapAsync, Submit, Draw, Poll, OnUncapturedError, DropDevice} :
          /\ code' = [code EXCEPT ![t] = op]
          /\ op \in {Poll, OnUncapturedError, DropDevice} => \A u \in AppThreads : ~Drops(u)
          /\ op = DropDevice => \A u \in AppThreads : ~Borrows(u)
          /\ op = OnUncapturedError =>
                \/ ReplacesHandler
                \/ ~handler /\ \A u \in Threads : ~Contains(code[u], Do("register"))
    /\ UNCHANGED <<clock, held, sleepers, requestVars, handler, events>>

\* The reader thread handles an envelope, or the end of the connection.
ReaderReceives ==
    /\ code[Reader] = <<>>
    /\ ~severed
    /\ \/ /\ pending # <<>>
          /\ code' = [code EXCEPT ![Reader] = Reply]
          /\ UNCHANGED events
       \/ /\ events < MaxEvents
          /\ events' = events + 1
          /\ \E m \in {VsyncDone, UncapturedError, MarkDisconnected} :
                code' = [code EXCEPT ![Reader] = m]
    /\ UNCHANGED <<clock, held, sleepers, requestVars, handler, calls>>

CallbackThread ==
    /\ code[Callbacks] = <<>>
    /\ callbacks # <<>>
    /\ callbacks' = Tail(callbacks)
    /\ code' = [code EXCEPT ![Callbacks] = IF Head(callbacks).kind = "poll"
                                          THEN PollCallback(Head(callbacks).of)
                                          ELSE UserCallback]
    /\ UNCHANGED <<clock, held, sleepers, pending, done, severed, handler, bounds>>

-----------------------------------------------------------------------------
(* CLock: whoever finds it taken sleeps until a guard wakes it, and looks  *)
(* again; another thread may have been faster.                             *)

CLockAcquire(t) ==
    /\ At(t, "lock") /\ Instruction(t).on = "c"
    /\ t \notin queued
    /\ IF owner \in {NoThread, t}
       THEN /\ owner' = t
            /\ depth' = depth + 1
            /\ Continue(t)
            /\ UNCHANGED queued
       ELSE /\ queued' = queued \cup {t}
            /\ UNCHANGED <<owner, depth, code>>
    /\ UNCHANGED <<held, sleepers, requestVars, handler, bounds>>

CLockDrop(t) ==
    /\ At(t, "unlock") /\ Instruction(t).on = "c"
    /\ Continue(t)
    /\ depth' = depth - 1
    /\ IF depth' = 0
       THEN /\ owner' = NoThread
            /\ IF queued = {} THEN UNCHANGED queued
               ELSE \E woken \in queued : queued' = queued \ {woken}
       ELSE UNCHANGED <<owner, queued>>
    /\ UNCHANGED <<held, sleepers, requestVars, handler, bounds>>

MutexLock(t) ==
    /\ At(t, "lock") /\ Instruction(t).on # "c"
    /\ held[Instruction(t).on] = NoThread
    /\ held' = [held EXCEPT ![Instruction(t).on] = t]
    /\ Continue(t)
    /\ UNCHANGED <<clock, sleepers, requestVars, handler, bounds>>

MutexUnlock(t) ==
    /\ At(t, "unlock") /\ Instruction(t).on # "c"
    /\ held' = [held EXCEPT ![Instruction(t).on] = NoThread]
    /\ Continue(t)
    /\ UNCHANGED <<clock, sleepers, requestVars, handler, bounds>>

-----------------------------------------------------------------------------
(* The effects between the locks.                                          *)

\* A severed adapter fails the request at once, inside the call.
Request(t, r) ==
    /\ At(t, r)
    /\ Continue(t)
    /\ LET request == [of |-> t, kind |-> r] IN
          IF severed
          THEN callbacks' = Append(callbacks, request) /\ UNCHANGED pending
          ELSE pending' = Append(pending, request) /\ UNCHANGED callbacks
    /\ done' = done \ {t}
    /\ UNCHANGED <<clock, held, sleepers, severed, handler, bounds>>

\* The client answers in the order its promises settle.
AnswerRequest(t) ==
    /\ At(t, "answer")
    /\ Continue(t)
    /\ \E i \in DOMAIN pending :
          /\ pending' = RemoveAt(pending, i)
          /\ callbacks' = Append(callbacks, pending[i])
    /\ UNCHANGED <<clock, held, sleepers, done, severed, handler, bounds>>

ReportError(t) ==
    /\ At(t, "report")
    /\ Continue(t)
    /\ callbacks' = IF handler THEN Append(callbacks, [of |-> t, kind |-> "user"])
                    ELSE callbacks
    /\ UNCHANGED <<clock, held, sleepers, pending, done, severed, handler, bounds>>

\* The library abandons its requests newest first.
Sever(t) ==
    /\ At(t, "sever")
    /\ Continue(t)
    /\ severed' = TRUE
    /\ pending' = <<>>
    /\ callbacks' = callbacks \o Reverse(pending)
    /\ UNCHANGED <<clock, held, sleepers, done, handler, bounds>>

\* insert returns the handler it replaces, which is dropped on the spot.
Register(t) ==
    /\ At(t, "register")
    /\ code' = [code EXCEPT ![t] = (IF handler THEN DropHandler ELSE <<>>) \o Tail(@)]
    /\ handler' = TRUE
    /\ UNCHANGED <<clock, held, sleepers, requestVars, bounds>>

\* The handler of a device that goes is dropped when all locks are given back.
Forget(t) ==
    /\ At(t, "forget")
    /\ code' = [code EXCEPT ![t] = Tail(@) \o (IF handler THEN DropHandler ELSE <<>>)]
    /\ handler' = FALSE
    /\ UNCHANGED <<clock, held, sleepers, requestVars, bounds>>

Complete(t) ==
    /\ At(t, "complete")
    /\ Continue(t)
    /\ done' = done \cup {Instruction(t).on}
    /\ UNCHANGED <<clock, held, sleepers, pending, callbacks, severed, handler, bounds>>

Notify(t) ==
    /\ At(t, "notify")
    /\ Continue(t)
    /\ sleepers' = {}
    /\ UNCHANGED <<clock, held, requestVars, handler, bounds>>

-----------------------------------------------------------------------------
(* wait_until: the predicate is tested before the progress lock is taken.  *)
(* Its pc is the instruction: "wait" tests, "sleep" goes to sleep.         *)

TestPredicate(t) ==
    /\ At(t, "wait")
    /\ code' = [code EXCEPT ![t] = IF t \in done THEN Tail(@) ELSE <<Do("sleep")>> \o Tail(@)]
    /\ UNCHANGED <<clock, held, sleepers, requestVars, handler, bounds>>

GoToSleep(t) ==
    /\ At(t, "sleep")
    /\ sleepers' = sleepers \cup {t}
    /\ code' = [code EXCEPT ![t] = <<Do("asleep")>> \o Tail(@)]
    /\ UNCHANGED <<clock, held, requestVars, handler, bounds>>

WakeUp(t) ==
    /\ At(t, "asleep")
    /\ t \notin sleepers
    /\ code' = [code EXCEPT ![t] = <<Do("wait")>> \o Tail(@)]
    /\ UNCHANGED <<clock, held, sleepers, requestVars, handler, bounds>>

\* 100 ms are over.
Timeout ==
    /\ \E t \in sleepers : sleepers' = sleepers \ {t}
    /\ UNCHANGED <<code, clock, held, requestVars, handler, bounds>>

-----------------------------------------------------------------------------
Step(t) ==
    \/ CLockAcquire(t) \/ CLockDrop(t) \/ MutexLock(t) \/ MutexUnlock(t)
    \/ Request(t, "user") \/ Request(t, "poll") \/ AnswerRequest(t) \/ ReportError(t)
    \/ Sever(t) \/ Register(t) \/ Forget(t) \/ Complete(t) \/ Notify(t)
    \/ TestPredicate(t) \/ GoToSleep(t) \/ WakeUp(t)

Next ==
    \/ \E t \in AppThreads : Call(t)
    \/ ReaderReceives \/ CallbackThread
    \/ \E t \in Threads : Step(t)
    \/ Timeout

Spec == Init /\ [][Next]_vars

(* Threads run on, the timeout of a wait comes, and the client answers its *)
(* requests or hangs up: poll waits for as long as it does neither.  No    *)
(* fairness between threads that compete for a lock is needed: the calls   *)
(* and events are bounded.                                                 *)
FairSpec ==
    /\ Spec
    /\ \A t \in Threads : WF_vars(Step(t))
    /\ WF_vars(CallbackThread) /\ WF_vars(ReaderReceives) /\ WF_vars(Timeout)

-----------------------------------------------------------------------------
(* Properties.                                                             *)

Instructions ==
    [do : {"lock", "unlock"}, on : Mutexes \cup {"c"}]
    \cup [do : {"user", "poll", "wait", "sleep", "asleep", "register", "forget", "notify",
                "answer", "report", "sever"}, on : {"c"}]
    \cup [do : {"complete"}, on : AppThreads]
Requests == [of : Threads, kind : {"user", "poll"}]

(* Every variable has its type.  In particular what a severed adapter is   *)
(* asked for is not left pending: nobody would ever answer it.             *)
TypeOK ==
    /\ code \in [Threads -> Seq(Instructions)]
    /\ owner \in Threads \cup {NoThread} /\ depth \in Nat
    /\ queued \subseteq Threads /\ sleepers \subseteq AppThreads
    /\ held \in [Mutexes -> Threads \cup {NoThread}]
    /\ pending \in Seq(Requests) /\ callbacks \in Seq(Requests)
    /\ done \subseteq AppThreads /\ {severed, handler} \subseteq BOOLEAN
    /\ severed => pending = <<>>

\* How many guards of the C lock thread t has yet to drop.
Guards(t) == Cardinality({i \in DOMAIN code[t] : code[t][i] = Unlock("c")})
             - Cardinality({i \in DOMAIN code[t] : code[t][i] = Lock("c")})

(* The C lock belongs to the one thread that has guards of it, however     *)
(* deeply its calls are nested, and is free when the last one is dropped.  *)
OwnedByItsGuards ==
    /\ \A t \in Threads : Guards(t) = IF owner = t THEN depth ELSE 0
    /\ (owner = NoThread) = (depth = 0)

(* A guard that frees the lock wakes one of the threads asleep on it: the  *)
(* lock is never free with all who want it asleep.                         *)
SleepersAreWoken ==
    owner = NoThread /\ queued # {} =>
        \E t \in Threads \ queued : At(t, "lock") /\ Instruction(t).on = "c"

WaitsFor(t, u) ==
    At(t, "lock") /\ u # t /\ u = IF Instruction(t).on = "c" THEN owner
                                  ELSE held[Instruction(t).on]

(* No threads wait for each other in a cycle.                              *)
NoWaitCycle ==
    \A S \in (SUBSET Threads) \ {{}} : \E t \in S : \A u \in S : ~WaitsFor(t, u)

(* Every call returns: a lock is given back in the end, and a poll that    *)
(* waits for the work it asked about sees it done, though the notification *)
(* may come between its test and its sleep.                                *)
CallsReturn == \A t \in AppThreads : (code[t] # <<>>) ~> (code[t] = <<>>)
=============================================================================
