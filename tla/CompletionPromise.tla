-------------------------- MODULE CompletionPromise --------------------------
(***************************************************************************)
(* What the library promises of every asynchronous command, whatever       *)
(* object it is about and whatever way it ends: its callback is called     *)
(* exactly once, and once the adapter is severed every pending one is      *)
(* called in the end.                                                      *)
(***************************************************************************)
CONSTANT Ids

VARIABLES status, severed
vars == <<status, severed>>

Init ==
    /\ status = [id \in Ids |-> "unissued"]
    /\ severed = FALSE

Move(id, from, to) ==
    /\ status[id] = from
    /\ status' = [status EXCEPT ![id] = to]
    /\ UNCHANGED severed

Issue(id) == Move(id, "unissued", "pending")

Call(id) == Move(id, "pending", "called")

\* On a severed adapter a command may be called on the spot.
Refuse(id) == severed /\ Move(id, "unissued", "called")

Sever == severed' = TRUE /\ UNCHANGED status

Next == Sever \/ \E id \in Ids : Issue(id) \/ Call(id) \/ Refuse(id)

Safe == Init /\ [][Next]_vars

Drains == \A id \in Ids : (severed /\ status[id] = "pending") ~> status[id] = "called"

Spec == Safe /\ Drains
=============================================================================
