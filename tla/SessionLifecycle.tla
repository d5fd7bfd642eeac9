-------------------------- MODULE SessionLifecycle --------------------------
(***************************************************************************)
(* What the session actor promises to the two sides of a transfer, without *)
(* files, tokens, events or messages.  A session is asked for, runs and is *)
(* over, once each and in this order; a peer that offers files waits for   *)
(* an answer and gets exactly one, no later than the end of its session;   *)
(* and no more than Capacity incoming sessions are alive at once.          *)
(***************************************************************************)
EXTENDS Naturals, FiniteSets

CONSTANTS Ids, Capacity

VARIABLES
    stage,     \* id -> "none", "waiting", "running" or "over"
    incoming,  \* id -> whether a peer offered the files
    answer     \* id -> "unasked", "awaited", "yes" or "no"

lifecycleVars == <<stage, incoming, answer>>

Alive(id) == stage[id] \in {"waiting", "running"}

Load == Cardinality({id \in Ids : incoming[id] /\ Alive(id)})

Move(id, from, to) ==
    /\ stage[id] \in from
    /\ stage' = [stage EXCEPT ![id] = to]

(* A peer offers files. *)
Offer(id) ==
    /\ Load < Capacity
    /\ Move(id, {"none"}, "waiting")
    /\ incoming' = [incoming EXCEPT ![id] = TRUE]
    /\ answer' = [answer EXCEPT ![id] = "awaited"]

(* The user sends files. *)
Dispatch(id) ==
    /\ Move(id, {"none"}, "waiting")
    /\ UNCHANGED <<incoming, answer>>

(* The answer to an offer; a granted offer with nothing to wait for is     *)
(* over at once.                                                           *)
Grant(id) ==
    /\ answer[id] = "awaited"
    /\ \E to \in {"running", "over"} : Move(id, {"waiting"}, to)
    /\ answer' = [answer EXCEPT ![id] = "yes"]
    /\ UNCHANGED incoming

Refuse(id) ==
    /\ answer[id] = "awaited"
    /\ Move(id, {"waiting"}, "over")
    /\ answer' = [answer EXCEPT ![id] = "no"]
    /\ UNCHANGED incoming

(* An outgoing session begins to move files. *)
Begin(id) ==
    /\ ~incoming[id]
    /\ Move(id, {"waiting"}, "running")
    /\ UNCHANGED <<incoming, answer>>

(* A session whose peer does not wait for an answer ends, well or badly. *)
End(id) ==
    /\ answer[id] # "awaited"
    /\ Move(id, {"waiting", "running"}, "over")
    /\ UNCHANGED <<incoming, answer>>

LifecycleInit ==
    /\ stage = [id \in Ids |-> "none"]
    /\ incoming = [id \in Ids |-> FALSE]
    /\ answer = [id \in Ids |-> "unasked"]

LifecycleNext ==
    \E id \in Ids : \/ Offer(id)
                    \/ Dispatch(id)
                    \/ Grant(id)
                    \/ Refuse(id)
                    \/ Begin(id)
                    \/ End(id)

LifecycleSpec == LifecycleInit /\ [][LifecycleNext]_lifecycleVars
=============================================================================
