----------------------------- MODULE JobContract -----------------------------
(***************************************************************************)
(* What the job system promises its user about the rows of a namespace,    *)
(* whichever program writes them.  A job is in one of seven stages:        *)
(*                                                                         *)
(*   none       no row bears the id                                        *)
(*   waiting    QUEUED                                                     *)
(*   held       HELD                                                       *)
(*   active     DISPATCHING, DISPATCHED, RUNNING                           *)
(*   done       SUCCEEDED, FAILED                                          *)
(*   cancelled  CANCELLED                                                  *)
(*   resetting  DELETING                                                   *)
(*                                                                         *)
(* The promises: an outcome is final, a cancellation is final, a row goes  *)
(* away only after its job has ended, ids are handed out in order, and a   *)
(* reset takes the namespace as a whole, never part of it.                 *)
(***************************************************************************)
EXTENDS Naturals

CONSTANT MaxJobs

Ids == 1..MaxJobs

VARIABLES
    stage,   \* stage of each id
    next     \* the id of the next submission

Stages == {"none", "waiting", "held", "active", "done", "cancelled", "resetting"}
Open   == {"waiting", "held", "active"}
Ended  == {"done", "cancelled"}

ContractInit ==
    /\ stage = [j \in Ids |-> "none"]
    /\ next = 1

Submit ==
    /\ next \in Ids
    /\ \A j \in Ids : stage[j] # "resetting"
    /\ stage[next] = "none"
    /\ stage' = [stage EXCEPT ![next] = "waiting"]
    /\ next' = next + 1

\* The programs write several rows in one transaction.
Progress ==
    /\ stage' \in [Ids -> Stages]
    /\ \A j \in Ids : \/ stage'[j] = stage[j]
                      \/ stage[j] \in Open /\ stage'[j] \in Open \cup Ended
    /\ UNCHANGED next

Delete(j) ==
    /\ stage[j] \in Ended
    /\ stage' = [stage EXCEPT ![j] = "none"]
    /\ UNCHANGED next

Reset ==
    /\ \A j \in Ids : stage[j] \notin Open
    /\ stage' = [j \in Ids |-> IF stage[j] \in Ended THEN "resetting" ELSE stage[j]]
    /\ UNCHANGED next

\* The reset ends: every row has gone and numbering starts again.
Wipe ==
    /\ \E j \in Ids : stage[j] = "resetting"
    /\ \A j \in Ids : stage[j] \in {"none", "resetting"}
    /\ stage' = [j \in Ids |-> "none"]
    /\ next' = 1

ContractNext ==
    \/ Submit
    \/ Progress
    \/ \E j \in Ids : Delete(j)
    \/ Reset
    \/ Wipe

ContractSpec == ContractInit /\ [][ContractNext]_<<stage, next>>

-----------------------------------------------------------------------------
\* Where an open job goes when nothing fails: it is dispatched before it runs
\* or ends, and never while it is held.
Moves(s) ==
    CASE s = "waiting" -> {"waiting", "held", "active", "cancelled"}
      [] s = "held"    -> {"held", "waiting", "cancelled"}
      [] s = "active"  -> {"active", "waiting", "done", "cancelled"}

InOrder == \A j \in Ids : stage[j] \in Open => stage'[j] \in Moves(stage[j])

=============================================================================
