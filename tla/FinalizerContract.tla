------------------------- MODULE FinalizerContract -------------------------
(***************************************************************************)
(* What Node-API promises the author of a finalizer, without any of the    *)
(* machinery: a registered finalizer is called at most once; it may be     *)
(* cancelled instead (its reference was deleted, the wrap was removed, the *)
(* instance data was replaced); and an environment is not gone before each *)
(* of its finalizers has been called or cancelled, or detached: what       *)
(* outlives the environment, the characters of an external string, has its *)
(* finalizer called later, without an environment.                         *)
(***************************************************************************)
CONSTANT Tracker

VARIABLES
    status,  \* of each finalizer
    alive    \* the environment exists

contractVars == <<status, alive>>

Status == {"none", "armed", "called", "cancelled", "detached"}

ContractInit ==
    /\ status = [t \in Tracker |-> "none"]
    /\ alive = TRUE

\* A call may register a new finalizer and cancel others in one step
\* (napi_set_instance_data does both).
Register(t, dropped) ==
    /\ alive
    /\ status[t] = "none"
    /\ \A u \in dropped : status[u] = "armed"
    /\ status' = [u \in Tracker |-> IF u = t THEN "armed"
                                    ELSE IF u \in dropped THEN "cancelled"
                                    ELSE status[u]]
    /\ UNCHANGED alive

Call(t) ==
    /\ status[t] = "detached" \/ (alive /\ status[t] = "armed")
    /\ status' = [status EXCEPT ![t] = "called"]
    /\ UNCHANGED alive

Cancel(t) ==
    /\ alive
    /\ status[t] = "armed"
    /\ status' = [status EXCEPT ![t] = "cancelled"]
    /\ UNCHANGED alive

Detach(t) ==
    /\ alive
    /\ status[t] = "armed"
    /\ status' = [status EXCEPT ![t] = "detached"]
    /\ UNCHANGED alive

End ==
    /\ alive
    /\ \A t \in Tracker : status[t] # "armed"
    /\ alive' = FALSE
    /\ UNCHANGED status

ContractNext ==
    \/ \E t \in Tracker, dropped \in SUBSET Tracker : Register(t, dropped)
    \/ \E t \in Tracker : Call(t)
    \/ \E t \in Tracker : Cancel(t)
    \/ \E t \in Tracker : Detach(t)
    \/ End

ContractSpec == ContractInit /\ [][ContractNext]_contractVars
=============================================================================
