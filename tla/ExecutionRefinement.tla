------------------------- MODULE ExecutionRefinement -------------------------
(***************************************************************************)
(* execute_backend implements the contract of an execution.                *)
(***************************************************************************)
EXTENDS Execution

CancelledResults == {"cancelled_before_start", "cancelled_after_start"}

\* The leader as the contract sees it.
LeaderSeen == CASE child = "none"   -> "none"
                [] child = "reaped" -> "reaped"
                [] OTHER            -> "present"

Contract ==
    INSTANCE ExecutionContract WITH
        NotStarted <- NotStartedResults,
        Started    <- StartedResults,
        Cancelled  <- CancelledResults,
        leader     <- LeaderSeen,
        answer     <- result

\* Every step of the supervisor, the leader, the program and the environment is
\* one of the contract's or invisible to the caller: one answer, given when no
\* leader is left, never revised, true about the program's execution, and
\* blaming a cancellation only if one was requested.
ImplementsContract == Contract!Spec

\* A cancellation the supervisor has observed, signaled or reported has been
\* requested.
RequestInv ==
    /\ cancellation_observed \/ cancellation_signal_delivered => requested
    /\ result \in CancelledResults => requested
=============================================================================
