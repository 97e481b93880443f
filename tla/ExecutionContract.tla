-------------------------- MODULE ExecutionContract --------------------------
(***************************************************************************)
(* What one execution promises its caller, without pipes, signals or       *)
(* supervision: a leader is created at most once, executes the program at  *)
(* most once, and is reaped; then, and not before, one answer is given     *)
(* that tells the truth about the execution and about cancellation.        *)
(***************************************************************************)
CONSTANTS
    NotStarted,     \* answers that say the program was not executed
    Started,        \* answers that say it was
    Cancelled       \* answers that blame a cancellation request

VARIABLES
    requested,      \* cancellation has been requested
    leader,         \* "none", "present" or "reaped"
    ran,            \* the program has been executed
    answer          \* "none" until the execution is over

vars == <<requested, leader, ran, answer>>

Init == requested = FALSE /\ leader = "none" /\ ran = FALSE /\ answer = "none"

\* Cancellation may be requested at any time, even too late.
Request ==
    /\ ~requested
    /\ requested' = TRUE
    /\ UNCHANGED <<leader, ran, answer>>

Create ==
    /\ leader = "none" /\ answer = "none"
    /\ leader' = "present"
    /\ UNCHANGED <<requested, ran, answer>>

Execute ==
    /\ leader = "present" /\ ~ran
    /\ ran' = TRUE
    /\ UNCHANGED <<requested, leader, answer>>

Reap ==
    /\ leader = "present"
    /\ leader' = "reaped"
    /\ UNCHANGED <<requested, ran, answer>>

Truthful(a) ==
    /\ a \in NotStarted \cup Started
    /\ a \in NotStarted => ~ran
    /\ a \in Started => ran
    /\ a \in Cancelled => requested

\* A leader that is still there is reaped with the answer, not after it.
Answer ==
    /\ answer = "none"
    /\ Truthful(answer')
    /\ leader' = IF leader = "none" THEN "none" ELSE "reaped"
    /\ UNCHANGED <<requested, ran>>

Next == Request \/ Create \/ Execute \/ Reap \/ Answer

Spec == Init /\ [][Next]_vars
=============================================================================
