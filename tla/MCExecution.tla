----------------------------- MODULE MCExecution -----------------------------
(***************************************************************************)
(* Values for the constants of Execution.                                  *)
(***************************************************************************)
EXTENDS ExecutionRefinement

NoLeaks == {{}}

\* No pipe leaked, or all of them.
NoneOrAll == {{}, PipeEnds}

\* All but the two that leave the supervisor without the truth.
HonestFaults == FaultKinds \ {"kill", "control_read"}
=============================================================================
