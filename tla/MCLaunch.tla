------------------------------ MODULE MCLaunch ------------------------------
(***************************************************************************)
(* Values for the constants of Launch.                                     *)
(***************************************************************************)
EXTENDS Launch

Setup(available, requested, inherited) ==
    [close_range |-> available, open_files |-> requested, soft |-> inherited]

\* With close_range, and with the loop in its place, which an inherited limit cuts
\* short and a requested limit of 0 does not.
Any == {Setup(TRUE, 5, 17), Setup(FALSE, None, 17), Setup(FALSE, 0, 20)}

\* The loop after the limit was lowered by the request.
Fallback == {Setup(FALSE, 5, 20)}

\* Every two of the three policies in every combination.
Paired ==
    {p \in Policies : p.stdin = "closed" <=> p.stdout = p.stderr}

\* All of them, or none, so that the execution is given their numbers.
SomeStandards == {{}, 0..2}

\* Numbers below those of the execution, which the control pipe has if they are
\* closed just before it is made; or one above the lowered inherited limit.
SomeOthers == {{3, 4}, {17}}
=============================================================================
