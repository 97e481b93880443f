-------------------------------- MODULE Child --------------------------------
(***************************************************************************)
(* The leader: child_main from fork to execveat, then the program.  Every  *)
(* step of it is disabled once a fatal signal is pending.                  *)
(***************************************************************************)
EXTENDS Kernel

Setup(stage) == child = stage /\ ~doomed

\* Faulty: the next member of enum child_stage, whose order is not the order
\* of child_main and whose last member is no setup stage.
NextStage_Enum(stage) ==
    LET order == <<"process_group", "standard_streams", "mount_isolation",
                   "network_isolation", "working_directory", "capability_drop",
                   "containment", "resource_limits", "execute">>
    IN order[1 + CHOOSE i \in 1..8 : order[i] = stage]

\* The stage after the given one; the isolated ones are skipped on the host
\* backend, where child_configuration.isolation is null.
NextStage(stage) ==
    CASE stage = "process_group"     -> "standard_streams"
      [] stage = "standard_streams"  -> IF isolated THEN "mount_isolation"
                                                    ELSE "working_directory"
      [] stage = "mount_isolation"   -> "network_isolation"
      [] stage = "network_isolation" -> "working_directory"
      [] stage = "working_directory" -> IF isolated THEN "capability_drop"
                                                    ELSE "resource_limits"
      [] stage = "capability_drop"   -> "resource_limits"
      [] stage = "resource_limits"   -> "containment"
      [] stage = "containment"       -> "ready"

\* One setup stage succeeds.
ChildSetup ==
    /\ child \in SetupStages /\ ~doomed
    /\ child' = NextStage(child)
    /\ UNCHANGED <<requestVars, status, doomed, ran, groupVars, pipeVars,
                   requested, timerVars>>

\* A stage fails: report_child_error writes the record (one atomic pipe
\* write), then the leader goes on to _exit.
ReportChildError(stage) ==
    /\ record' = stage
    /\ child' = "exiting"
    /\ UNCHANGED <<requestVars, status, doomed, ran, groupVars, ready_byte,
                   start_byte, unread, writers, leak, requested, timerVars>>

ChildSetupFails ==
    /\ "setup" \in Faults
    /\ child \in SetupStages /\ ~doomed
    /\ ReportChildError(child)

\* The ready byte.  readyOpen: the supervisor still has the read end.
ChildReady(readyOpen) ==
    /\ Setup("ready")
    /\ IF readyOpen
         THEN ready_byte' = TRUE /\ child' = "gate"
         ELSE child' = "exiting" /\ UNCHANGED ready_byte
    /\ UNCHANGED <<requestVars, status, doomed, ran, groupVars, record,
                   start_byte, unread, writers, leak, requested, timerVars>>

\* The start gate: the byte opens it, end of file without a byte closes it.
\* startOpen: the supervisor still has the write end.
GateReturns(startOpen) == start_byte \/ (~startOpen /\ "start" \notin leak)

\* Faulty: the result of the read is not compared with one.
GatePassed_AnyRead(startOpen) == GateReturns(startOpen)

GatePassed(startOpen) == start_byte

ChildGate(startOpen) ==
    /\ Setup("gate")
    /\ GateReturns(startOpen)
    /\ start_byte' = FALSE
    /\ child' = IF GatePassed(startOpen) THEN "preexec" ELSE "exiting"
    /\ UNCHANGED <<requestVars, status, doomed, ran, groupVars, record,
                   ready_byte, unread, writers, leak, requested, timerVars>>

\* execveat of the admitted interpreter descriptor.
ChildExec ==
    /\ Setup("preexec")
    /\ child' = "program"
    /\ ran' = TRUE
    /\ writers' = IF capture THEN {"leader"} ELSE {}
    /\ UNCHANGED <<requestVars, status, doomed, groupVars, record, ready_byte,
                   start_byte, unread, leak, requested, timerVars>>

ChildExecFails ==
    /\ "exec" \in Faults
    /\ Setup("preexec")
    /\ ReportChildError("execute")

Exit(how) ==
    /\ child' = "zombie"
    /\ status' = how
    /\ doomed' = FALSE
    /\ writers' = writers \ {"leader"}
    /\ UNCHANGED <<requestVars, ran, groupVars, record, ready_byte, start_byte,
                   unread, leak, requested, timerVars>>

\* _exit(125) or _exit(127).
ChildExit == Setup("exiting") /\ Exit("nonzero")

\* The pending fatal signal is taken.
ChildDies == doomed /\ child \in Alive /\ Exit("signal")

\* The program ends by itself: it returns a status or raises a signal.
ProgramExits ==
    /\ Setup("program")
    /\ \E how \in {"zero", "nonzero", "signal"} : Exit(how)

ProgramForks  == Setup("program") /\ ForkedBy("leader")
ProgramWrites == Setup("program") /\ WrittenBy("leader")
ProgramCloses == Setup("program") /\ ClosedBy("leader")

\* The leader's own progress up to the program.
ChildMain(readyOpen, startOpen) ==
    \/ ChildSetup \/ ChildSetupFails
    \/ ChildReady(readyOpen)
    \/ ChildGate(startOpen)
    \/ ChildExec \/ ChildExecFails
    \/ ChildExit
    \/ ChildDies

Program == ProgramExits \/ ProgramForks \/ ProgramWrites \/ ProgramCloses
=============================================================================
