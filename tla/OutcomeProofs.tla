---------------------------- MODULE OutcomeProofs ---------------------------
(***************************************************************************)
(* What execute_backend tells its caller is true: a program that is        *)
(* reported as not started was not executed, one that is reported as       *)
(* started was, and every step keeps the contract of an execution.         *)
(***************************************************************************)
EXTENDS ExecutionProofs, ExecutionRefinement

(***************************************************************************)
(* Not started.                                                            *)
(***************************************************************************)
\* A step of execute_backend keeps ConfirmInv: without read errors on the control
\* pipe, what it has not confirmed has not happened.
LEMMA ConfirmStep ==
    ASSUME "control_read" \notin Faults, SafetyInv, ConfirmInv, Supervise
    PROVE  ConfirmInv'
<1>0. TypeOK /\ FlowInv /\ LeaderInv
  BY Zenon DEF SafetyInv
<1> USE DEF ConfirmInv
<1>1. ASSUME pc \in LoopLabels, pc' \in LoopLabels,
             UNCHANGED <<child, ran, record, control_open, control_got,
                         exec_confirmed, result>>
      PROVE  ConfirmInv'
  BY Zenon, <1>1, LoopIsApart
<1>2. CASE \/ CheckProfile
           \/ CancelCheck("cancel_1", "admission")
           \/ AdmitResources
           \/ CancelCheck("cancel_2", "interpreter")
           \/ AdmitInterpreter
           \/ CancelCheck("cancel_3", "pipes")
           \/ MakePipes
  BY <1>0, <1>2, AdmissionShape, LoopIsApart
     DEF FlowInv, LeaderInv, LadderLabels, leaderVars, loopVars, flowVars
<1>3. CASE Fork
  <2>1. pc = "fork" /\ UNCHANGED <<record, ran, loopVars>>
    BY Zenon, <1>3 DEF Fork, Refuse, Ladder, leaderVars
  <2>2. record = "none" /\ control_got = "none" /\ ~ran /\ control_open
    BY Zenon, <1>0, <2>1 DEF LeaderInv, LadderLabels
  <2>3. \/ pc' = "done"
        \/ pc' \in {"pidfd", "exit"} /\ UNCHANGED <<control_open, result>>
    BY Zenon, <1>3 DEF Fork, Refuse, Return, Advance, endVars, resultVars
  <2> QED BY <2>1, <2>2, <2>3, LoopIsApart, Zenon DEF loopVars, flowVars
<1>4. CASE OpenPidfd
  <2>1. pc = "pidfd" /\ pc' \in {"exit", "pidfd_failed"}
    BY Zenon, <1>4, PidfdShape
  <2>2. UNCHANGED <<child, ran, record, control_open, result, flowVars>>
    BY Zenon, <1>4, PidfdShape DEF pipeVars, resultVars
  <2> QED BY Zenon, <2>1, <2>2, LoopIsApart DEF flowVars
<1>5. CASE PidfdFailed
  <2>1. pc = "pidfd_failed" /\ pc' = "done" /\ child' = "reaped"
        /\ UNCHANGED <<ran, record, loopVars>>
    BY Zenon, <1>5 DEF PidfdFailed, Ladder, Return
  <2>2. ~ran
    BY Zenon, <1>0, <2>1 DEF SafetyInv, GateInv, FlowInv, PidfdLabels
  <2> QED BY Zenon, <2>1, <2>2, LoopIsApart DEF loopVars, flowVars
<1>6. CASE ObserveChildExit
  BY Zenon, <1>1, <1>6, LabelPlaces, LoopIsApart
     DEF ObserveChildExit, kernelVars, leaderVars, pipeVars, endVars,
         resultVars
<1>7. CASE ObserveCancellation \/ ReleaseGate
  BY Zenon, <1>1, <1>7, GateShape DEF leaderVars, resultVars
<1>8. CASE \/ SampleNow
           \/ ListProcesses("term", "term_send")
           \/ ListProcesses("force", "force_send")
           \/ BeginCleanupLists
           \/ ListProcesses("kill", "kill_send")
           \/ ListProcesses("gone", "gone_check")
           \/ ListProcesses("last", "last_send")
           \/ CheckGone
           \/ SendCancellationSignal \/ SendForcedSignal
           \/ BeginCleanupAfterCancel \/ BeginCleanup
           \/ RepeatKill \/ CleanupOverdue
           \/ GroupGone \/ GroupThere \/ GroupTerm \/ GroupKill
  BY Zenon, <1>1, <1>8, QuietShape DEF pipeVars, endVars, flowVars, resultVars
<1>9. CASE Reap
  <2>1. pc \in LoopLabels /\ pc' \in LoopLabels /\ child' = "reaped"
    BY Zenon, <1>9, LoopIsApart DEF Reap
  <2>2. UNCHANGED <<ran, record, control_open, control_got, exec_confirmed,
                    result>>
    BY Zenon, <1>9 DEF Reap, pipeVars, endVars, resultVars
  <2> QED BY Zenon, <2>1, <2>2, LoopIsApart
<1>10. CASE Drain \/ ReadReady
  <2>1. UNCHANGED <<record, control_open, control_got, exec_confirmed>>
    BY Zenon, <1>10 DEF Drain, ReadReady
  <2> QED BY Zenon, <1>1, <1>10, <2>1, ReadShape DEF leaderVars, resultVars
<1>11. CASE ReadControl
  <2>1. /\ pc = "control" /\ pc \in LoopLabels /\ pc' \in LoopLabels
        /\ UNCHANGED <<child, ran, start_released, result>>
    BY Zenon, <1>11, ReadShape DEF ReadControl, Reading, leaderVars, resultVars
  <2>2. CASE record # "none" /\ control_got' = record /\ record' = "none"
             /\ control_open' = FALSE /\ UNCHANGED exec_confirmed
    BY Zenon, <2>1, <2>2, LoopIsApart
  <2>3. CASE record = "none" /\ control_open' = ControlHeld
             /\ exec_confirmed' = (~ControlHeld /\ ConfirmedByEof)
             /\ UNCHANGED <<control_got, record>>
    <3>1. ASSUME ~ControlHeld, ~ConfirmedByEof
          PROVE  ~ran /\ child \in {"zombie", "reaped"}
      <4>1. ~ran /\ child \notin {"preexec", "program"}
        BY <1>0, <3>1, Zenon DEF ConfirmedByEof, SafetyInv, GateInv
      <4>2. child \notin BeforeExec \cup {"exiting"}
        BY <3>1, Zenon DEF ControlHeld, Exiting
      <4>3. child # "none" /\ child \in ChildState
        BY Zenon, <1>0, <2>1 DEF LeaderInv, TypeOK, KernelType
      <4> QED BY Zenon, <4>1, <4>2, <4>3 DEF ChildState, Alive
    <3>2. CASE ControlHeld
      BY Zenon, <2>1, <2>3, <3>2, LoopIsApart
    <3>3. CASE ~ControlHeld /\ ConfirmedByEof
      BY <2>1, <2>3, <3>3, LoopIsApart, Zenon
    <3>4. CASE ~ControlHeld /\ ~ConfirmedByEof
      BY Zenon, <2>1, <2>3, <3>1, <3>4, LoopIsApart
    <3> QED BY Zenon, <3>2, <3>3, <3>4
  <2> QED BY <1>11, <2>2, <2>3, Zenon DEF ReadControl
<1>12. CASE Classify
  <2>1. /\ pc = "result" /\ pc' = "done" /\ pc \in LoopLabels
        /\ UNCHANGED <<child, ran, record, control_got>>
    BY Zenon, <1>0, <1>12, ClassifyShape, LoopIsApart
       DEF kernelVars, leaderVars, pipeVars, loopVars, flowVars
  <2>2. result' \in NotStartedResults => ~ran
    <3>1. CASE NotStarted
      <4>1. \/ control_got # "none"
            \/ cancellation_before_start
            \/ control_got = "none" /\ ~exec_confirmed
        BY <3>1, Zenon DEF NotStarted
      <4>2. ~control_open
        BY Zenon, <1>0, <2>1 DEF FlowInv, LoopDone
      <4>3. cancellation_before_start => ~ran
        BY Zenon DEF SafetyInv, GateInv
      <4> QED BY Zenon, <2>1, <4>1, <4>2, <4>3
    <3>2. CASE Started
      BY <1>0, <3>2, StartedReturns, Zenon
         DEF Return, NotStartedResults, StartedResults
    <3> QED BY Zenon, <1>12, <3>1, <3>2 DEF Classify
  <2> QED BY Zenon, <2>1, <2>2, LoopIsApart
<1> HIDE DEF ConfirmInv
<1> QED BY Zenon, <1>2, <1>3, <1>4, <1>5, <1>6, <1>7, <1>8, <1>9, <1>10, <1>11,
           <1>12 DEF Supervise

\* The leader and the environment keep ConfirmInv.
LEMMA ConfirmMoves ==
    ASSUME SafetyInv, ConfirmInv, LeaderStep \/ ProgramStep \/ EnvironmentStep
    PROVE  ConfirmInv'
<1>0. /\ UNCHANGED <<pc, control_open, control_got, exec_confirmed, result>>
      /\ ChildMain(ready_open, start_open) \/ Program \/ Environment
  BY Zenon DEF LeaderStep, ProgramStep, EnvironmentStep, supervisorVars,
     endVars, loopVars, flowVars, resultVars
<1>1. CASE ChildSetup \/ ChildSetupFails \/ ChildExecFails
  <2>1. child \in SetupStages \cup {"preexec"} /\ ran' = ran
    BY <1>1, Zenon DEF ChildSetup, ChildSetupFails, ChildExecFails,
       ReportChildError, Setup
  <2>2. record = "none" /\ control_got = "none" /\ ~ran
    BY Zenon, <2>1 DEF ConfirmInv, SetupStages
  <2>3. record' # "none" => child' = "exiting"
    BY <1>1, <2>2, Zenon DEF ChildSetup, ChildSetupFails, ChildExecFails,
       ReportChildError, pipeVars
  <2>4. ~(pc \in LoopLabels /\ ~control_open /\ control_got = "none"
            /\ ~exec_confirmed)
    BY Zenon, <2>1, <2>2 DEF ConfirmInv, SetupStages
  <2> QED BY <1>0, <2>1, <2>2, <2>3, <2>4, Zenon DEF ConfirmInv
<1>2. CASE ChildReady(ready_open) \/ ChildGate(start_open) \/ ChildExec
  <2>1. child \in {"ready", "gate", "preexec"} /\ record' = record
    BY <1>2, Zenon DEF ChildReady, ChildGate, ChildExec, Setup
  <2>2. pc # "done" /\ record = "none" /\ control_got = "none" /\ ~ran
    BY <2>1, Zenon DEF SafetyInv, LeaderInv, ConfirmInv
  <2>3. ran' => child' = "program"
    BY <1>2, <2>2, Zenon DEF ChildReady, ChildGate, ChildExec
  <2>4. result = "none"
    BY Zenon, <2>2 DEF SafetyInv, FlowInv
  <2>5. ~(pc \in LoopLabels /\ ~control_open /\ control_got = "none"
            /\ ~exec_confirmed)
    BY <2>1, <2>2, Zenon DEF ConfirmInv
  <2> QED BY <1>0, <2>1, <2>2, <2>3, <2>4, <2>5, Zenon
      DEF ConfirmInv, NotStartedResults
<1>3. CASE ChildExit \/ ChildDies \/ ProgramExits
  <2>1. child' = "zombie" /\ UNCHANGED <<ran, record>>
    BY <1>3, Zenon DEF ChildExit, ChildDies, ProgramExits, Exit
  <2> QED BY Zenon, <1>0, <2>1 DEF ConfirmInv
<1>4. CASE ProgramForks \/ ProgramWrites \/ ProgramCloses \/ Environment
  <2>1. UNCHANGED <<child, ran, record>>
    BY Zenon, <1>4, LeaderKeptBy
  <2> QED BY Zenon, <1>0, <2>1 DEF ConfirmInv
<1> QED BY <1>0, <1>1, <1>2, <1>3, <1>4, Zenon DEF ChildMain, Program

\* When reading the control pipe does not fail, a program that is reported as
\* not started has not been executed (the classification of execute_backend).
THEOREM NotStartedIsTrue ==
    ASSUME "control_read" \notin Faults
    PROVE  Spec => []NotStartedMeansNotRun
<1>1. Init => ConfirmInv
  BY Zenon DEF Init, KernelInit, SupervisorInit, ConfirmInv, LoopLabels,
         LadderLabels, NotStartedResults
<1>2. SafetyInv /\ ConfirmInv /\ [Next]_vars => ConfirmInv'
  <2>1. ASSUME ConfirmInv, UNCHANGED vars PROVE ConfirmInv'
    BY Zenon, <2>1
    DEF vars, kernelVars, supervisorVars, leaderVars, pipeVars, endVars,
        loopVars, flowVars, resultVars, ConfirmInv
  <2> QED BY <2>1, ConfirmStep, ConfirmMoves, Zenon DEF Next, Terminated
<1>3. ConfirmInv => NotStartedMeansNotRun
  BY Zenon DEF ConfirmInv, NotStartedMeansNotRun
<1> QED BY <1>1, <1>2, <1>3, SafetyInvariant, PTL DEF Spec

(***************************************************************************)
(* Started.                                                                *)
(***************************************************************************)
\* Of the computed labels only ControlLabel leads to the control pipe, and none
\* to the forced signal.
LEMMA LabelAims ==
    /\ {ReapLabel, CleanLabel, BeginLabel, TermLabel, GateLabel, CancelLabel,
        LoopEnd, ReadyLabel}
         \cap {"control", "force", "force_send"} = {}
    /\ {ReapLabel, CleanLabel, BeginLabel, TermLabel, GateLabel, CancelLabel,
        LoopEnd, ReadyLabel}'
         \cap {"control", "force", "force_send"} = {}
    /\ ControlLabel' \notin {"force", "force_send"}
    /\ ControlLabel' = "control" => control_open'
<1> DEFINE Aim == {"control", "force", "force_send"}
<1>1. ReapLabel \notin Aim /\ ReapLabel' \notin Aim
  BY Zenon DEF ReapLabel
<1>2. TermLabel \notin Aim /\ TermLabel' \notin Aim
  BY Zenon DEF TermLabel
<1>3. CleanLabel \notin Aim /\ CleanLabel' \notin Aim
  BY Zenon, <1>1 DEF CleanLabel
<1>4. BeginLabel \notin Aim /\ BeginLabel' \notin Aim
  BY Zenon, <1>3 DEF BeginLabel
<1>5. GateLabel \notin Aim /\ GateLabel' \notin Aim
  BY Zenon, <1>2 DEF GateLabel
<1>6. CancelLabel \notin Aim /\ CancelLabel' \notin Aim
  BY Zenon, <1>5 DEF CancelLabel
<1>7. LoopEnd \notin Aim /\ LoopEnd' \notin Aim
  BY Zenon, <1>6 DEF LoopEnd, TopLabel
<1>8. ReadyLabel \notin Aim /\ ReadyLabel' \notin Aim
  BY Zenon, <1>7 DEF ReadyLabel
<1>9. /\ ControlLabel' \notin {"force", "force_send"}
      /\ ControlLabel' = "control" => control_open'
  BY Zenon, <1>8 DEF ControlLabel
<1> QED BY Zenon, <1>1, <1>2, <1>3, <1>4, <1>5, <1>6, <1>7, <1>8, <1>9

\* Scanning and signalling: SIGKILL is reached only after the cancellation
\* signal, and an exited leader is out of reach of the rest.
LEMMA QuietReach ==
    ASSUME SafetyInv, ReachInv
    PROVE  (\/ SampleNow
            \/ ListProcesses("term", "term_send")
            \/ ListProcesses("force", "force_send")
            \/ BeginCleanupLists
            \/ ListProcesses("kill", "kill_send")
            \/ ListProcesses("gone", "gone_check")
            \/ ListProcesses("last", "last_send")
            \/ CheckGone
            \/ SendCancellationSignal \/ SendForcedSignal
            \/ BeginCleanupAfterCancel \/ BeginCleanup
            \/ RepeatKill \/ CleanupOverdue
            \/ GroupGone \/ GroupThere \/ GroupTerm \/ GroupKill) =>
           /\ pc' # "control"
           /\ pc' \in {"force", "force_send"} => cancellation_signal_attempted'
           /\ doomed' => \/ doomed
                         \/ child \in Alive /\ cancellation_signal_attempted'
           /\ \/ UNCHANGED cancellation_signal_attempted
              \/ SendDue /\ cancellation_signal_attempted'
<1> DEFINE Goal ==
           /\ pc' # "control"
           /\ pc' \in {"force", "force_send"} => cancellation_signal_attempted'
           /\ doomed' => \/ doomed
                         \/ child \in Alive /\ cancellation_signal_attempted'
           /\ \/ UNCHANGED cancellation_signal_attempted
              \/ SendDue /\ cancellation_signal_attempted'
<1>0. FlowInv /\ LeaderInv
  BY Zenon DEF SafetyInv
<1>1. ASSUME SampleNow PROVE Goal
  BY <1>1, LabelAims, Zenon
     DEF SampleNow, ForceDue, kernelVars, leaderVars, cancelVars
<1>2. ASSUME NEW at,
             NEW next \in {"term_send", "begin_send", "kill_send",
                           "gone_check", "last_send"},
             ListProcesses(at, next)
      PROVE  Goal
  BY Zenon, <1>2 DEF ListProcesses, kernelVars, leaderVars, cancelVars
<1>3. ASSUME ListProcesses("force", "force_send") PROVE Goal
  <2>1. cancellation_signal_attempted
    BY Zenon, <1>3 DEF ListProcesses, ReachInv
  <2> QED BY Zenon, <1>3, <2>1 DEF ListProcesses, kernelVars, leaderVars, cancelVars
<1>4. ASSUME CheckGone PROVE Goal
  BY <1>4, LabelAims, Zenon DEF CheckGone, kernelVars, leaderVars, cancelVars
<1>5. ASSUME SendCancellationSignal PROVE Goal
  <2>1. SendDue
    BY Zenon, <1>0, <1>5 DEF SendCancellationSignal, Sending, FlowInv
  <2> QED BY <1>5, <2>1, Zenon
      DEF SendCancellationSignal, SendTerm, TermLeader
<1>6. ASSUME SendForcedSignal PROVE Goal
  <2>1. cancellation_signal_attempted
    BY Zenon, <1>6 DEF SendForcedSignal, Sending, ReachInv
  <2> QED BY <1>6, <2>1, LabelAims, Zenon
      DEF SendForcedSignal, SendKill, KillLeader
<1>7. ASSUME BeginCleanupAfterCancel PROVE Goal
  BY <1>7, LabelAims, Zenon DEF BeginCleanupAfterCancel, leaderVars, cancelVars
<1>8. ASSUME BeginCleanup \/ RepeatKill \/ CleanupOverdue PROVE Goal
  <2>1. pc \in CleanLabels
    BY Zenon, <1>8 DEF BeginCleanup, RepeatKill, CleanupOverdue, Sending, CleanLabels
  <2>2. child \notin Alive
    BY Zenon, <1>0, <2>1 DEF FlowInv, LeaderInv, Alive, BeforeExec, SetupStages
  <2>3. doomed' = doomed
    <3>1. TermLeader \/ KillLeader
      BY <1>8, Zenon
         DEF BeginCleanup, RepeatKill, CleanupOverdue, SendTerm, SendKill
    <3>2. doomed \in BOOLEAN
      BY Zenon DEF SafetyInv, TypeOK, KernelType
    <3> QED BY Zenon, <2>2, <3>1, <3>2 DEF TermLeader, KillLeader
  <2>4. pc' \notin {"control", "force", "force_send"}
    BY <1>8, LabelAims, Zenon DEF BeginCleanup, RepeatKill, CleanupOverdue
  <2>5. UNCHANGED cancellation_signal_attempted
    BY Zenon, <1>8 DEF BeginCleanup, RepeatKill, CleanupOverdue
  <2> QED BY Zenon, <2>3, <2>4, <2>5
<1>9. ASSUME GroupGone \/ GroupThere \/ GroupTerm \/ GroupKill PROVE Goal
  <2>1. UNCHANGED <<doomed, cancellation_signal_attempted>>
    BY <1>9, Zenon DEF GroupGone, GroupThere, GroupTerm, GroupKill,
       InGroupCleanup, leaderVars, cancelVars
  <2>2. pc' \notin {"control", "force", "force_send"}
    BY <1>9, Zenon DEF GroupGone, GroupThere, GroupTerm, GroupKill,
       GroupCleaned, GroupStep
  <2> QED BY Zenon, <2>1, <2>2
<1> HIDE DEF Goal
<1>10. ASSUME \/ ListProcesses("term", "term_send")
              \/ BeginCleanupLists
              \/ ListProcesses("kill", "kill_send")
              \/ ListProcesses("gone", "gone_check")
              \/ ListProcesses("last", "last_send")
       PROVE  Goal
  BY Zenon, <1>2, <1>10 DEF BeginCleanupLists
<1>11. SUFFICES ASSUME \/ SampleNow
                       \/ ListProcesses("term", "term_send")
                       \/ ListProcesses("force", "force_send")
                       \/ BeginCleanupLists
                       \/ ListProcesses("kill", "kill_send")
                       \/ ListProcesses("gone", "gone_check")
                       \/ ListProcesses("last", "last_send")
                       \/ CheckGone
                       \/ SendCancellationSignal \/ SendForcedSignal
                       \/ BeginCleanupAfterCancel \/ BeginCleanup
                       \/ RepeatKill \/ CleanupOverdue
                       \/ GroupGone \/ GroupThere \/ GroupTerm \/ GroupKill
                PROVE  Goal
  BY Zenon DEF Goal
<1> QED BY Zenon, <1>1, <1>3, <1>4, <1>5, <1>6, <1>7, <1>8, <1>9, <1>10, <1>11

\* A step of execute_backend keeps ReachInv: what it has confirmed has happened,
\* because it sends no signal between the gate and execveat.
LEMMA ReachStep ==
    ASSUME SafetyInv, ReachInv, Supervise
    PROVE  ReachInv'
<1>0. TypeOK /\ FlowInv /\ LeaderInv /\ GateInv
  BY Zenon DEF SafetyInv
<1>a. pc \in LadderLabels \cup PidfdLabels =>
        /\ ~start_released /\ ~exec_confirmed /\ ~ready_seen
        /\ ~cancellation_observed /\ ~cancellation_signal_attempted
        /\ control_got = "none"
  BY Zenon, <1>0 DEF FlowInv
<1>1. ASSUME pc \in LoopLabels, pc' \in LoopLabels,
             pc' = "control" => control_open',
             pc' \notin {"force", "force_send"},
             UNCHANGED <<child, ran, doomed, record, ready_byte, start_byte,
                         control_open, control_got, exec_confirmed, ready_seen,
                         start_open, start_released, cancellation_observed,
                         cancellation_signal_attempted, result>>
      PROVE  ReachInv'
  BY Zenon, <1>1, LoopIsApart DEF ReachInv, Undecided
<1>2. CASE \/ CheckProfile
           \/ CancelCheck("cancel_1", "admission")
           \/ AdmitResources
           \/ CancelCheck("cancel_2", "interpreter")
           \/ AdmitInterpreter
           \/ CancelCheck("cancel_3", "pipes")
           \/ MakePipes
  <2>1. pc \in LadderLabels /\ ~doomed /\ ~ready_byte
    BY Zenon, <1>0, <1>2, AdmissionShape
       DEF LeaderInv, ReachInv, Alive, BeforeExec, SetupStages
  <2>2. UNCHANGED <<child, ran, doomed, record, ready_byte, start_byte,
                    flowVars, cancelVars>>
    BY Zenon, <1>2, AdmissionShape DEF leaderVars, loopVars
  <2>3. /\ pc' \in LadderLabels \cup {"done"}
        /\ pc' = "fork" => start_open'
    BY Zenon, <1>2, AdmissionShape
  <2>4. result' \in StartedResults => ran
    <3>1. result' \in NotStartedResults \/ result' = result
      BY <1>2, AdmissionShape, Zenon
    <3> QED BY <3>1, Zenon DEF ReachInv, NotStartedResults, StartedResults
  <2>5. /\ ~start_released' /\ ~exec_confirmed' /\ ~ready_seen'
        /\ ~cancellation_signal_attempted' /\ control_got' = "none"
    BY Zenon, <1>a, <2>1, <2>2 DEF flowVars, cancelVars
  <2>6. pc' \notin {"pidfd", "control", "force", "force_send"} \cup LoopLabels
    BY Zenon, <2>3, LoopIsApart DEF LadderLabels
  <2> QED BY Zenon, <2>1, <2>2, <2>3, <2>4, <2>5, <2>6 DEF ReachInv, Undecided
<1>3. CASE Fork
  <2>1. pc = "fork" /\ ~doomed /\ child = "none"
    BY Zenon, <1>0, <1>3 DEF Fork, Refuse, Ladder, LeaderInv, LadderLabels,
       ReachInv, Alive, BeforeExec, SetupStages
  <2>2. /\ child' \in {"none", "process_group"}
        /\ UNCHANGED <<ran, doomed, record, ready_byte, start_byte, flowVars,
                       cancelVars>>
    BY Zenon, <1>3, <2>1 DEF Fork, Refuse, Ladder, leaderVars, loopVars
  <2>3. \/ pc' \in {"pidfd", "exit"} /\ UNCHANGED <<start_open, result>>
        \/ pc' = "done" /\ result' \notin StartedResults
    BY Zenon, <1>3 DEF Fork, Refuse, Return, Advance, endVars, resultVars,
       StartedResults
  <2>4. ~ready_byte
    BY Zenon, <2>1 DEF ReachInv
  <2> QED BY <1>a, <2>1, <2>2, <2>3, <2>4, LoopIsApart, Zenon
      DEF ReachInv, Undecided, LadderLabels, flowVars, cancelVars
<1>4. CASE OpenPidfd
  <2>1. /\ pc = "pidfd"
        /\ UNCHANGED <<child, ran, record, ready_byte, start_byte, flowVars,
                       cancelVars, result>>
    BY Zenon, <1>4, PidfdShape DEF pipeVars, resultVars
  <2>2. \/ pc' = "exit" /\ UNCHANGED <<doomed, start_open>>
        \/ pc' = "pidfd_failed" /\ KillLeader
    BY Zenon, <1>4 DEF OpenPidfd, Proceed, Advance, leaderVars, endVars
  <2>3. doomed' => child \in Alive /\ pc' = "pidfd_failed"
    BY <1>a, <2>1, <2>2, Zenon DEF ReachInv, PidfdLabels, KillLeader
  <2>4. UNCHANGED control_open
    BY Zenon, <1>4 DEF OpenPidfd, Proceed, Advance, endVars
  <2> QED BY <1>a, <2>1, <2>2, <2>3, <2>4, LoopIsApart, Zenon
      DEF ReachInv, Undecided, PidfdLabels, flowVars, cancelVars
<1>5. CASE PidfdFailed
  <2>1. /\ pc = "pidfd_failed" /\ pc' = "done"
        /\ child = "zombie" /\ child' = "reaped"
        /\ result' \notin StartedResults
        /\ UNCHANGED <<ran, doomed, record, ready_byte, start_byte, flowVars,
                       cancelVars>>
    BY Zenon, <1>5 DEF PidfdFailed, Ladder, Return, StartedResults, loopVars
  <2>2. ~doomed
    BY Zenon, <2>1 DEF ReachInv, Alive, BeforeExec, SetupStages
  <2> QED BY Zenon, <1>a, <2>1, <2>2, LoopIsApart
      DEF ReachInv, Undecided, PidfdLabels, SetupStages, flowVars, cancelVars
<1>6. CASE ObserveChildExit
  BY <1>1, <1>6, LabelPlaces, LabelAims, LoopIsApart, Zenon
     DEF ObserveChildExit, kernelVars, leaderVars, pipeVars, endVars,
         cancelVars, resultVars
<1>7. CASE ObserveCancellation
  <2>1. /\ pc \in LoopLabels /\ pc' \in LoopLabels
        /\ pc' \notin {"control", "force", "force_send"}
    BY <1>7, GateShape, LabelAims, Zenon DEF ObserveCancellation
  <2>2. UNCHANGED <<child, ran, doomed, record, ready_byte, start_byte,
                    control_open, control_got, exec_confirmed, ready_seen,
                    start_released, cancellation_signal_attempted, result>>
    BY Zenon, <1>7, GateShape
       DEF ObserveCancellation, kernelVars, leaderVars, pipeVars, flowVars,
           resultVars
  <2>3. \/ cancellation_observed'
        \/ UNCHANGED <<cancellation_observed, start_open>>
    BY <1>7, Zenon DEF ObserveCancellation, NoteCancellation
  <2> QED BY Zenon, <2>1, <2>2, <2>3, LoopIsApart DEF ReachInv, Undecided
<1>8. CASE ReleaseGate
  <2>1. /\ pc = "gate" /\ pc \in LoopLabels /\ pc' \in LoopLabels
        /\ pc' \notin {"control", "force", "force_send"}
    BY <1>8, GateShape, LabelAims, Zenon DEF ReleaseGate
  <2>2. UNCHANGED <<child, ran, doomed, record, ready_byte, control_open,
                    control_got, exec_confirmed, ready_seen,
                    cancellation_signal_attempted, result>>
    BY Zenon, <1>8, GateShape DEF leaderVars, resultVars
  <2>3. ready_seen /\ ~start_released /\ ~cancellation_observed
    BY Zenon, <1>0, <2>1 DEF FlowInv
  <2>4. start_open /\ child = "gate"
    BY Zenon, <2>1, <2>3 DEF ReachInv, Undecided
  <2>5. ~cancellation_signal_attempted /\ ~ran
    BY Zenon, <1>0, <2>3 DEF GateInv, ReachInv
  <2>6. \/ cancellation_observed' /\ UNCHANGED <<start_released, start_byte>>
        \/ start_released' /\ start_byte'
    BY <1>8, <2>4, Zenon DEF ReleaseGate, NoteCancellation
  <2> QED BY <2>1, <2>2, <2>3, <2>4, <2>5, <2>6, LoopIsApart
      DEF ReachInv, Undecided
<1>9. CASE \/ SampleNow
           \/ ListProcesses("term", "term_send")
           \/ ListProcesses("force", "force_send")
           \/ BeginCleanupLists
           \/ ListProcesses("kill", "kill_send")
           \/ ListProcesses("gone", "gone_check")
           \/ ListProcesses("last", "last_send")
           \/ CheckGone
           \/ SendCancellationSignal \/ SendForcedSignal
           \/ BeginCleanupAfterCancel \/ BeginCleanup
           \/ RepeatKill \/ CleanupOverdue
           \/ GroupGone \/ GroupThere \/ GroupTerm \/ GroupKill
  <2>1. /\ pc \in LoopLabels /\ pc' \in LoopLabels
        /\ UNCHANGED <<child, ran, record, ready_byte, start_byte,
                       control_open, control_got, exec_confirmed, ready_seen,
                       start_open, start_released, cancellation_observed,
                       result>>
    BY Zenon, <1>9, QuietShape DEF pipeVars, endVars, flowVars, resultVars
  <2>2. /\ pc' # "control"
        /\ pc' \in {"force", "force_send"} => cancellation_signal_attempted'
        /\ doomed' => \/ doomed
                      \/ child \in Alive /\ cancellation_signal_attempted'
        /\ \/ UNCHANGED cancellation_signal_attempted
           \/ SendDue /\ cancellation_signal_attempted'
    BY Zenon, <1>9, QuietReach
  <2>3. doomed' => child' \in Alive /\ cancellation_signal_attempted'
    BY <2>1, <2>2, LoopIsApart DEF ReachInv
  <2>4. cancellation_signal_attempted' =>
          cancellation_observed' /\ (~start_released' \/ exec_confirmed')
    BY <2>1, <2>2, Zenon DEF ReachInv, SendDue
  <2> QED BY Zenon, <2>1, <2>2, <2>3, <2>4, LoopIsApart DEF ReachInv, Undecided
<1>10. CASE Reap
  <2>1. /\ pc \in LoopLabels /\ pc' \in {"drain", "group_probe"}
        /\ pc = "reap" /\ child' = "reaped"
        /\ UNCHANGED <<ran, doomed, record, ready_byte, start_byte,
                       control_open, control_got, exec_confirmed, ready_seen,
                       start_open, start_released, cancellation_observed,
                       cancellation_signal_attempted, result>>
    BY Zenon, <1>10, LoopIsApart
       DEF Reap, pipeVars, endVars, cancelVars, resultVars
  <2>2. child \in {"zombie", "reaped"} /\ ~doomed
    BY Zenon, <1>0, <2>1 DEF FlowInv, LeaderInv, ReachInv, Alive, BeforeExec,
       SetupStages
  <2> QED BY Zenon, <2>1, <2>2, LoopIsApart DEF ReachInv, Undecided, SetupStages
<1>11. CASE Drain
  <2>1. UNCHANGED <<record, ready_byte, control_open, control_got, ready_seen,
                    exec_confirmed>>
    BY Zenon, <1>11 DEF Drain
  <2>2. /\ pc' \notin {"force", "force_send"}
        /\ pc' = "control" => control_open'
    BY Zenon, <1>11, LabelAims DEF Drain
  <2> QED BY Zenon, <1>1, <1>11, <2>1, <2>2, ReadShape
      DEF leaderVars, cancelVars, resultVars
<1>12. CASE ReadControl
  <2>1. /\ pc = "control" /\ pc \in LoopLabels /\ pc' \in LoopLabels
        /\ pc' \notin {"control", "force", "force_send"}
    BY <1>12, ReadShape, LabelAims, Zenon DEF ReadControl, Reading
  <2>2. UNCHANGED <<child, ran, doomed, ready_byte, start_byte, ready_seen,
                    start_open, start_released, cancellation_observed,
                    cancellation_signal_attempted, result>>
    BY Zenon, <1>12, ReadShape DEF ReadControl, leaderVars, cancelVars, resultVars
  <2>3. control_got = "none" /\ ~exec_confirmed
    BY Zenon, <2>1 DEF ReachInv
  <2>4. ASSUME control_open' => control_got' = "none" /\ ~exec_confirmed',
               exec_confirmed' => ran,
               record # "none" => record' # "none" \/ control_got' # "none"
        PROVE  ReachInv'
    BY Zenon, <2>1, <2>2, <2>3, <2>4, LoopIsApart DEF ReachInv, Undecided
  <2>5. ASSUME record = "none", ~ControlHeld, start_released PROVE ran
    <3>1. child \notin {"gate", "preexec"}
      BY <2>5, Zenon DEF ControlHeld, BeforeExec
    <3> QED BY Zenon, <2>3, <2>5, <3>1 DEF ReachInv
  <2>6. CASE record # "none" /\ control_got' = record /\ record' = "none"
             /\ control_open' = FALSE /\ UNCHANGED exec_confirmed
    BY Zenon, <2>3, <2>4, <2>6
  <2>7. CASE record = "none" /\ control_open' = ControlHeld
             /\ exec_confirmed' = (~ControlHeld /\ ConfirmedByEof)
             /\ UNCHANGED <<control_got, record>>
    BY <2>3, <2>4, <2>5, <2>7, Zenon DEF ConfirmedByEof
  <2>8. CASE control_open' = FALSE
             /\ UNCHANGED <<control_got, record, exec_confirmed>>
    BY Zenon, <2>3, <2>4, <2>8
  <2> QED BY <1>12, <2>6, <2>7, <2>8, Zenon DEF ReadControl
<1>13. CASE ReadReady
  <2>1. UNCHANGED <<record, control_open, control_got, exec_confirmed>>
    BY Zenon, <1>13 DEF ReadReady
  <2>2. pc' \notin {"control", "force", "force_send"}
    BY <1>13, LabelAims, Zenon DEF ReadReady
  <2>3. ready_byte' \/ ready_seen' => ready_byte \/ ready_seen
    BY <1>13, Zenon DEF ReadReady
  <2>4. /\ pc \in LoopLabels /\ pc' \in LoopLabels
        /\ UNCHANGED <<child, ran, doomed, start_byte, start_open,
                       start_released, cancellation_observed,
                       cancellation_signal_attempted, result>>
    BY Zenon, <1>13, ReadShape DEF leaderVars, cancelVars, resultVars
  <2> QED BY Zenon, <2>1, <2>2, <2>3, <2>4, LoopIsApart DEF ReachInv, Undecided
<1>14. CASE Classify
  <2>1. /\ pc = "result" /\ pc' = "done" /\ pc \in LoopLabels
        /\ UNCHANGED <<child, ran, doomed, record, ready_byte, start_byte,
                       flowVars, cancelVars>>
    BY Zenon, <1>0, <1>14, ClassifyShape, LoopIsApart
       DEF kernelVars, leaderVars, pipeVars, loopVars
  <2>2. ~control_open'
    BY <1>0, <1>14, NotStartedReturns, StartedReturns, Zenon
       DEF Classify, Return
  <2>3. result' \in StartedResults => ran
    <3>1. CASE NotStarted
      BY <1>0, <3>1, NotStartedReturns, Zenon
         DEF Return, NotStartedResults, StartedResults
    <3>2. CASE Started
      BY <3>2, Zenon DEF ReachInv, Started
    <3> QED BY Zenon, <1>14, <3>1, <3>2 DEF Classify
  <2>4. doomed' => cancellation_signal_attempted
    BY Zenon, <2>1 DEF ReachInv
  <2> QED BY Zenon, <2>1, <2>2, <2>3, <2>4, LoopIsApart
      DEF ReachInv, Undecided, flowVars, cancelVars
<1> QED BY Zenon, <1>2, <1>3, <1>4, <1>5, <1>6, <1>7, <1>8, <1>9, <1>10, <1>11,
           <1>12, <1>13, <1>14 DEF Supervise

\* The leader and the environment keep ReachInv.
LEMMA ReachMoves ==
    ASSUME "kill" \notin Faults, SafetyInv, ReachInv,
           LeaderStep \/ ProgramStep \/ EnvironmentStep
    PROVE  ReachInv'
<1>0. /\ UNCHANGED <<pc, control_open, start_open, control_got, ready_seen,
                     start_released, exec_confirmed, cancellation_observed,
                     cancellation_signal_attempted, result>>
      /\ ChildMain(ready_open, start_open) \/ Program \/ Environment
  BY Zenon DEF LeaderStep, ProgramStep, EnvironmentStep, supervisorVars,
     endVars, loopVars, flowVars, cancelVars, resultVars
<1>1. ASSUME ran => ran', ~doomed,
             doomed' = doomed \/ doomed' = FALSE,
             ready_byte' \/ ready_seen =>
               child' \notin SetupStages \cup {"none", "ready"},
             Undecided /\ (ready_byte' \/ ready_seen) => child' = "gate",
             start_released /\ ~ran' => \/ child' = "gate" /\ start_byte'
                                        \/ child' = "preexec"
                                        \/ record' # "none"
                                        \/ control_got # "none"
      PROVE  ReachInv'
  <2>1. ~doomed'
    BY Zenon, <1>1
  <2> QED BY <1>0, <1>1, <2>1, Zenon DEF ReachInv, Undecided
<1>2. start_released \/ ~(ran \/ child \in {"preexec", "program"})
  BY Zenon DEF SafetyInv, GateInv
<1>3. CASE ChildSetup
  <2>1. /\ child \in SetupStages /\ ~doomed
        /\ child' \in SetupStages \cup {"ready"}
        /\ UNCHANGED <<ran, doomed, record, ready_byte, start_byte>>
    BY <1>3, Zenon DEF ChildSetup, NextStage, SetupStages, pipeVars
  <2>2. ~ready_byte /\ ~ready_seen
    BY Zenon, <2>1 DEF ReachInv
  <2>3. start_released /\ ~ran => record # "none" \/ control_got # "none"
    BY Zenon, <2>1 DEF ReachInv, SetupStages
  <2> QED BY <1>1, <2>1, <2>2, <2>3, Zenon
<1>4. CASE ChildSetupFails
  <2>1. /\ child \in SetupStages /\ ~doomed /\ record' # "none"
        /\ UNCHANGED <<ran, doomed, ready_byte>>
    BY Zenon, <1>4 DEF ChildSetupFails, ReportChildError, SetupStages
  <2>2. ~ready_byte /\ ~ready_seen
    BY Zenon, <2>1 DEF ReachInv
  <2> QED BY <1>1, <2>1, <2>2, Zenon
<1>5. CASE ChildReady(ready_open)
  <2>1. /\ child = "ready" /\ ~doomed
        /\ child' \in {"gate", "exiting"}
        /\ ready_byte' => child' = "gate" \/ ready_byte
        /\ UNCHANGED <<ran, doomed, record>>
    BY <1>5, Zenon DEF ChildReady, Setup
  <2>2. ~ready_byte /\ ~ready_seen
    BY Zenon, <2>1 DEF ReachInv
  <2>3. start_released /\ ~ran => record # "none" \/ control_got # "none"
    BY Zenon, <2>1 DEF ReachInv
  <2>4. child' \notin SetupStages \cup {"none", "ready"}
    BY Zenon, <2>1 DEF SetupStages
  <2> QED BY <1>1, <2>1, <2>2, <2>3, <2>4, Zenon
<1>6. CASE ChildGate(start_open)
  <2>1. /\ child = "gate" /\ ~doomed
        /\ UNCHANGED <<ran, doomed, record, ready_byte>>
        /\ child' \in {"preexec", "exiting"}
        /\ start_byte => child' = "preexec"
        /\ start_byte \/ ~start_open
    BY <1>6, Zenon DEF ChildGate, GatePassed, GateReturns, Setup
  <2>2. ~Undecided
    BY <2>1, Zenon DEF ReachInv, Undecided, SafetyInv, GateInv
  <2>3. start_released /\ ~ran => \/ child' = "preexec"
                                  \/ record # "none" \/ control_got # "none"
    BY <2>1, Zenon DEF ReachInv
  <2>4. child' \notin SetupStages \cup {"none", "ready"}
    BY Zenon, <2>1 DEF SetupStages
  <2> QED BY <1>1, <2>1, <2>2, <2>3, <2>4, Zenon
<1>7. CASE ChildExec \/ ChildExecFails
  <2>1. /\ child = "preexec" /\ ~doomed
        /\ child' \in {"program", "exiting"}
        /\ UNCHANGED <<doomed, ready_byte>>
    BY <1>7, Zenon DEF ChildExec, ChildExecFails, ReportChildError, Setup
  <2>2. (ran' \/ record' # "none") /\ (ran => ran')
    BY <1>7 DEF ChildExec, ChildExecFails, ReportChildError
  <2>3. ~Undecided
    BY <1>2, <2>1, Zenon DEF Undecided
  <2>4. child' \notin SetupStages \cup {"none", "ready"}
    BY Zenon, <2>1 DEF SetupStages
  <2> QED BY <1>1, <2>1, <2>2, <2>3, <2>4, Zenon
<1>8. CASE ChildExit \/ ProgramExits
  <2>1. /\ child \in {"exiting", "program"} /\ ~doomed /\ ~doomed'
        /\ child' = "zombie"
        /\ UNCHANGED <<ran, record, ready_byte>>
    BY <1>8, Zenon DEF ChildExit, ProgramExits, Exit, Setup
  <2>2. Undecided => ~ready_byte /\ ~ready_seen
    BY <2>1, Zenon DEF ReachInv
  <2>3. start_released /\ ~ran => record # "none" \/ control_got # "none"
    BY <2>1, Zenon DEF ReachInv
  <2>4. child' \notin SetupStages \cup {"none", "ready"}
    BY Zenon, <2>1 DEF SetupStages
  <2>5. doomed' = FALSE
    BY <1>8, Zenon DEF ChildExit, ProgramExits, Exit
  <2> QED BY <1>1, <2>1, <2>2, <2>3, <2>4, <2>5, Zenon
<1>9. CASE ChildDies
  <2>1. /\ doomed /\ ~doomed' /\ child \in Alive /\ child' = "zombie"
        /\ UNCHANGED <<ran, record, ready_byte, start_byte>>
    BY <1>9, Zenon DEF ChildDies, Exit
  <2>2. \/ pc = "pidfd_failed"
        \/ cancellation_observed /\ (~start_released \/ exec_confirmed)
    BY <2>1, Zenon DEF ReachInv
  <2>3. pc = "pidfd_failed" => ~start_released
    BY Zenon DEF SafetyInv, FlowInv, PidfdLabels
  <2>4. ~Undecided /\ (start_released => ran)
    BY Zenon, <2>2, <2>3, LoopIsApart DEF Undecided, ReachInv
  <2>5. child' \notin SetupStages \cup {"none", "ready"}
    BY Zenon, <2>1 DEF SetupStages
  <2> QED BY <1>0, <2>1, <2>4, <2>5, Zenon DEF ReachInv, Undecided
<1>10. CASE ProgramForks \/ ProgramWrites \/ ProgramCloses \/ Environment
  <2>1. UNCHANGED <<child, ran, doomed, record, ready_byte, start_byte>>
    BY Zenon, <1>10, LeaderKeptBy
  <2> QED BY Zenon, <1>0, <2>1 DEF ReachInv, Undecided
<1> QED BY <1>0, <1>3, <1>4, <1>5, <1>6, <1>7, <1>8, <1>9, <1>10, Zenon
        DEF ChildMain, Program

\* Unless something else kills the leader between the gate and execveat, a
\* program that is reported as started has been executed.
THEOREM StartedIsTrue ==
    ASSUME "kill" \notin Faults
    PROVE  Spec => []StartedMeansRan
<1>1. Init => ReachInv
  BY Zenon DEF Init, KernelInit, SupervisorInit, ReachInv, Undecided, LoopLabels,
         LadderLabels, StartedResults
<1>2. SafetyInv /\ ReachInv /\ [Next]_vars => ReachInv'
  <2>1. ASSUME ReachInv, UNCHANGED vars PROVE ReachInv'
    BY Zenon, <2>1
    DEF vars, kernelVars, supervisorVars, leaderVars, pipeVars, endVars,
        loopVars, flowVars, cancelVars, resultVars, ReachInv, Undecided
  <2> QED BY <2>1, ReachStep, ReachMoves, Zenon DEF Next, Terminated
<1>3. ReachInv => StartedMeansRan
  BY Zenon DEF ReachInv, StartedMeansRan
<1> QED BY <1>1, <1>2, <1>3, SafetyInvariant, PTL DEF Spec

(***************************************************************************)
(* The contract, and the scratch directory.                                *)
(***************************************************************************)
\* What a step of execute_backend can change of what the caller sees: it creates
\* the leader, reaps it, or returns with a result.
LEMMA SeenStep ==
    ASSUME SafetyInv, Supervise
    PROVE  /\ UNCHANGED <<requested, ran>>
           /\ \/ UNCHANGED <<child, result>>
              \/ pc = "fork" /\ child' = "process_group" /\ UNCHANGED result
              \/ pc = "reap" /\ child' = "reaped" /\ UNCHANGED result
              \/ /\ pc # "done" /\ pc' = "done"
                 /\ UNCHANGED child \/ (child = "zombie" /\ child' = "reaped")
<1>0. TypeOK
  BY Zenon DEF SafetyInv
<1>1. CASE \/ CheckProfile
           \/ CancelCheck("cancel_1", "admission")
           \/ AdmitResources
           \/ CancelCheck("cancel_2", "interpreter")
           \/ AdmitInterpreter
           \/ CancelCheck("cancel_3", "pipes")
           \/ MakePipes
  <2>1. requested' = requested
    BY <1>1, Zenon DEF CheckProfile, CancelCheck, AdmitResources,
       AdmitInterpreter, MakePipes, Refuse, Proceed, Ladder
  <2>2. UNCHANGED <<child, ran>> /\ pc # "done" /\ (pc' = "done" \/ result' = result)
    BY Zenon, <1>1, AdmissionShape DEF leaderVars, LadderLabels
  <2> QED BY Zenon, <2>1, <2>2
<1>2. CASE Fork
  BY Zenon, <1>2 DEF Fork, Refuse, Return, Advance, Ladder, leaderVars, resultVars
<1>3. CASE OpenPidfd
  BY Zenon, <1>3 DEF OpenPidfd, Proceed, Ladder, Advance, leaderVars, resultVars
<1>4. CASE PidfdFailed
  BY Zenon, <1>4 DEF PidfdFailed, Ladder, Return
<1>5. CASE ObserveChildExit
  BY Zenon, <1>5 DEF ObserveChildExit, kernelVars, leaderVars, resultVars
<1>6. CASE ObserveCancellation \/ ReleaseGate
  <2>1. requested' = requested
    BY <1>6, Zenon DEF ObserveCancellation, ReleaseGate, kernelVars
  <2> QED BY Zenon, <1>6, <2>1, GateShape DEF leaderVars, resultVars
<1>7. CASE \/ SampleNow
           \/ ListProcesses("term", "term_send")
           \/ ListProcesses("force", "force_send")
           \/ BeginCleanupLists
           \/ ListProcesses("kill", "kill_send")
           \/ ListProcesses("gone", "gone_check")
           \/ ListProcesses("last", "last_send")
           \/ CheckGone
           \/ SendCancellationSignal \/ SendForcedSignal
           \/ BeginCleanupAfterCancel \/ BeginCleanup
           \/ RepeatKill \/ CleanupOverdue
           \/ GroupGone \/ GroupThere \/ GroupTerm \/ GroupKill
  <2>1. requested' = requested
    BY <1>7, Zenon DEF SampleNow, ListProcesses, BeginCleanupLists, CheckGone,
       SendCancellationSignal, SendForcedSignal, BeginCleanupAfterCancel,
       BeginCleanup, RepeatKill, CleanupOverdue, Sending, GroupGone,
       GroupThere, GroupTerm, GroupKill, InGroupCleanup, kernelVars
  <2> QED BY Zenon, <1>7, <2>1, QuietShape DEF resultVars
<1>8. CASE Reap
  BY Zenon, <1>8 DEF Reap, resultVars
<1>9. CASE Drain \/ ReadControl \/ ReadReady
  <2>1. requested' = requested
    BY <1>9, Zenon DEF Drain, ReadControl, ReadReady, Reading
  <2> QED BY Zenon, <1>9, <2>1, ReadShape DEF leaderVars, resultVars
<1>10. CASE Classify
  BY Zenon, <1>0, <1>10, ClassifyShape DEF kernelVars, leaderVars
<1> QED BY <1>1, <1>2, <1>3, <1>4, <1>5, <1>6, <1>7, <1>8, <1>9, <1>10, Zenon
        DEF Supervise

\* The leader, the program and the environment give no answer and reap no one; the
\* leader executes while it is present, and only a request changes requested.
LEMMA SeenMoves ==
    ASSUME LeaderStep \/ ProgramStep \/ EnvironmentStep
    PROVE  /\ UNCHANGED supervisorVars
           /\ \/ UNCHANGED <<child, ran>> /\ (requested' = requested \/ requested')
              \/ /\ child \in Alive /\ child' \in Alive \cup {"zombie"}
                 /\ UNCHANGED requested
                 /\ ran' = ran \/ ran' = TRUE
<1>0. UNCHANGED supervisorVars
      /\ (ChildMain(ready_open, start_open) \/ Program \/ Environment)
  BY Zenon DEF LeaderStep, ProgramStep, EnvironmentStep
<1>1. ASSUME Environment
      PROVE  UNCHANGED <<child, ran>> /\ (requested' = requested \/ requested')
  <2>1. UNCHANGED <<child, ran>>
    BY Zenon, <1>1, LeaderKeptBy
  <2>2. requested' = requested \/ requested'
    BY <1>1, Zenon DEF Environment, RequestCancellation, Expire, MemberExit,
       MemberReaped, MemberForks, ForkedBy, MemberWrites, WrittenBy,
       MemberCloses, ClosedBy, NumberReused, LeakCloses, LeaderKilled
  <2> QED BY Zenon, <2>1, <2>2
<1>2. ASSUME ChildMain(ready_open, start_open) \/ Program
      PROVE  /\ child \in Alive /\ child' \in Alive \cup {"zombie"}
             /\ UNCHANGED requested
             /\ ran' = ran \/ ran' = TRUE
  <2>1. child \in Alive
    BY <1>2, Zenon DEF ChildMain, ChildSetup, ChildSetupFails, ChildReady,
       ChildGate, ChildExec, ChildExecFails, ChildExit, ChildDies, Program,
       ProgramExits, ProgramForks, ProgramWrites, ProgramCloses, Setup, Alive,
       BeforeExec
  <2>2. child' \in Alive \cup {"zombie"}
    BY <1>2, <2>1, Zenon
    DEF ChildMain, ChildSetup, NextStage, ChildSetupFails, ReportChildError,
        ChildReady, ChildGate, ChildExec, ChildExecFails, ChildExit, ChildDies,
        Exit, Program, ProgramExits, ProgramForks, ProgramWrites,
        ProgramCloses, ForkedBy, WrittenBy, ClosedBy, leaderVars, Alive,
        BeforeExec, SetupStages
  <2>3. UNCHANGED requested /\ (ran' = ran \/ ran' = TRUE)
    BY <1>2, Zenon
    DEF ChildMain, ChildSetup, ChildSetupFails, ReportChildError, ChildReady,
        ChildGate, ChildExec, ChildExecFails, ChildExit, ChildDies, Exit,
        Program, ProgramExits, ProgramForks, ProgramWrites, ProgramCloses,
        ForkedBy, WrittenBy, ClosedBy, leaderVars
  <2> QED BY Zenon, <2>1, <2>2, <2>3
<1> QED BY Zenon, <1>0, <1>1, <1>2

\* A step of execute_backend observes, signals or reports a cancellation only when
\* one was requested.
LEMMA RequestStep ==
    ASSUME SafetyInv, RequestInv, Supervise
    PROVE  RequestInv'
<1>0. TypeOK /\ FlowInv /\ UNCHANGED requested
  BY Zenon, SeenStep DEF SafetyInv
<1>1. ASSUME UNCHANGED <<cancellation_observed, cancellation_signal_delivered>>,
             result' = result \/ result' \notin CancelledResults \/ requested
      PROVE  RequestInv'
  BY Zenon, <1>0, <1>1 DEF RequestInv
<1>2. CASE \/ CheckProfile
           \/ CancelCheck("cancel_1", "admission")
           \/ AdmitResources
           \/ CancelCheck("cancel_2", "interpreter")
           \/ AdmitInterpreter
           \/ CancelCheck("cancel_3", "pipes")
           \/ MakePipes \/ Fork \/ OpenPidfd \/ PidfdFailed
  <2>1. UNCHANGED <<cancellation_observed, cancellation_signal_delivered>>
    <3>1. CASE OpenPidfd
      BY Zenon, <3>1, PidfdShape DEF cancelVars
    <3>2. CASE ~OpenPidfd
      <4>1. UNCHANGED loopVars
        BY <1>2, <3>2, Zenon DEF CheckProfile, CancelCheck, AdmitResources,
           AdmitInterpreter, MakePipes, Fork, PidfdFailed, Refuse, Proceed, Ladder
      <4> QED BY Zenon, <4>1 DEF loopVars, cancelVars
    <3> QED BY Zenon, <3>1, <3>2
  <2>2. \/ result' = result
        \/ requested
        \/ \E kind \in NotStartedResults \ CancelledResults : result' = kind
    <3>1. {"backend_unsupported", "request_rejected", "interpreter_unavailable",
           "resource_admission_failed", "process_start_failed"}
            \subseteq NotStartedResults \ CancelledResults
      BY Zenon DEF NotStartedResults, CancelledResults
    <3> QED
      BY Zenon, <1>2, <3>1 DEF CheckProfile, CancelCheck, AdmitResources,
         AdmitInterpreter, MakePipes, Fork, OpenPidfd, PidfdFailed, Refuse,
         Proceed, Return, Advance, resultVars
  <2> QED BY Zenon, <1>1, <2>1, <2>2
<1>3. CASE ObserveChildExit
  BY Zenon, <1>1, <1>3 DEF ObserveChildExit, cancelVars, resultVars
<1>4. CASE ObserveCancellation \/ ReleaseGate
  <2>1. /\ UNCHANGED <<cancellation_signal_delivered, result>>
        /\ cancellation_observed' = cancellation_observed \/ requested
    BY <1>4, Zenon DEF ObserveCancellation, ReleaseGate, NoteCancellation,
       resultVars
  <2> QED BY <1>0, <2>1 DEF RequestInv
<1>5. CASE SendCancellationSignal
  <2>1. UNCHANGED <<cancellation_observed, result>> /\ cancellation_observed
    BY Zenon, <1>0, <1>5 DEF SendCancellationSignal, Sending, FlowInv, SendDue,
       resultVars
  <2> QED BY Zenon, <1>0, <2>1 DEF RequestInv
<1>6. CASE \/ SampleNow
           \/ ListProcesses("term", "term_send")
           \/ ListProcesses("force", "force_send")
           \/ BeginCleanupLists
           \/ ListProcesses("kill", "kill_send")
           \/ ListProcesses("gone", "gone_check")
           \/ ListProcesses("last", "last_send")
           \/ CheckGone
           \/ SendForcedSignal
           \/ BeginCleanupAfterCancel \/ BeginCleanup
           \/ RepeatKill \/ CleanupOverdue
           \/ GroupGone \/ GroupThere \/ GroupTerm \/ GroupKill
  <2>1. UNCHANGED cancellation_signal_delivered
    BY <1>6, Zenon DEF SampleNow, ListProcesses, BeginCleanupLists, CheckGone,
       SendForcedSignal, BeginCleanupAfterCancel, BeginCleanup, RepeatKill,
       CleanupOverdue, GroupGone, GroupThere, GroupTerm, GroupKill,
       InGroupCleanup, cancelVars
  <2> QED BY Zenon, <1>1, <1>6, <2>1, QuietShape DEF resultVars
<1>7. CASE Reap
  BY Zenon, <1>1, <1>7 DEF Reap, cancelVars, resultVars
<1>8. CASE Drain \/ ReadControl \/ ReadReady
  BY Zenon, <1>1, <1>8, ReadShape DEF cancelVars, resultVars
<1>9. CASE Classify
  <2>1. UNCHANGED <<cancellation_observed, cancellation_signal_delivered>>
    BY Zenon, <1>0, <1>9, ClassifyShape DEF loopVars, cancelVars
  <2>2. CASE NotStarted
    <3>1. CASE cancellation_observed
      BY Zenon, <1>1, <2>1, <3>1 DEF RequestInv
    <3>2. CASE ~cancellation_observed
      <4>1. result' \notin CancelledResults
        BY Zenon, <1>0, <2>2, <3>2
        DEF NotStarted, ChildFailureKind, Return, CancelledResults, TypeOK,
            ProgressType, SetupStages
      <4> QED BY Zenon, <1>1, <2>1, <4>1
    <3> QED BY Zenon, <3>1, <3>2
  <2>3. CASE Started
    <3>1. result' = StartedResult
      BY Zenon, <2>3 DEF Started, Return
    <3>2. result' \in CancelledResults => cancellation_signal_delivered
      BY Zenon, <3>1 DEF StartedResult, ProgramResult, CancelledResults
    <3> QED BY Zenon, <1>1, <2>1, <3>2 DEF RequestInv
  <2> QED BY Zenon, <1>9, <2>2, <2>3 DEF Classify
<1> QED BY <1>2, <1>3, <1>4, <1>5, <1>6, <1>7, <1>8, <1>9, Zenon DEF Supervise

\* In every reachable state a cancellation that was observed, signaled or reported
\* was requested (observe_cancellation, the checks before fork).
LEMMA RequestInvariant == Spec => []RequestInv
<1>1. Init => RequestInv
  BY Zenon DEF Init, KernelInit, SupervisorInit, RequestInv, CancelledResults
<1>2. SafetyInv /\ RequestInv /\ [Next]_vars => RequestInv'
  <2>1. ASSUME RequestInv, LeaderStep \/ ProgramStep \/ EnvironmentStep
        PROVE  RequestInv'
    <3>1. UNCHANGED <<cancellation_observed, cancellation_signal_delivered,
                      result>>
      BY Zenon, <2>1, SeenMoves DEF supervisorVars, loopVars, cancelVars, resultVars
    <3>2. requested' = requested \/ requested'
      BY <2>1, SeenMoves, Zenon
    <3> QED BY <2>1, <3>1, <3>2, Zenon DEF RequestInv
  <2>2. ASSUME RequestInv, UNCHANGED vars PROVE RequestInv'
    BY Zenon, <2>2
    DEF vars, kernelVars, supervisorVars, loopVars, cancelVars, resultVars,
        RequestInv
  <2> QED BY <2>1, <2>2, RequestStep, Zenon DEF Next, Terminated
<1> QED BY <1>1, <1>2, SafetyInvariant, PTL DEF Spec

\* One step of the implementation is one step of the contract or none.
LEMMA ContractStep ==
    ASSUME SafetyInv, SafetyInv', NotStartedMeansNotRun', StartedMeansRan',
           RequestInv', [Next]_vars
    PROVE  [Contract!Next]_Contract!vars
<1>0. /\ TypeOK /\ FlowInv /\ LeaderInv
      /\ TypeOK' /\ FlowInv' /\ LeaderInv'
  BY Zenon DEF SafetyInv
<1>1. CASE Supervise
  <2>1. UNCHANGED <<requested, ran>>
    BY Zenon, <1>1, SeenStep
  <2>2. CASE UNCHANGED <<child, result>>
    BY Zenon, <2>1, <2>2 DEF Contract!vars, LeaderSeen
  <2>3. CASE pc = "fork" /\ child' = "process_group" /\ UNCHANGED result
    <3>1. child = "none" /\ result = "none"
      BY Zenon, <1>0, <2>3 DEF LeaderInv, FlowInv, LadderLabels
    <3>2. Contract!Create
      BY Zenon, <2>1, <2>3, <3>1 DEF Contract!Create, LeaderSeen
    <3> QED BY Zenon, <3>2 DEF Contract!Next
  <2>4. CASE pc = "reap" /\ child' = "reaped" /\ UNCHANGED result
    <3>1. pc \in LoopLabels /\ child_exited /\ ~child_reaped
      BY Zenon, <1>0, <2>4, LoopIsApart DEF FlowInv
    <3>2. child = "zombie"
      BY Zenon, <1>0, <3>1 DEF LeaderInv
    <3>3. Contract!Reap
      BY Zenon, <2>1, <2>4, <3>2 DEF Contract!Reap, LeaderSeen
    <3> QED BY Zenon, <3>3 DEF Contract!Next
  <2>5. CASE /\ pc # "done" /\ pc' = "done"
             /\ UNCHANGED child \/ (child = "zombie" /\ child' = "reaped")
    <3>1. result = "none" /\ result' # "none"
      BY Zenon, <1>0, <2>5 DEF FlowInv
    <3>2. child' \in {"none", "reaped"}
      BY Zenon, <1>0, <2>5 DEF LeaderInv
    <3>3. LeaderSeen' = IF LeaderSeen = "none" THEN "none" ELSE "reaped"
      BY Zenon, <2>5, <3>2 DEF LeaderSeen
    <3>4. result' \in NotStartedResults \cup StartedResults
      BY Zenon, <1>0, <3>1 DEF TypeOK, ProgressType
    <3>5. Contract!Truthful(result')
      BY Zenon, <2>1, <3>4 DEF Contract!Truthful, NotStartedMeansNotRun,
         StartedMeansRan, RequestInv
    <3>6. Contract!Answer
      BY Zenon, <2>1, <3>1, <3>3, <3>5 DEF Contract!Answer
    <3> QED BY Zenon, <3>6 DEF Contract!Next
  <2> QED BY Zenon, <1>1, <2>2, <2>3, <2>4, <2>5, SeenStep
<1>2. CASE LeaderStep \/ ProgramStep \/ EnvironmentStep
  <2>1. result' = result
    BY Zenon, <1>2, SeenMoves DEF supervisorVars, resultVars
  <2>2. CASE UNCHANGED <<child, ran>> /\ (requested' = requested \/ requested')
    <3>1. requested \in BOOLEAN /\ requested' \in BOOLEAN
      BY Zenon, <1>0 DEF TypeOK, KernelType
    <3>2. LeaderSeen' = LeaderSeen
      BY Zenon, <2>2 DEF LeaderSeen
    <3>3. CASE requested' = requested
      BY Zenon, <2>1, <2>2, <3>2, <3>3 DEF Contract!vars
    <3>4. CASE requested' # requested
      <4>1. ~requested /\ requested' = TRUE
        BY Zenon, <2>2, <3>1, <3>4
      <4>2. Contract!Request
        BY Zenon, <2>1, <2>2, <3>2, <4>1 DEF Contract!Request
      <4> QED BY Zenon, <4>2 DEF Contract!Next
    <3> QED BY Zenon, <3>3, <3>4
  <2>3. CASE /\ child \in Alive /\ child' \in Alive \cup {"zombie"}
             /\ UNCHANGED requested
             /\ ran' = ran \/ ran' = TRUE
    <3>1. LeaderSeen = "present" /\ LeaderSeen' = "present"
      BY Zenon, <2>3 DEF LeaderSeen, Alive, BeforeExec, SetupStages
    <3>2. CASE ran' = ran
      BY Zenon, <2>1, <2>3, <3>1, <3>2 DEF Contract!vars
    <3>3. CASE ran' # ran
      <4>1. ~ran /\ ran' = TRUE
        BY Zenon, <1>0, <2>3, <3>3 DEF TypeOK, KernelType
      <4>2. Contract!Execute
        BY Zenon, <2>1, <2>3, <3>1, <4>1 DEF Contract!Execute
      <4> QED BY Zenon, <4>2 DEF Contract!Next
    <3> QED BY Zenon, <3>2, <3>3
  <2> QED BY Zenon, <1>2, <2>2, <2>3, SeenMoves
<1>3. CASE UNCHANGED vars
  BY Zenon, <1>3 DEF vars, kernelVars, leaderVars, supervisorVars, resultVars,
     Contract!vars, LeaderSeen
<1> QED BY Zenon, <1>1, <1>2, <1>3 DEF Next, Terminated

\* For any number of group members, any leaked pipe ends and any faults but a
\* leader killed from outside and a control pipe that cannot be read,
\* execute_backend implements the contract: it gives one answer, after the leader
\* is reaped, that is true about the execution and about cancellation.
THEOREM ContractIsKept ==
    ASSUME "control_read" \notin Faults, "kill" \notin Faults
    PROVE  Spec => ImplementsContract
<1>1. Init => Contract!Init
  BY Zenon DEF Init, KernelInit, SupervisorInit, Contract!Init, LeaderSeen
<1>2. Spec => []NotStartedMeansNotRun
  BY Zenon, NotStartedIsTrue
<1>3. Spec => []StartedMeansRan
  BY Zenon, StartedIsTrue
<1> QED BY <1>1, <1>2, <1>3, ContractStep, SafetyInvariant, RequestInvariant,
           PTL DEF Spec, Contract!Spec, ImplementsContract

\* Whatever fails, execute_backend does not return before it has tried to remove
\* the scratch directory of an isolated admission (verify_parent_cleanup and the
\* destructor of isolated_admission).
THEOREM ScratchAlwaysRemoved == Spec => []ScratchIsRemoved
<1>1. Init => ScratchIsRemoved
  BY Zenon DEF Init, SupervisorInit, ScratchIsRemoved
<1>2. SafetyInv /\ ScratchIsRemoved /\ [Next]_vars => ScratchIsRemoved'
  <2> SUFFICES ASSUME SafetyInv, ScratchIsRemoved, [Next]_vars
               PROVE  ScratchIsRemoved'
    BY Zenon
  <2>1. ASSUME VerifyParentCleanup PROVE scratch' # "made"
    BY Zenon, <2>1 DEF VerifyParentCleanup
  <2>2. CASE \/ CheckProfile
             \/ CancelCheck("cancel_1", "admission")
             \/ AdmitResources
             \/ CancelCheck("cancel_2", "interpreter")
             \/ AdmitInterpreter
             \/ CancelCheck("cancel_3", "pipes")
             \/ MakePipes \/ Fork \/ OpenPidfd \/ PidfdFailed \/ Classify
    <3>1. VerifyParentCleanup \/ pc' # "done"
      BY Zenon, <2>2 DEF CheckProfile, CancelCheck, AdmitResources, AdmitInterpreter,
         MakePipes, Fork, OpenPidfd, PidfdFailed, Classify, Refuse, Proceed,
         Advance
    <3> QED BY Zenon, <2>1, <3>1 DEF ScratchIsRemoved
  <2>3. CASE \/ ObserveCancellation \/ ReleaseGate
             \/ SampleNow
             \/ ListProcesses("term", "term_send")
             \/ ListProcesses("force", "force_send")
             \/ BeginCleanupLists
             \/ ListProcesses("kill", "kill_send")
             \/ ListProcesses("gone", "gone_check")
             \/ ListProcesses("last", "last_send")
             \/ CheckGone
             \/ SendCancellationSignal \/ SendForcedSignal
             \/ BeginCleanupAfterCancel \/ BeginCleanup
             \/ RepeatKill \/ CleanupOverdue
             \/ GroupGone \/ GroupThere \/ GroupTerm \/ GroupKill
             \/ Drain \/ ReadControl \/ ReadReady
    <3>1. pc' \in LoopLabels
      BY <2>3, QuietShape, GateShape, ReadShape, Zenon
    <3> QED BY Zenon, <3>1, LoopIsApart DEF ScratchIsRemoved
  <2>4. CASE ObserveChildExit \/ Reap
    <3>1. pc' \in LoopLabels
      BY Zenon, <2>4, LabelPlaces, LoopIsApart DEF ObserveChildExit, Reap
    <3> QED BY Zenon, <3>1, LoopIsApart DEF ScratchIsRemoved
  <2>5. CASE LeaderStep \/ ProgramStep \/ EnvironmentStep \/ UNCHANGED vars
    <3>1. UNCHANGED supervisorVars
      BY Zenon, <2>5, SeenMoves DEF vars
    <3> QED BY Zenon, <3>1 DEF supervisorVars, ScratchIsRemoved
  <2> QED BY <2>2, <2>3, <2>4, <2>5, Zenon DEF Next, Supervise, Terminated
<1> QED BY <1>1, <1>2, SafetyInvariant, PTL DEF Spec
=============================================================================
