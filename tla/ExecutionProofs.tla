--------------------------- MODULE ExecutionProofs --------------------------
(***************************************************************************)
(* Executions are typed, and the supervisor, the leader and the gate       *)
(* agree: type correctness, an inductive invariant and its consequences,   *)
(* for every set of members, every bound on the pipes, every set of leaks  *)
(* and every set of requests.                                              *)
(***************************************************************************)
EXTENDS Execution, TLAPS

(***************************************************************************)
(* Type correctness: the initial states, the environment, the leader and   *)
(* its program, the supervisor step by step, and a whole execution.        *)
(***************************************************************************)
\* The initial states are typed.
LEMMA InitType == Init => TypeOK
<1> SUFFICES ASSUME Init PROVE TypeOK
  BY Zenon
<1> USE DEF Init
<1>1. controlled \in BOOLEAN /\ isolated \in BOOLEAN /\ capture \in BOOLEAN
  BY Zenon, RequestAssumption DEF KernelInit
<1>2. child \in ChildState /\ pc \in Labels
  BY Zenon DEF KernelInit, SupervisorInit, ChildState, Labels
<1>3. mem \in [Procs -> MemState]
  BY Zenon DEF KernelInit, MemState
<1>4. unread \in 0..MaxChunks /\ leak \in SUBSET PipeEnds
  BY KernelAssumption DEF KernelInit
<1>5. cancel_timer \in Timer /\ cleanup_timer \in Timer
  BY Zenon DEF KernelInit, Timer
<1>6. KernelType
  BY <1>1, <1>2, <1>3, <1>4, <1>5, Zenon DEF KernelInit, KernelType
<1>7. ProgressType
  BY <1>2, Zenon DEF SupervisorInit, ProgressType
<1>8. CleanupType
  BY Zenon DEF SupervisorInit, CleanupType
<1> QED BY Zenon, <1>6, <1>7, <1>8 DEF TypeOK

\* A step that leaves the supervisor alone keeps its variables typed.
LEMMA SupervisorFrame ==
    ASSUME TypeOK, UNCHANGED supervisorVars
    PROVE  ProgressType' /\ CleanupType'
<1> USE DEF TypeOK, supervisorVars, loopVars
<1>1. ProgressType'
  BY DEF ProgressType, endVars, flowVars, resultVars
<1>2. CleanupType'
  BY ZenonT(40) DEF CleanupType, cancelVars, cleanVars, scanVars, historyVars
<1> QED BY Zenon, <1>1, <1>2

\* A step that leaves the leader, the group, the pipes and the clocks alone
\* keeps them typed.
LEMMA KernelFrame ==
    ASSUME TypeOK, UNCHANGED kernelVars
    PROVE  KernelType'
  BY DEF TypeOK, KernelType, kernelVars, requestVars, leaderVars, groupVars,
         pipeVars, timerVars

\* The environment (cancellation requests, clocks, members, leaks) keeps types.
LEMMA EnvironmentType == TypeOK /\ EnvironmentStep => TypeOK'
<1> SUFFICES ASSUME TypeOK, UNCHANGED supervisorVars, Environment
             PROVE  TypeOK'
  BY Zenon DEF EnvironmentStep
<1> SUFFICES KernelType'
  BY Zenon, SupervisorFrame DEF TypeOK
<1> KernelType
  BY Zenon DEF TypeOK
<1> USE DEF requestVars, leaderVars, groupVars, pipeVars, timerVars
<1>1. CASE RequestCancellation
  BY <1>1 DEF KernelType, RequestCancellation
<1>2. CASE Expire
  BY <1>2 DEF KernelType, Expire, Timer
<1>3. ASSUME NEW p \in Procs, MemberExit(p) \/ MemberReaped(p)
      PROVE  KernelType'
  BY <1>3 DEF KernelType, MemberExit, MemberReaped, MemState
<1>4. CASE MemberForks
  BY <1>4 DEF KernelType, MemberForks, ForkedBy, LiveMembers, MemState, Procs
<1>5. CASE MemberWrites
  BY <1>5, KernelAssumption DEF KernelType, MemberWrites, WrittenBy
<1>6. CASE MemberCloses
  BY <1>6 DEF KernelType, MemberCloses, ClosedBy
<1>7. CASE NumberReused
  BY <1>7 DEF KernelType, NumberReused, MemState, Procs
<1>8. CASE LeakCloses
  BY <1>8 DEF KernelType, LeakCloses
<1>9. CASE LeaderKilled
  BY <1>9 DEF KernelType, LeaderKilled
<1> QED BY Zenon, <1>1, <1>2, <1>3, <1>4, <1>5, <1>6, <1>7, <1>8, <1>9
        DEF Environment

\* child_main and the program keep types.
LEMMA LeaderType == TypeOK /\ (LeaderStep \/ ProgramStep) => TypeOK'
<1> SUFFICES ASSUME TypeOK, UNCHANGED supervisorVars,
                    ChildMain(ready_open, start_open) \/ Program
             PROVE  TypeOK'
  BY Zenon DEF LeaderStep, ProgramStep
<1> SUFFICES KernelType'
  BY Zenon, SupervisorFrame DEF TypeOK
<1> KernelType
  BY Zenon DEF TypeOK
<1> USE DEF requestVars, leaderVars, groupVars, pipeVars, timerVars
<1>1. CASE ChildSetup
  BY <1>1 DEF KernelType, ChildSetup, NextStage, ChildState, Alive,
     BeforeExec, SetupStages
<1>2. CASE ChildSetupFails
  BY <1>2 DEF KernelType, ChildSetupFails, ReportChildError, ChildState,
     Alive
<1>3. CASE ChildReady(ready_open)
  <2>1. child' \in ChildState
    BY Zenon, <1>3 DEF KernelType, ChildReady, ChildState, Alive, BeforeExec
  <2>2. ready_byte' \in BOOLEAN
    BY <1>3, Zenon DEF KernelType, ChildReady
  <2> QED
    BY <1>3, <2>1, <2>2 DEF KernelType, ChildReady
<1>4. CASE ChildGate(start_open)
  <2>1. child' \in ChildState
    BY Zenon, <1>4 DEF KernelType, ChildGate, ChildState, Alive, BeforeExec
  <2>2. start_byte' \in BOOLEAN
    BY <1>4, Zenon DEF KernelType, ChildGate
  <2> QED
    BY <1>4, <2>1, <2>2 DEF KernelType, ChildGate, GatePassed
<1>5. CASE ChildExec
  BY <1>5 DEF KernelType, ChildExec, ChildState, Alive
<1>6. CASE ChildExecFails
  BY <1>6 DEF KernelType, ChildExecFails, ReportChildError, ChildState, Alive
<1>7. CASE ChildExit \/ ChildDies \/ ProgramExits
  <2>1. child' \in ChildState
    BY Zenon, <1>7 DEF KernelType, ChildExit, ChildDies, ProgramExits, Exit,
       ChildState
  <2>2. status' \in {"none", "zero", "nonzero", "signal"}
    BY Zenon, <1>7 DEF KernelType, ChildExit, ChildDies, ProgramExits, Exit
  <2>3. writers' \in SUBSET (Members \cup {"leader"})
    BY Zenon, <1>7 DEF KernelType, ChildExit, ChildDies, ProgramExits, Exit
  <2>4. doomed' \in BOOLEAN
    BY <1>7, Zenon DEF KernelType, ChildExit, ChildDies, ProgramExits, Exit
  <2>5. UNCHANGED <<requestVars, ran, groupVars, record, ready_byte, start_byte,
                   unread, leak, requested, timerVars>>
     BY Zenon, <1>7 DEF ChildExit, ChildDies, ProgramExits, Exit
  <2> QED
    BY <2>1, <2>2, <2>3, <2>4, <2>5 DEF KernelType
<1>8. CASE ProgramForks
  BY <1>8 DEF KernelType, ProgramForks, ForkedBy, MemState, Procs
<1>9. CASE ProgramWrites
  BY <1>9, KernelAssumption DEF KernelType, ProgramWrites, WrittenBy
<1>10. CASE ProgramCloses
  BY <1>10 DEF KernelType, ProgramCloses, ClosedBy
<1> QED BY Zenon, <1>1, <1>2, <1>3, <1>4, <1>5, <1>6, <1>7, <1>8, <1>9, <1>10
        DEF ChildMain, Program

\* A step of the ladder, whichever way it goes.
LEMMA ReturnType ==
    ASSUME TypeOK,
           NEW value \in NotStartedResults \cup StartedResults,
           NEW cleanup \in {"none", "verified", "failed"},
           Return(value, cleanup), VerifyParentCleanup
    PROVE  /\ pc' \in Labels /\ scratch' \in {"none", "made", "gone", "stuck"}
           /\ stream_open' \in BOOLEAN /\ control_open' \in BOOLEAN
           /\ ready_open' \in BOOLEAN /\ start_open' \in BOOLEAN
           /\ result' \in NotStartedResults \cup StartedResults \cup {"none"}
           /\ evidence' \in {"none", "verified", "failed"}
<1> ProgressType
  BY Zenon DEF TypeOK
<1>1. scratch' \in {"none", "made", "gone", "stuck"}
  BY Zenon DEF ProgressType, VerifyParentCleanup
<1> QED BY <1>1, Zenon DEF Return, Labels

\* A refusal of the admission ladder returns a typed result.
LEMMA RefuseType ==
    ASSUME TypeOK, NEW at, NEW fault, NEW kind \in NotStartedResults,
           Refuse(at, fault, kind)
    PROVE  TypeOK'
<1> KernelType /\ ProgressType /\ CleanupType
  BY Zenon DEF TypeOK
<1>1. KernelType'
  BY DEF KernelType, Refuse, Ladder, requestVars, leaderVars, groupVars,
     timerVars, kernelVars, pipeVars
<1>2. ProgressType'
  BY Zenon, ReturnType DEF ProgressType, Refuse, Ladder, loopVars, flowVars,
     endVars, resultVars
<1>3. CleanupType'
  BY ZenonT(40) DEF CleanupType, Refuse, Ladder, loopVars, cancelVars, cleanVars,
     scanVars, historyVars
<1> QED BY Zenon, <1>1, <1>2, <1>3 DEF TypeOK

\* A step of the ladder that goes on.
LEMMA ProceedType ==
    ASSUME TypeOK, NEW at, NEW next \in Labels, Proceed(at, next)
    PROVE  TypeOK'
<1> KernelType /\ ProgressType /\ CleanupType
  BY Zenon DEF TypeOK
<1>1. KernelType'
  BY DEF KernelType, Proceed, Ladder, Advance, requestVars, leaderVars,
     groupVars, timerVars, kernelVars, pipeVars
<1>2. ProgressType'
  BY DEF ProgressType, Proceed, Ladder, Advance, endVars, loopVars, flowVars,
     resultVars
<1>3. CleanupType'
  BY DEF CleanupType, Proceed, Ladder, Advance, loopVars, cancelVars,
     cleanVars, scanVars, historyVars
<1> QED BY Zenon, <1>1, <1>2, <1>3 DEF TypeOK

\* A cancellation check, whichever way it goes.
LEMMA CancelCheckType ==
    ASSUME TypeOK, NEW at, NEW next \in Labels, CancelCheck(at, next)
    PROVE  TypeOK'
<1> KernelType /\ ProgressType /\ CleanupType
  BY Zenon DEF TypeOK
<1>1. CASE controlled /\ requested
  <2>1. "cancelled_before_start" \in NotStartedResults
    BY Zenon DEF NotStartedResults
  <2>2. /\ Return("cancelled_before_start", "none") /\ VerifyParentCleanup
        /\ Ladder(at) /\ UNCHANGED leaderVars
    BY Zenon, <1>1 DEF CancelCheck
  <2>3. KernelType'
    BY <2>2 DEF KernelType, Ladder, requestVars, leaderVars, groupVars,
       timerVars
  <2>4. ProgressType'
    BY Zenon, <2>1, <2>2, ReturnType DEF ProgressType, Ladder, loopVars, flowVars
  <2>5. CleanupType'
    BY ZenonT(40), <2>2 DEF CleanupType, Ladder, loopVars, cancelVars, cleanVars,
       scanVars, historyVars
  <2> QED BY Zenon, <2>3, <2>4, <2>5 DEF TypeOK
<1>2. CASE ~(controlled /\ requested)
  BY Zenon, <1>2, ProceedType DEF CancelCheck, Proceed
<1> QED BY Zenon, <1>1, <1>2

\* The ladder as a whole, up to pidfd_open and its failure path.
LEMMA AdmissionType ==
    TypeOK /\ (\/ CheckProfile
               \/ CancelCheck("cancel_1", "admission")
               \/ AdmitResources
               \/ CancelCheck("cancel_2", "interpreter")
               \/ AdmitInterpreter
               \/ CancelCheck("cancel_3", "pipes")
               \/ MakePipes \/ Fork \/ OpenPidfd \/ PidfdFailed) => TypeOK'
<1> SUFFICES ASSUME TypeOK
             PROVE  (\/ CheckProfile
                     \/ CancelCheck("cancel_1", "admission")
                     \/ AdmitResources
                     \/ CancelCheck("cancel_2", "interpreter")
                     \/ AdmitInterpreter
                     \/ CancelCheck("cancel_3", "pipes")
                     \/ MakePipes \/ Fork \/ OpenPidfd \/ PidfdFailed)
                    => TypeOK'
  BY Zenon
<1> KernelType /\ ProgressType /\ CleanupType
  BY Zenon DEF TypeOK
<1>a. {"backend_unsupported", "request_rejected", "resource_admission_failed",
       "interpreter_unavailable", "process_start_failed"} \subseteq
      NotStartedResults
  BY Zenon DEF NotStartedResults
<1>b. {"cancel_1", "admission", "cancel_2", "interpreter", "cancel_3", "pipes",
       "fork", "pidfd", "pidfd_failed", "exit"} \subseteq Labels
  BY Zenon DEF Labels
<1>1. ASSUME CheckProfile PROVE TypeOK'
  BY Zenon, <1>1, <1>a, <1>b, RefuseType, ProceedType DEF CheckProfile
<1>2. ASSUME \/ CancelCheck("cancel_1", "admission")
           \/ CancelCheck("cancel_2", "interpreter")
           \/ CancelCheck("cancel_3", "pipes")
      PROVE  TypeOK'
  BY Zenon, <1>2, <1>b, CancelCheckType
<1>3. ASSUME AdmitResources PROVE TypeOK'
  <2>1. CASE \/ Refuse("admission", "request", "request_rejected")
             \/ Refuse("admission", "admission", "resource_admission_failed")
    BY Zenon, <2>1, <1>a, RefuseType
  <2>2. CASE Ladder("admission") /\ Advance("cancel_2")
             /\ scratch' = (IF isolated THEN "made" ELSE "none")
             /\ UNCHANGED leaderVars
    <3>1. KernelType'
      BY <2>2, <1>b DEF KernelType, Ladder, Advance, requestVars,
         leaderVars, groupVars, timerVars, kernelVars, pipeVars
    <3>2. ProgressType'
      BY <2>2, <1>b DEF ProgressType, Ladder, Advance, endVars, loopVars,
         flowVars, resultVars
    <3>3. CleanupType'
      BY ZenonT(40), <2>2, <1>b DEF CleanupType, Ladder, Advance, loopVars,
         cancelVars, cleanVars, scanVars, historyVars
    <3> QED BY Zenon, <3>1, <3>2, <3>3 DEF TypeOK
  <2> QED BY Zenon, <1>3, <2>1, <2>2 DEF AdmitResources
<1>4. ASSUME AdmitInterpreter PROVE TypeOK'
  BY Zenon, <1>4, <1>a, <1>b, RefuseType, ProceedType DEF AdmitInterpreter
<1>5. ASSUME MakePipes PROVE TypeOK'
  <2>1. CASE Refuse("pipes", "pipes", "process_start_failed")
    BY Zenon, <2>1, <1>a, RefuseType
  <2>2. CASE /\ Ladder("pipes") /\ pc' = "fork"
             /\ stream_open' = TRUE /\ control_open' = TRUE
             /\ ready_open' = TRUE /\ start_open' = TRUE
             /\ UNCHANGED <<scratch, leaderVars, resultVars>>
    <3>1. KernelType'
      BY <2>2, <1>b DEF KernelType, Ladder, Advance, kernelVars,
         requestVars, leaderVars, groupVars, pipeVars, timerVars
    <3>2. ProgressType'
      BY <2>2, <1>b DEF ProgressType, Ladder, Advance, endVars, loopVars,
         flowVars, resultVars
    <3>3. CleanupType'
      BY ZenonT(40), <2>2, <1>b DEF CleanupType, Ladder, Advance, loopVars,
         cancelVars, cleanVars, scanVars, historyVars
    <3> QED BY Zenon, <3>1, <3>2, <3>3 DEF TypeOK
  <2> QED BY <1>5, <2>1, <2>2, Zenon DEF MakePipes
<1>6. ASSUME Fork PROVE TypeOK'
  <2>1. CASE Refuse("fork", "fork", "process_start_failed")
    BY Zenon, <2>1, <1>a, RefuseType
  <2>2. "process_group" \in ChildState
    BY Zenon DEF ChildState, Alive, BeforeExec, SetupStages
  <2>3. CASE /\ Ladder("fork")
             /\ Advance(IF controlled THEN "pidfd" ELSE "exit")
             /\ child' = "process_group"
             /\ UNCHANGED <<scratch, status, doomed, ran>>
    <3>1. pc' \in Labels
      BY Zenon, <2>3, <1>b DEF Advance
    <3>2. child' \in ChildState
      BY Zenon, <2>3, <2>2
    <3>3. KernelType'
      BY <2>3, <3>1, <3>2 DEF KernelType, Ladder, Advance, kernelVars,
         requestVars, leaderVars, groupVars, pipeVars, timerVars
    <3>4. ProgressType'
      BY <2>3, <3>1, <3>2 DEF ProgressType, Ladder, Advance, endVars,
         loopVars, flowVars, resultVars
    <3>5. CleanupType'
      BY ZenonT(40), <2>3, <3>1, <3>2 DEF CleanupType, Ladder, Advance, loopVars,
         cancelVars, cleanVars, scanVars, historyVars
    <3> QED BY Zenon, <3>3, <3>4, <3>5 DEF TypeOK
  <2> QED BY Zenon, <1>6, <2>1, <2>3 DEF Fork
<1>7. ASSUME OpenPidfd PROVE TypeOK'
  <2>1. CASE Proceed("pidfd", "exit")
    BY Zenon, <2>1, <1>b, ProceedType
  <2>2. CASE ~Proceed("pidfd", "exit")
    <3>1. doomed' \in BOOLEAN /\ pc' \in Labels
      BY <1>7, <2>2, <1>b, Zenon DEF KernelType, Advance, ProgressType,
         OpenPidfd, KillLeader, Labels
    <3>2. /\ start_open' = FALSE
          /\ hasty' = hasty \cup Hasty({})
          /\ UNCHANGED <<requestVars, child, status, ran, groupVars, pipeVars,
                         requested, timerVars, scratch, stream_open,
                         control_open, ready_open, flowVars, cancelVars,
                         cleanVars, past, scanVars, late, resultVars>>
      BY Zenon, <1>7, <2>2 DEF OpenPidfd
    <3>3. start_open' \in BOOLEAN /\ hasty' \in SUBSET {"leader", "member"}
      BY <1>b, <3>2, Zenon DEF CleanupType, Hasty
    <3>4. KernelType'
      BY <1>b, <3>1, <3>2 DEF KernelType, requestVars, groupVars, pipeVars, timerVars
    <3>5. ProgressType'
      BY <1>b, <3>1, <3>2, <3>3 DEF ProgressType, flowVars, resultVars
    <3>6. CleanupType'
      BY ZenonT(40), <1>b, <3>2, <3>3 DEF CleanupType, cancelVars, cleanVars, scanVars
    <3> QED BY Zenon, <3>4, <3>5, <3>6 DEF TypeOK
  <2> QED BY Zenon, <2>1, <2>2
<1>8. ASSUME PidfdFailed PROVE TypeOK'
  <2>1. child' \in ChildState
    BY Zenon, <1>8 DEF KernelType, Ladder, Advance, PidfdFailed, ChildState
  <2>2. Return("process_start_failed", "none") /\ VerifyParentCleanup
    BY Zenon, <1>8 DEF PidfdFailed
  <2>3. /\ pc' \in Labels /\ scratch' \in {"none", "made", "gone", "stuck"}
        /\ stream_open' \in BOOLEAN /\ control_open' \in BOOLEAN
        /\ ready_open' \in BOOLEAN /\ start_open' \in BOOLEAN
        /\ result' \in NotStartedResults \cup StartedResults \cup {"none"}
        /\ evidence' \in {"none", "verified", "failed"}
    BY Zenon, <2>2, <1>a, ReturnType
  <2>4. KernelType'
    BY <1>8, <2>1, <2>3 DEF KernelType, Ladder, Advance, PidfdFailed,
       kernelVars, requestVars, leaderVars, groupVars, pipeVars, timerVars
  <2>5. ProgressType'
    BY Zenon, <1>8, <2>1, <2>3 DEF ProgressType, Ladder, Advance, PidfdFailed,
       endVars, loopVars, flowVars, resultVars
  <2>6. CleanupType'
    BY ZenonT(40), <1>8, <2>1, <2>3 DEF CleanupType, Ladder, Advance, PidfdFailed,
       loopVars, cancelVars, cleanVars, scanVars, historyVars
  <2> QED BY Zenon, <2>4, <2>5, <2>6 DEF TypeOK
<1> QED BY Zenon, <1>1, <1>2, <1>3, <1>4, <1>5, <1>6, <1>7, <1>8

\* The top of the loop: exit, cancellation, gate.
LEMMA FlowType ==
    TypeOK /\ (\/ ObserveChildExit
               \/ ObserveCancellation
               \/ ReleaseGate
               \/ SampleNow) => TypeOK'
<1> SUFFICES ASSUME TypeOK
             PROVE  (\/ ObserveChildExit
                     \/ ObserveCancellation
                     \/ ReleaseGate
                     \/ SampleNow) => TypeOK'
  BY Zenon
<1> KernelType /\ ProgressType /\ CleanupType
  BY Zenon DEF TypeOK
<1>1. ASSUME ObserveChildExit PROVE TypeOK'
  <2>1. pc' \in Labels
    BY Zenon, <1>1 DEF ProgressType, ObserveChildExit, CancelLabel, GateLabel,
       TermLabel, Labels
  <2>2. child_exited' \in BOOLEAN
    BY Zenon, <1>1 DEF ProgressType, ObserveChildExit
  <2>3. KernelType'
    BY Zenon, <1>1, KernelFrame DEF ObserveChildExit
  <2>4. ProgressType'
    BY <1>1, <2>1, <2>2 DEF ProgressType, ObserveChildExit, endVars,
       loopVars, flowVars, resultVars
  <2>5. CleanupType'
    BY ZenonT(40), <1>1, <2>1, <2>2 DEF CleanupType, ObserveChildExit, loopVars,
       cancelVars, cleanVars, scanVars, historyVars
  <2> QED BY Zenon, <2>3, <2>4, <2>5 DEF TypeOK
<1>2. ASSUME ObserveCancellation PROVE TypeOK'
  <2>1. pc' \in Labels
    BY Zenon, <1>2 DEF ProgressType, ObserveCancellation, GateLabel, TermLabel,
       Labels
  <2>2. /\ cancellation_observed' \in BOOLEAN
        /\ cancellation_before_start' \in BOOLEAN
        /\ start_open' \in BOOLEAN
    BY <1>2, Zenon DEF ProgressType, CleanupType, ObserveCancellation,
       NoteCancellation
  <2>3. KernelType'
    BY Zenon, <1>2, KernelFrame DEF ObserveCancellation
  <2>4. ProgressType'
    BY <1>2, <2>1, <2>2 DEF ProgressType, ObserveCancellation, endVars,
       loopVars, flowVars, resultVars
  <2>5. CleanupType'
    BY Zenon, <1>2, <2>1, <2>2 DEF CleanupType, ObserveCancellation, loopVars,
       cancelVars, cleanVars, scanVars, historyVars
  <2> QED BY Zenon, <2>3, <2>4, <2>5 DEF TypeOK
<1>3. ASSUME ReleaseGate PROVE TypeOK'
  <2>1. pc' \in Labels
    BY Zenon, <1>3 DEF ProgressType, ReleaseGate, TermLabel, Labels
  <2>2. /\ cancellation_observed' \in BOOLEAN
        /\ cancellation_before_start' \in BOOLEAN
    BY <1>3, Zenon DEF CleanupType, ReleaseGate, NoteCancellation
  <2>3. start_open' \in BOOLEAN
    BY <1>3, Zenon DEF ProgressType, ReleaseGate, NoteCancellation
  <2>4. start_released' \in BOOLEAN /\ start_byte' \in BOOLEAN
    BY <1>3, Zenon DEF KernelType, ProgressType, ReleaseGate
  <2>5. KernelType'
    BY <1>3, <2>1, <2>2, <2>3, <2>4 DEF KernelType, ReleaseGate,
       kernelVars, requestVars, leaderVars, groupVars, pipeVars, timerVars
  <2>6. ProgressType'
    BY <1>3, <2>1, <2>2, <2>3, <2>4 DEF ProgressType, ReleaseGate, endVars,
       loopVars, flowVars, resultVars
  <2>7. CleanupType'
    BY Zenon, <1>3, <2>1, <2>2, <2>3, <2>4 DEF CleanupType, ReleaseGate, loopVars,
       cancelVars, cleanVars, scanVars, historyVars
  <2> QED BY Zenon, <2>5, <2>6, <2>7 DEF TypeOK
<1>4. ASSUME SampleNow PROVE TypeOK'
  <2>1. pc' \in Labels
    BY Zenon, <1>4 DEF ProgressType, SampleNow, BeginLabel, CleanLabel, ReapLabel,
       Labels
  <2>2. past' \in BOOLEAN
    BY Zenon, <1>4 DEF CleanupType, SampleNow
  <2>3. KernelType'
    BY Zenon, <1>4, KernelFrame DEF SampleNow
  <2>4. ProgressType'
    BY <1>4, <2>1, <2>2 DEF ProgressType, SampleNow, endVars, loopVars,
       flowVars, resultVars
  <2>5. CleanupType'
    BY Zenon, <1>4, <2>1, <2>2 DEF CleanupType, SampleNow, loopVars, cancelVars,
       cleanVars, scanVars, historyVars
  <2> QED BY Zenon, <2>3, <2>4, <2>5 DEF TypeOK
<1> QED BY Zenon, <1>1, <1>2, <1>3, <1>4

\* The group scans.
LEMMA ListType ==
    ASSUME TypeOK, NEW at, NEW next \in Labels, ListProcesses(at, next)
    PROVE  TypeOK'
<1> KernelType /\ ProgressType /\ CleanupType
  BY Zenon DEF TypeOK
<1>1. snap' \in SUBSET Procs /\ complete' \in BOOLEAN
  BY Zenon DEF CleanupType, ListProcesses, InGroup
<1>2. pc' \in Labels
  BY Zenon DEF ProgressType, ListProcesses
<1>3. UNCHANGED <<kernelVars, scratch, endVars, flowVars, cancelVars, cleanVars,
                  past, historyVars, resultVars>>
  BY Zenon DEF ListProcesses
<1>4. KernelType'
  BY Zenon, <1>3, KernelFrame
<1>5. ProgressType'
  BY <1>1, <1>2, <1>3 DEF ProgressType, endVars, flowVars, resultVars,
     loopVars
<1>6. CleanupType'
  BY Zenon, <1>1, <1>2, <1>3 DEF CleanupType, cancelVars, cleanVars, historyVars,
     loopVars, scanVars
<1> QED BY Zenon, <1>4, <1>5, <1>6 DEF TypeOK

\* The steps that list the group or look at the listing.
LEMMA ScanType ==
    TypeOK /\ (\/ ListProcesses("term", "term_send")
               \/ ListProcesses("force", "force_send")
               \/ BeginCleanupLists
               \/ ListProcesses("kill", "kill_send")
               \/ ListProcesses("gone", "gone_check")
               \/ ListProcesses("last", "last_send")
               \/ CheckGone) => TypeOK'
<1>1. {"term_send", "force_send", "begin_send", "kill_send", "gone_check",
       "last_send"} \subseteq Labels
  BY Zenon DEF Labels
<1>2. ASSUME TypeOK, CheckGone PROVE TypeOK'
  <2> KernelType /\ ProgressType /\ CleanupType
    BY Zenon, <1>2 DEF TypeOK
  <2>1. pc' \in Labels
    BY Zenon, <1>2 DEF ProgressType, CheckGone, ReapLabel, Labels
  <2>2. cleanup_complete' \in BOOLEAN
    BY Zenon, <1>2 DEF CleanupType, CheckGone
  <2>3. KernelType'
    BY Zenon, <1>2, KernelFrame DEF CheckGone
  <2>4. ProgressType'
    BY <1>2, <2>1, <2>2 DEF ProgressType, CheckGone, endVars, loopVars,
       flowVars, resultVars
  <2>5. CleanupType'
    BY Zenon, <1>2, <2>1, <2>2 DEF CleanupType, CheckGone, loopVars, cancelVars,
       cleanVars, scanVars, historyVars
  <2> QED BY Zenon, <2>3, <2>4, <2>5 DEF TypeOK
<1> QED BY Zenon, <1>1, <1>2, ListType DEF BeginCleanupLists

\* The signals.
LEMMA SendType ==
    TypeOK /\ (\/ SendCancellationSignal
               \/ SendForcedSignal
               \/ BeginCleanupAfterCancel
               \/ BeginCleanup
               \/ RepeatKill
               \/ CleanupOverdue) => TypeOK'
<1> SUFFICES ASSUME TypeOK
             PROVE  (\/ SendCancellationSignal
                     \/ SendForcedSignal
                     \/ BeginCleanupAfterCancel
                     \/ BeginCleanup
                     \/ RepeatKill
                     \/ CleanupOverdue) => TypeOK'
  BY Zenon
<1> KernelType /\ ProgressType /\ CleanupType
  BY Zenon DEF TypeOK
<1>1. ASSUME SendCancellationSignal PROVE TypeOK'
  <2>1. pc' \in Labels
    BY Zenon, <1>1 DEF ProgressType, SendCancellationSignal, Labels
  <2>2. doomed' \in BOOLEAN
    BY <1>1, Zenon DEF KernelType, SendCancellationSignal, SendTerm, TermLeader
  <2>3. strayed' \in BOOLEAN
    BY Zenon, <1>1 DEF KernelType, SendCancellationSignal, SendTerm, Reach
  <2>4. cleanup_failed' \in BOOLEAN
    BY Zenon, <1>1 DEF CleanupType, SendCancellationSignal, NoteIncomplete
  <2>5. /\ cancellation_signal_attempted' \in BOOLEAN
        /\ cancellation_signal_delivered' \in BOOLEAN
    BY Zenon, <1>1 DEF CleanupType, SendCancellationSignal
  <2>6. cancel_timer' \in Timer
    BY Zenon, <1>1 DEF KernelType, SendCancellationSignal, Timer
  <2>7. KernelType'
    BY <1>1, <2>1, <2>2, <2>3, <2>4, <2>5, <2>6 DEF KernelType,
       SendCancellationSignal, Sending, SendTerm, kernelVars, requestVars,
       leaderVars, groupVars, pipeVars, timerVars
  <2>8. ProgressType'
    BY <1>1, <2>1, <2>2, <2>3, <2>4, <2>5, <2>6 DEF ProgressType,
       SendCancellationSignal, Sending, SendTerm, endVars, loopVars,
       flowVars, resultVars
  <2>9. late' \in BOOLEAN
    BY Zenon, <1>1 DEF ProgressType, SendCancellationSignal
  <2>10. CleanupType'
    BY Zenon, <1>1, <2>4, <2>5, <2>9 DEF CleanupType, SendCancellationSignal,
       Sending, SendTerm, loopVars, cancelVars,
       cleanVars, scanVars, historyVars
  <2> QED BY Zenon, <2>7, <2>8, <2>10 DEF TypeOK
<1>2. ASSUME SendForcedSignal PROVE TypeOK'
  <2>1. pc' \in Labels
    BY Zenon, <1>2 DEF ProgressType, SendForcedSignal, BeginLabel, CleanLabel,
       ReapLabel, Labels
  <2>2. doomed' \in BOOLEAN
    BY Zenon, <1>2 DEF KernelType, SendForcedSignal, SendKill, KillLeader
  <2>3. strayed' \in BOOLEAN
    BY Zenon, <1>2 DEF KernelType, SendForcedSignal, SendKill, Reach
  <2>4. mem' \in [Procs -> MemState]
    BY Zenon, <1>2 DEF KernelType, SendForcedSignal, SendKill, KillMembers,
       MemState
  <2>5. hasty' \in SUBSET {"leader", "member"}
    BY <1>2, Zenon DEF CleanupType, SendForcedSignal, SendKill, Hasty
  <2>6. cleanup_failed' \in BOOLEAN
    BY Zenon, <1>2 DEF CleanupType, SendForcedSignal, NoteIncomplete
  <2>7. forced_signal_sent' \in BOOLEAN /\ past' \in BOOLEAN
    BY <1>2, Zenon DEF CleanupType, SendForcedSignal
  <2>8. cleanup_timer' \in Timer \cup {"grace"}
    BY Zenon, <1>2 DEF KernelType, SendForcedSignal, Timer
  <2>9. KernelType'
    BY ZenonT(40), <1>2, <2>1, <2>2, <2>3, <2>4, <2>5, <2>6, <2>7, <2>8 DEF KernelType,
       SendForcedSignal, Sending, kernelVars, requestVars, leaderVars,
       groupVars, pipeVars, timerVars
  <2>10. ProgressType'
    BY <1>2, <2>1, <2>2, <2>3, <2>4, <2>5, <2>6, <2>7, <2>8 DEF
       ProgressType, SendForcedSignal, Sending, endVars, loopVars,
       flowVars, resultVars
  <2>11. CleanupType'
    BY Zenon, <1>2, <2>1, <2>2, <2>3, <2>4, <2>5, <2>6, <2>7, <2>8 DEF
       CleanupType, SendForcedSignal, Sending, loopVars, cancelVars,
       cleanVars, scanVars, historyVars
  <2> QED BY Zenon, <2>9, <2>10, <2>11 DEF TypeOK
<1>3. ASSUME BeginCleanupAfterCancel PROVE TypeOK'
  <2>1. pc' \in Labels
    BY Zenon, <1>3 DEF ProgressType, BeginCleanupAfterCancel, CleanLabel,
       ReapLabel, Labels
  <2>2. cleanup_started' \in BOOLEAN /\ past' \in BOOLEAN
    BY Zenon, <1>3 DEF CleanupType, BeginCleanupAfterCancel
  <2>3. cleanup_timer' \in Timer \cup {"grace"}
    BY Zenon, <1>3 DEF KernelType, BeginCleanupAfterCancel
  <2>4. KernelType'
    BY <1>3, <2>1, <2>2, <2>3 DEF KernelType, BeginCleanupAfterCancel,
       kernelVars, requestVars, leaderVars, groupVars, pipeVars, timerVars
  <2>5. ProgressType'
    BY <1>3, <2>1, <2>2, <2>3 DEF ProgressType, BeginCleanupAfterCancel,
       endVars, loopVars, flowVars, resultVars
  <2>6. CleanupType'
    BY Zenon, <1>3, <2>1, <2>2, <2>3 DEF CleanupType, BeginCleanupAfterCancel,
       loopVars, cancelVars, cleanVars, scanVars, historyVars
  <2> QED BY Zenon, <2>4, <2>5, <2>6 DEF TypeOK
<1>4. ASSUME BeginCleanup PROVE TypeOK'
  <2>1. pc' \in Labels
    BY Zenon, <1>4 DEF ProgressType, BeginCleanup, CleanLabel, ReapLabel, Labels
  <2>2. doomed' \in BOOLEAN
    BY <1>4, Zenon DEF KernelType, BeginCleanup, SendTerm, TermLeader
  <2>3. strayed' \in BOOLEAN
    BY Zenon, <1>4 DEF KernelType, BeginCleanup, SendTerm, Reach
  <2>4. cleanup_failed' \in BOOLEAN
    BY Zenon, <1>4 DEF CleanupType, BeginCleanup, NoteIncomplete
  <2>5. cleanup_started' \in BOOLEAN /\ past' \in BOOLEAN
    BY <1>4, Zenon DEF CleanupType, BeginCleanup
  <2>6. cleanup_timer' \in Timer \cup {"grace"}
    BY Zenon, <1>4 DEF KernelType, BeginCleanup, Timer
  <2>7. KernelType'
    BY ZenonT(40), <1>4, <2>1, <2>2, <2>3, <2>4, <2>5, <2>6 DEF KernelType,
       BeginCleanup, Sending, SendTerm, kernelVars, requestVars,
       leaderVars, groupVars, pipeVars, timerVars
  <2>8. ProgressType'
    BY <1>4, <2>1, <2>2, <2>3, <2>4, <2>5, <2>6 DEF ProgressType,
       BeginCleanup, Sending, SendTerm, endVars, loopVars, flowVars,
       resultVars
  <2>9. CleanupType'
    BY Zenon, <1>4, <2>1, <2>2, <2>3, <2>4, <2>5, <2>6 DEF CleanupType,
       BeginCleanup, Sending, SendTerm, loopVars, cancelVars, cleanVars,
       scanVars, historyVars
  <2> QED BY Zenon, <2>7, <2>8, <2>9 DEF TypeOK
<1>5. ASSUME RepeatKill PROVE TypeOK'
  <2>1. pc' \in Labels
    BY Zenon, <1>5 DEF ProgressType, RepeatKill, Labels
  <2>2. doomed' \in BOOLEAN
    BY Zenon, <1>5 DEF KernelType, RepeatKill, SendKill, KillLeader
  <2>3. strayed' \in BOOLEAN
    BY Zenon, <1>5 DEF KernelType, RepeatKill, SendKill, Reach
  <2>4. mem' \in [Procs -> MemState]
    BY Zenon, <1>5 DEF KernelType, RepeatKill, SendKill, KillMembers, MemState
  <2>5. hasty' \in SUBSET {"leader", "member"}
    BY <1>5, Zenon DEF CleanupType, RepeatKill, SendKill, Hasty
  <2>6. cleanup_failed' \in BOOLEAN
    BY Zenon, <1>5 DEF CleanupType, RepeatKill, NoteIncomplete
  <2>7. KernelType'
    BY <1>5, <2>1, <2>2, <2>3, <2>4, <2>5, <2>6 DEF KernelType, RepeatKill,
       Sending, kernelVars, requestVars, leaderVars, groupVars, pipeVars,
       timerVars
  <2>8. ProgressType'
    BY <1>5, <2>1, <2>2, <2>3, <2>4, <2>5, <2>6 DEF ProgressType,
       RepeatKill, Sending, endVars, loopVars, flowVars, resultVars
  <2>9. CleanupType'
    BY Zenon, <1>5, <2>1, <2>2, <2>3, <2>4, <2>5, <2>6 DEF CleanupType,
       RepeatKill, Sending, loopVars, cancelVars, cleanVars, scanVars,
       historyVars
  <2> QED BY Zenon, <2>7, <2>8, <2>9 DEF TypeOK
<1>6. ASSUME CleanupOverdue PROVE TypeOK'
  <2>1. pc' \in Labels
    BY Zenon, <1>6 DEF ProgressType, CleanupOverdue, ReapLabel, Labels
  <2>2. doomed' \in BOOLEAN
    BY Zenon, <1>6 DEF KernelType, CleanupOverdue, SendKill, KillLeader
  <2>3. strayed' \in BOOLEAN
    BY Zenon, <1>6 DEF KernelType, CleanupOverdue, SendKill, Reach
  <2>4. mem' \in [Procs -> MemState]
    BY Zenon, <1>6 DEF KernelType, CleanupOverdue, SendKill, KillMembers, MemState
  <2>5. hasty' \in SUBSET {"leader", "member"}
    BY <1>6, Zenon DEF CleanupType, CleanupOverdue, SendKill, Hasty
  <2>6. cleanup_failed' \in BOOLEAN /\ cleanup_complete' \in BOOLEAN
    BY <1>6, Zenon DEF CleanupType, CleanupOverdue, NoteIncomplete
  <2>7. forced_signal_sent' \in BOOLEAN /\ past' \in BOOLEAN
    BY <1>6, Zenon DEF CleanupType, CleanupOverdue
  <2>8. cleanup_timer' \in Timer \cup {"grace"}
    BY Zenon, <1>6 DEF KernelType, CleanupOverdue, Timer
  <2>9. KernelType'
    BY ZenonT(40), <1>6, <2>1, <2>2, <2>3, <2>4, <2>5, <2>6, <2>7, <2>8 DEF KernelType,
       CleanupOverdue, Sending, kernelVars, requestVars, leaderVars,
       groupVars, pipeVars, timerVars
  <2>10. ProgressType'
    BY <1>6, <2>1, <2>2, <2>3, <2>4, <2>5, <2>6, <2>7, <2>8 DEF
       ProgressType, CleanupOverdue, Sending, endVars, loopVars, flowVars,
       resultVars
  <2>11. CleanupType'
    BY Zenon, <1>6, <2>1, <2>2, <2>3, <2>4, <2>5, <2>6, <2>7, <2>8 DEF
       CleanupType, CleanupOverdue, Sending, loopVars, cancelVars,
       cleanVars, scanVars, historyVars
  <2> QED BY Zenon, <2>9, <2>10, <2>11 DEF TypeOK
<1> QED BY Zenon, <1>1, <1>2, <1>3, <1>4, <1>5, <1>6

\* Reaping and cleanup_group.
LEMMA GroupType ==
    TypeOK /\ (\/ Reap
               \/ GroupGone
               \/ GroupThere
               \/ GroupTerm
               \/ GroupKill) => TypeOK'
<1> SUFFICES ASSUME TypeOK
             PROVE  (\/ Reap
                     \/ GroupGone
                     \/ GroupThere
                     \/ GroupTerm
                     \/ GroupKill) => TypeOK'
  BY Zenon
<1> KernelType /\ ProgressType /\ CleanupType
  BY Zenon DEF TypeOK
<1>1. ASSUME Reap PROVE TypeOK'
  <2>1. pc' \in Labels
    BY Zenon, <1>1 DEF ProgressType, Reap, Labels
  <2>2. child' \in ChildState
    BY Zenon, <1>1 DEF KernelType, Reap, ChildState
  <2>3. child_reaped' \in BOOLEAN
    BY Zenon, <1>1 DEF ProgressType, Reap
  <2>4. KernelType'
    BY <1>1, <2>1, <2>2, <2>3 DEF KernelType, Reap, kernelVars,
       requestVars, leaderVars, groupVars, pipeVars, timerVars
  <2>5. ProgressType'
    BY <1>1, <2>1, <2>2, <2>3 DEF ProgressType, Reap, endVars, loopVars,
       flowVars, resultVars
  <2>6. CleanupType'
    BY ZenonT(40), <1>1, <2>1, <2>2, <2>3 DEF CleanupType, Reap, loopVars, cancelVars,
       cleanVars, scanVars, historyVars
  <2> QED BY Zenon, <2>4, <2>5, <2>6 DEF TypeOK
<1>2. ASSUME GroupGone PROVE TypeOK'
  <2>1. pc' \in Labels
    BY Zenon, <1>2 DEF ProgressType, GroupGone, GroupCleaned, Labels
  <2>2. cleanup_complete' \in BOOLEAN /\ cleanup_failed' \in BOOLEAN
    BY Zenon, <1>2 DEF CleanupType, GroupGone, GroupCleaned
  <2>3. KernelType'
    BY <1>2, <2>1, <2>2 DEF KernelType, GroupGone, InGroupCleanup,
       kernelVars, requestVars, leaderVars, groupVars, pipeVars, timerVars
  <2>4. ProgressType'
    BY <1>2, <2>1, <2>2 DEF ProgressType, GroupGone, InGroupCleanup,
       endVars, loopVars, flowVars, resultVars
  <2>5. CleanupType'
    BY Zenon, <1>2, <2>1, <2>2 DEF CleanupType, GroupGone, InGroupCleanup,
       loopVars, cancelVars, cleanVars, scanVars, historyVars
  <2> QED BY Zenon, <2>3, <2>4, <2>5 DEF TypeOK
<1>3. ASSUME GroupThere PROVE TypeOK'
  <2>1. pc' \in Labels
    BY Zenon, <1>3 DEF ProgressType, GroupThere, GroupCleaned, GroupStep, Labels
  <2>2. cleanup_complete' \in BOOLEAN /\ cleanup_failed' \in BOOLEAN
    BY <1>3, Zenon DEF CleanupType, GroupThere, GroupCleaned, GroupStep
  <2>3. UNCHANGED <<requestVars, leaderVars, groupVars, pipeVars, requested,
                    timerVars, scratch, endVars, flowVars, cancelVars,
                    cleanup_started, past, scanVars, historyVars, resultVars>>
    BY <1>3, Zenon DEF GroupThere, InGroupCleanup
  <2>4. KernelType'
    BY <2>1, <2>2, <2>3 DEF KernelType, kernelVars, requestVars,
       leaderVars, groupVars, pipeVars, timerVars
  <2>5. ProgressType'
    BY <2>1, <2>2, <2>3 DEF ProgressType, endVars, loopVars, flowVars,
       resultVars
  <2>6. CleanupType'
    BY Zenon, <2>1, <2>2, <2>3 DEF CleanupType, loopVars, cancelVars, cleanVars,
       scanVars, historyVars
  <2> QED BY Zenon, <2>4, <2>5, <2>6 DEF TypeOK
<1>4. ASSUME GroupTerm PROVE TypeOK'
  <2>1. pc' \in Labels
    BY Zenon, <1>4 DEF ProgressType, GroupTerm, GroupStep, Labels
  <2>2. strayed' \in BOOLEAN
    BY Zenon, <1>4 DEF KernelType, GroupTerm, Reach
  <2>3. KernelType'
    BY <1>4, <2>1, <2>2 DEF KernelType, GroupTerm, InGroupCleanup,
       GroupStep, kernelVars, requestVars, leaderVars, groupVars, pipeVars,
       timerVars
  <2>4. ProgressType'
    BY <1>4, <2>1, <2>2 DEF ProgressType, GroupTerm, InGroupCleanup,
       GroupStep, endVars, loopVars, flowVars, resultVars
  <2>5. CleanupType'
    BY ZenonT(40), <1>4, <2>1, <2>2 DEF CleanupType, GroupTerm, InGroupCleanup,
       GroupStep, loopVars, cancelVars, cleanVars, scanVars, historyVars
  <2> QED BY Zenon, <2>3, <2>4, <2>5 DEF TypeOK
<1>5. ASSUME GroupKill PROVE TypeOK'
  <2>1. pc' \in Labels
    BY Zenon, <1>5 DEF ProgressType, GroupKill, GroupStep, Labels
  <2>2. strayed' \in BOOLEAN
    BY Zenon, <1>5 DEF KernelType, GroupKill, Reach
  <2>3. mem' \in [Procs -> MemState]
    BY Zenon, <1>5 DEF KernelType, GroupKill, KillMembers, MemState
  <2>4. KernelType'
    BY <1>5, <2>1, <2>2, <2>3 DEF KernelType, GroupKill, InGroupCleanup,
       GroupStep, kernelVars, requestVars, leaderVars, groupVars, pipeVars,
       timerVars
  <2>5. ProgressType'
    BY <1>5, <2>1, <2>2, <2>3 DEF ProgressType, GroupKill, InGroupCleanup,
       GroupStep, endVars, loopVars, flowVars, resultVars
  <2>6. CleanupType'
    BY <1>5, <2>1, <2>2, <2>3 DEF CleanupType, GroupKill, InGroupCleanup,
       GroupStep, loopVars, cancelVars, cleanVars, scanVars, historyVars
  <2> QED BY Zenon, <2>4, <2>5, <2>6 DEF TypeOK
<1> QED BY Zenon, <1>1, <1>2, <1>3, <1>4, <1>5

\* What the two halves of the classification return.
LEMMA NotStartedReturns ==
    ASSUME TypeOK, NotStarted
    PROVE  \E value \in NotStartedResults, cleanup \in {"none", "verified"} :
             Return(value, cleanup)
<1>1. CASE control_got # "none"
  <2>1. ChildFailureKind(control_got) \subseteq NotStartedResults
    BY Zenon, <1>1 DEF ChildFailureKind, NotStartedResults, SetupStages, TypeOK,
       ProgressType
  <2> QED BY Zenon, <1>1, <2>1 DEF NotStarted
<1>2. CASE control_got = "none"
  BY Zenon, <1>2 DEF NotStarted, NotStartedResults
<1> QED BY Zenon, <1>1, <1>2

\* Likewise when execution was confirmed.
LEMMA StartedReturns ==
    ASSUME Started
    PROVE  \E value \in StartedResults, cleanup \in {"verified", "failed"} :
             Return(value, cleanup)
<1>1. StartedResult \in StartedResults
  BY Zenon DEF StartedResult, ProgramResult, StartedResults
<1> QED BY Zenon, <1>1 DEF Started

\* The reads and the classification.
LEMMA ReadType ==
    TypeOK /\ (\/ Drain
               \/ ReadControl
               \/ ReadReady
               \/ Classify) => TypeOK'
<1> SUFFICES ASSUME TypeOK
             PROVE  (\/ Drain
                     \/ ReadControl
                     \/ ReadReady
                     \/ Classify) => TypeOK'
  BY Zenon
<1> KernelType /\ ProgressType /\ CleanupType
  BY Zenon DEF TypeOK
<1>1. ASSUME Drain PROVE TypeOK'
  <2>1. pc' \in Labels
    BY Zenon, <1>1 DEF ProgressType, Drain, ControlLabel, ReadyLabel, LoopEnd,
       TopLabel, CancelLabel, GateLabel, TermLabel, Labels
  <2>2. unread' \in 0..MaxChunks
    BY <1>1, KernelAssumption DEF KernelType, Drain
  <2>3. stream_open' \in BOOLEAN /\ capture_failed' \in BOOLEAN
    BY <1>1, Zenon DEF ProgressType, Drain
  <2>4. UNCHANGED <<requestVars, leaderVars, groupVars, start_byte, writers,
                    leak, requested, timerVars, scratch, start_open,
                    start_released, child_exited, child_reaped, cancelVars,
                    cleanVars, past, scanVars, historyVars, resultVars>>
    BY Zenon, <1>1 DEF Drain, Reading
  <2>5. UNCHANGED <<record, ready_byte, control_open, ready_open, control_got,
                    ready_seen, exec_confirmed>>
    BY Zenon, <1>1 DEF Drain
  <2>6. KernelType'
    BY <2>1, <2>2, <2>3, <2>4, <2>5 DEF KernelType, kernelVars,
       requestVars, leaderVars, groupVars, pipeVars, timerVars
  <2>7. ProgressType'
    BY <2>1, <2>2, <2>3, <2>4, <2>5 DEF ProgressType, endVars, loopVars,
       flowVars, resultVars
  <2>8. CleanupType'
    BY ZenonT(40), <2>1, <2>2, <2>3, <2>4, <2>5 DEF CleanupType, loopVars, cancelVars,
       cleanVars, scanVars, historyVars
  <2> QED BY Zenon, <2>6, <2>7, <2>8 DEF TypeOK
<1>2. ASSUME ReadControl PROVE TypeOK'
  <2>1. pc' \in Labels
    BY Zenon, <1>2 DEF ProgressType, ReadControl, ReadyLabel, LoopEnd, TopLabel,
       CancelLabel, GateLabel, TermLabel, Labels
  <2>2. /\ control_got' \in SetupStages \cup {"execute", "none"}
        /\ record' \in SetupStages \cup {"execute", "none"}
    BY Zenon, <1>2 DEF KernelType, ProgressType, ReadControl
  <2>3. control_open' \in BOOLEAN /\ exec_confirmed' \in BOOLEAN
    BY <1>2, Zenon DEF ProgressType, ReadControl, ControlHeld
  <2>4. UNCHANGED <<requestVars, leaderVars, groupVars, start_byte, writers,
                    leak, requested, timerVars, scratch, start_open,
                    start_released, child_exited, child_reaped, cancelVars,
                    cleanVars, past, scanVars, historyVars, resultVars>>
    BY Zenon, <1>2 DEF ReadControl, Reading
  <2>5. UNCHANGED <<ready_byte, unread, stream_open, ready_open,
                    capture_failed, ready_seen>>
    BY Zenon, <1>2 DEF ReadControl
  <2>6. KernelType'
    BY <2>1, <2>2, <2>3, <2>4, <2>5 DEF KernelType, kernelVars,
       requestVars, leaderVars, groupVars, pipeVars, timerVars
  <2>7. ProgressType'
    BY <2>1, <2>2, <2>3, <2>4, <2>5 DEF ProgressType, endVars, loopVars,
       flowVars, resultVars
  <2>8. CleanupType'
    BY ZenonT(40), <2>1, <2>2, <2>3, <2>4, <2>5 DEF CleanupType, loopVars, cancelVars,
       cleanVars, scanVars, historyVars
  <2> QED BY Zenon, <2>6, <2>7, <2>8 DEF TypeOK
<1>3. ASSUME ReadReady PROVE TypeOK'
  <2>1. pc' \in Labels
    BY Zenon, <1>3 DEF ProgressType, ReadReady, LoopEnd, TopLabel, CancelLabel,
       GateLabel, TermLabel, Labels
  <2>2. /\ ready_seen' \in BOOLEAN /\ ready_byte' \in BOOLEAN
        /\ ready_open' \in BOOLEAN
    BY <1>3, Zenon DEF KernelType, ProgressType, ReadReady, ReadyHeld
  <2>3. UNCHANGED <<requestVars, leaderVars, groupVars, start_byte, writers,
                    leak, requested, timerVars, scratch, start_open,
                    start_released, child_exited, child_reaped, cancelVars,
                    cleanVars, past, scanVars, historyVars, resultVars>>
    BY Zenon, <1>3 DEF ReadReady, Reading
  <2>4. UNCHANGED <<record, unread, stream_open, control_open, control_got,
                    capture_failed, exec_confirmed>>
    BY Zenon, <1>3 DEF ReadReady
  <2>5. KernelType'
    BY <2>2, <2>3, <2>4 DEF KernelType, requestVars, leaderVars, groupVars,
       timerVars
  <2>6. ProgressType'
    BY <2>1, <2>2, <2>3, <2>4 DEF ProgressType, resultVars
  <2>7. CleanupType'
    BY ZenonT(40), <2>3 DEF CleanupType, cancelVars, cleanVars, scanVars, historyVars
  <2> QED BY Zenon, <2>5, <2>6, <2>7 DEF TypeOK
<1>4. ASSUME Classify PROVE TypeOK'
  <2>1. \E value \in NotStartedResults \cup StartedResults,
           cleanup \in {"none", "verified", "failed"} : Return(value, cleanup)
    BY Zenon, <1>4, NotStartedReturns, StartedReturns DEF Classify
  <2>2. VerifyParentCleanup /\ UNCHANGED <<kernelVars, loopVars>>
    BY Zenon, <1>4 DEF Classify
  <2>3. KernelType'
    BY <2>1, <2>2 DEF KernelType, kernelVars, requestVars, leaderVars,
       groupVars, pipeVars, timerVars
  <2>4. ProgressType'
    BY Zenon, <2>1, <2>2, ReturnType DEF ProgressType, endVars, loopVars,
       flowVars, resultVars
  <2>5. CleanupType'
    BY ZenonT(40), <2>1, <2>2 DEF CleanupType, loopVars, cancelVars, cleanVars,
       scanVars, historyVars
  <2> QED BY Zenon, <2>3, <2>4, <2>5 DEF TypeOK
<1> QED BY Zenon, <1>1, <1>2, <1>3, <1>4

\* TypeOK holds in every reachable state: no step of the supervisor, the
\* leader, the group or the environment leaves the ranges of the variables.
THEOREM TypeCorrect == Spec => []TypeOK
<1>1. TypeOK /\ [Next]_vars => TypeOK'
  <2> SUFFICES ASSUME TypeOK, [Next]_vars PROVE TypeOK'
    BY Zenon
  <2>1. CASE Supervise
    BY Zenon, <2>1, AdmissionType, FlowType, ScanType, SendType, GroupType, ReadType
    DEF Supervise
  <2>2. CASE LeaderStep \/ ProgramStep
    BY Zenon, <2>2, LeaderType
  <2>3. CASE EnvironmentStep
    BY Zenon, <2>3, EnvironmentType
  <2>4. CASE UNCHANGED vars
    BY Zenon, <2>4, KernelFrame, SupervisorFrame DEF vars, TypeOK
  <2> QED BY Zenon, <2>1, <2>2, <2>3, <2>4 DEF Next, Terminated
<1> QED BY <1>1, InitType, PTL DEF Spec

(***************************************************************************)
(* What each kind of step of execute_backend changes, and where it leads.  *)
(***************************************************************************)
\* The places of the loop are those after pidfd_open and before the return.
LEMMA LoopIsApart ==
    /\ {"fork", "pidfd", "pidfd_failed", "done"} \cap LoopLabels = {}
    /\ LadderLabels \cap LoopLabels = {}
    /\ {"exit", "cancel", "gate", "term", "term_send", "deadline", "force",
        "force_send", "begin", "begin_send", "kill", "kill_send", "gone",
        "gone_check", "last", "last_send", "reap", "group_probe",
        "group_sigterm", "group_term", "group_sigkill", "group_kill", "drain",
        "control", "ready", "result"} = LoopLabels
<1>1. {"fork", "pidfd", "pidfd_failed", "done"} \cap LoopLabels = {}
  BY Zenon DEF LoopLabels, LadderLabels, PidfdLabels
<1>2. LadderLabels \cap LoopLabels = {}
  BY Zenon DEF LoopLabels
<1>3. {"exit", "cancel", "gate", "term", "term_send", "deadline", "force",
       "force_send", "begin", "begin_send", "kill", "kill_send", "gone",
       "gone_check", "last", "last_send", "reap", "group_probe",
       "group_sigterm", "group_term", "group_sigkill", "group_kill", "drain",
       "control", "ready", "result"} = LoopLabels
  BY DEF LoopLabels, LadderLabels, PidfdLabels, Labels
<1> QED BY Zenon, <1>1, <1>2, <1>3

\* Every label the loop computes is a place of the loop, before and after a
\* step.
LEMMA LabelPlaces ==
    /\ {ReapLabel, CleanLabel, BeginLabel, TermLabel, GateLabel, CancelLabel,
        TopLabel, LoopEnd, ReadyLabel, ControlLabel} \subseteq LoopLabels
    /\ {ReapLabel, CleanLabel, BeginLabel, TermLabel, GateLabel, CancelLabel,
        TopLabel, LoopEnd, ReadyLabel, ControlLabel}' \subseteq LoopLabels
<1> USE DEF LoopLabels, LadderLabels, PidfdLabels, Labels
<1>1. ReapLabel \in LoopLabels /\ ReapLabel' \in LoopLabels
  BY Zenon DEF ReapLabel
<1>2. TermLabel \in LoopLabels /\ TermLabel' \in LoopLabels
  BY Zenon DEF TermLabel
<1>3. CleanLabel \in LoopLabels /\ CleanLabel' \in LoopLabels
  BY <1>1 DEF CleanLabel
<1>4. BeginLabel \in LoopLabels /\ BeginLabel' \in LoopLabels
  BY <1>3 DEF BeginLabel
<1>5. GateLabel \in LoopLabels /\ GateLabel' \in LoopLabels
  BY <1>2 DEF GateLabel
<1>6. CancelLabel \in LoopLabels /\ CancelLabel' \in LoopLabels
  BY <1>5 DEF CancelLabel
<1>7. TopLabel \in LoopLabels /\ TopLabel' \in LoopLabels
  BY <1>6 DEF TopLabel
<1>8. LoopEnd \in LoopLabels /\ LoopEnd' \in LoopLabels
  BY <1>7 DEF LoopEnd
<1>9. ReadyLabel \in LoopLabels /\ ReadyLabel' \in LoopLabels
  BY <1>8 DEF ReadyLabel
<1>10. ControlLabel \in LoopLabels /\ ControlLabel' \in LoopLabels
  BY <1>9 DEF ControlLabel
<1> QED BY <1>1, <1>2, <1>3, <1>4, <1>5, <1>6, <1>7, <1>8, <1>9, <1>10

\* The admission ladder moves on or returns a refusal, and touches neither the
\* leader nor the variables of the loop.
LEMMA AdmissionShape ==
    (\/ CheckProfile
     \/ CancelCheck("cancel_1", "admission")
     \/ AdmitResources
     \/ CancelCheck("cancel_2", "interpreter")
     \/ AdmitInterpreter
     \/ CancelCheck("cancel_3", "pipes")
     \/ MakePipes) =>
       /\ pc \in LadderLabels /\ pc' \in LadderLabels \cup {"done"}
       /\ pc' = "fork" => control_open' /\ start_open'
       /\ IF pc' = "done" THEN result' \in NotStartedResults
                         ELSE UNCHANGED result
       /\ UNCHANGED <<leaderVars, record, ready_byte, start_byte, timerVars,
                      loopVars>>
<1> DEFINE Shape ==
       /\ pc \in LadderLabels /\ pc' \in LadderLabels \cup {"done"}
       /\ pc' = "fork" => control_open' /\ start_open'
       /\ IF pc' = "done" THEN result' \in NotStartedResults
                         ELSE UNCHANGED result
       /\ UNCHANGED <<leaderVars, record, ready_byte, start_byte, timerVars,
                      loopVars>>
<1>1. "done" \notin LadderLabels
  BY Zenon DEF LadderLabels
<1>2. ASSUME NEW at \in LadderLabels, NEW fault,
             NEW kind \in NotStartedResults, Refuse(at, fault, kind)
      PROVE  Shape
  BY <1>2, Zenon DEF Refuse, Ladder, Return
<1>3. ASSUME NEW at \in LadderLabels, NEW next \in LadderLabels \ {"fork"},
             Proceed(at, next)
      PROVE  Shape
  BY <1>1, <1>3, Zenon DEF Proceed, Ladder, Advance, resultVars
<1>4. ASSUME NEW at \in LadderLabels, NEW next \in LadderLabels \ {"fork"},
             CancelCheck(at, next)
      PROVE  Shape
  <2>1. "cancelled_before_start" \in NotStartedResults
    BY Zenon DEF NotStartedResults
  <2> QED BY <1>1, <1>4, <2>1, Zenon
      DEF CancelCheck, Ladder, Return, Advance, resultVars
<1>5. ASSUME Ladder("admission"), Advance("cancel_2"), UNCHANGED leaderVars
      PROVE  Shape
  BY Zenon, <1>5 DEF Ladder, Advance, LadderLabels, resultVars
<1>6. ASSUME Ladder("pipes"), pc' = "fork", control_open' = TRUE,
             start_open' = TRUE, UNCHANGED <<leaderVars, resultVars>>
      PROVE  Shape
  BY Zenon, <1>6 DEF Ladder, LadderLabels, resultVars
<1> HIDE DEF Shape
<1>7. /\ {"profile", "cancel_1", "admission", "cancel_2", "interpreter",
          "cancel_3", "pipes"} \subseteq LadderLabels \ {"fork"}
      /\ {"backend_unsupported", "request_rejected",
          "resource_admission_failed", "interpreter_unavailable",
          "process_start_failed"} \subseteq NotStartedResults
  BY Zenon DEF LadderLabels, NotStartedResults
<1>8. CheckProfile => Shape
  BY Zenon, <1>2, <1>3, <1>7 DEF CheckProfile
<1>9. AdmitResources => Shape
  BY Zenon, <1>2, <1>5, <1>7 DEF AdmitResources
<1>10. AdmitInterpreter => Shape
  BY Zenon, <1>2, <1>3, <1>7 DEF AdmitInterpreter
<1>11. MakePipes => Shape
  BY <1>2, <1>6, <1>7, Zenon DEF MakePipes
<1>12. (\/ CancelCheck("cancel_1", "admission")
        \/ CancelCheck("cancel_2", "interpreter")
        \/ CancelCheck("cancel_3", "pipes")) => Shape
  BY Zenon, <1>4, <1>7
<1> QED BY Zenon, <1>8, <1>9, <1>10, <1>11, <1>12 DEF Shape

\* Looking at the clock, scanning, signalling and cleanup_group stay in the
\* loop.  The leader, the pipes and what the supervisor has read are left alone.
LEMMA QuietShape ==
    (\/ SampleNow
     \/ ListProcesses("term", "term_send")
     \/ ListProcesses("force", "force_send")
     \/ BeginCleanupLists
     \/ ListProcesses("kill", "kill_send")
     \/ ListProcesses("gone", "gone_check")
     \/ ListProcesses("last", "last_send")
     \/ CheckGone
     \/ SendCancellationSignal \/ SendForcedSignal
     \/ BeginCleanupAfterCancel \/ BeginCleanup
     \/ RepeatKill \/ CleanupOverdue
     \/ GroupGone \/ GroupThere \/ GroupTerm \/ GroupKill) =>
       /\ pc \in LoopLabels /\ pc' \in LoopLabels
       /\ UNCHANGED <<child, ran, pipeVars, endVars, flowVars,
                      cancellation_observed, cancellation_before_start,
                      resultVars>>
<1> DEFINE Quiet == /\ pc \in LoopLabels /\ pc' \in LoopLabels
                    /\ UNCHANGED <<child, ran, pipeVars, endVars, flowVars,
                                   cancellation_observed,
                                   cancellation_before_start, resultVars>>
<1>0. {"deadline", "term", "term_send", "force", "force_send", "begin",
       "begin_send", "kill", "kill_send", "gone", "gone_check", "last",
       "last_send", "group_probe", "group_sigterm", "group_term",
       "group_sigkill", "group_kill", "drain"} \subseteq LoopLabels
  BY Zenon, LoopIsApart
<1>1. ASSUME SampleNow PROVE Quiet
  BY Zenon, <1>0, <1>1, LabelPlaces DEF SampleNow, kernelVars, leaderVars, cancelVars
<1>2. ASSUME NEW at \in LoopLabels, NEW next \in LoopLabels,
             ListProcesses(at, next)
      PROVE  Quiet
  BY Zenon, <1>2 DEF ListProcesses, kernelVars, leaderVars, cancelVars
<1>3. ASSUME CheckGone PROVE Quiet
  BY Zenon, <1>0, <1>3, LabelPlaces DEF CheckGone, kernelVars, leaderVars, cancelVars
<1>4. ASSUME SendCancellationSignal PROVE Quiet
  BY Zenon, <1>0, <1>4 DEF SendCancellationSignal, Sending
<1>5. ASSUME SendForcedSignal PROVE Quiet
  BY Zenon, <1>0, <1>5, LabelPlaces DEF SendForcedSignal, Sending
<1>6. ASSUME BeginCleanupAfterCancel PROVE Quiet
  BY Zenon, <1>0, <1>6, LabelPlaces DEF BeginCleanupAfterCancel, leaderVars,
     cancelVars
<1>7. ASSUME BeginCleanup PROVE Quiet
  BY Zenon, <1>0, <1>7, LabelPlaces DEF BeginCleanup, Sending
<1>8. ASSUME RepeatKill PROVE Quiet
  BY Zenon, <1>0, <1>8 DEF RepeatKill, Sending
<1>9. ASSUME CleanupOverdue PROVE Quiet
  BY Zenon, <1>0, <1>9, LabelPlaces DEF CleanupOverdue, Sending
<1>10. ASSUME GroupGone PROVE Quiet
  BY Zenon, <1>0, <1>10 DEF GroupGone, GroupCleaned, InGroupCleanup, leaderVars,
     cancelVars
<1>11. ASSUME GroupThere PROVE Quiet
  BY Zenon, <1>0, <1>11 DEF GroupThere, GroupCleaned, GroupStep, InGroupCleanup,
     leaderVars, cancelVars
<1>12. ASSUME GroupTerm \/ GroupKill PROVE Quiet
  BY Zenon, <1>0, <1>12 DEF GroupTerm, GroupKill, GroupStep, InGroupCleanup,
     leaderVars, cancelVars
<1> HIDE DEF Quiet
<1>13. ASSUME \/ ListProcesses("term", "term_send")
              \/ ListProcesses("force", "force_send")
              \/ BeginCleanupLists
              \/ ListProcesses("kill", "kill_send")
              \/ ListProcesses("gone", "gone_check")
              \/ ListProcesses("last", "last_send")
       PROVE  Quiet
  BY Zenon, <1>0, <1>2, <1>13 DEF BeginCleanupLists
<1>14. Quiet => /\ pc \in LoopLabels /\ pc' \in LoopLabels
                /\ UNCHANGED <<child, ran, pipeVars, endVars, flowVars,
                               cancellation_observed,
                               cancellation_before_start, resultVars>>
  BY Zenon DEF Quiet
<1> QED BY Zenon, <1>1, <1>3, <1>4, <1>5, <1>6, <1>7, <1>8, <1>9, <1>10, <1>11,
           <1>12, <1>13, <1>14

\* Looking at the token and writing the start byte stay in the loop and leave
\* the leader, and what is known of it, alone.
LEMMA GateShape ==
    ObserveCancellation \/ ReleaseGate =>
       /\ pc \in LoopLabels /\ pc' \in LoopLabels
       /\ UNCHANGED <<leaderVars, record, ready_byte, timerVars, stream_open,
                      control_open, ready_open, control_got, capture_failed,
                      ready_seen, exec_confirmed, child_exited, child_reaped,
                      cancellation_signal_attempted, historyVars, resultVars>>
<1>0. /\ {"cancel", "gate"} \subseteq LoopLabels
      /\ GateLabel' \in LoopLabels /\ TermLabel' \in LoopLabels
  BY Zenon, LoopIsApart, LabelPlaces
<1>1. CASE ObserveCancellation
  BY <1>0, <1>1, Zenon DEF ObserveCancellation, kernelVars, pipeVars, flowVars
<1>2. CASE ReleaseGate
  BY <1>0, <1>2, Zenon DEF ReleaseGate
<1> QED BY Zenon, <1>1, <1>2

\* pidfd_open lets the supervisor into the loop, or dooms the leader.
LEMMA PidfdShape ==
    OpenPidfd =>
       /\ pc = "pidfd" /\ pc' \in {"exit", "pidfd_failed"}
       /\ pc' = "exit" => UNCHANGED <<doomed, endVars, hasty>>
       /\ UNCHANGED <<child, status, ran, groupVars, pipeVars, requested,
                      stream_open, control_open, ready_open, flowVars, cancelVars,
                      cleanVars, past, scanVars, late, resultVars>>
<1>1. CASE Proceed("pidfd", "exit")
  BY Zenon, <1>1 DEF Proceed, Ladder, Advance, leaderVars, pipeVars, loopVars,
     historyVars, endVars
<1>2. CASE ~Proceed("pidfd", "exit")
  BY Zenon, <1>2 DEF OpenPidfd
<1> QED BY Zenon, <1>1, <1>2

\* The reads stay in the loop and leave the leader and the gate alone.
LEMMA ReadShape ==
    Drain \/ ReadControl \/ ReadReady =>
       /\ pc \in LoopLabels /\ pc' \in LoopLabels
       /\ UNCHANGED <<leaderVars, start_byte, timerVars, start_open,
                      start_released, child_exited, child_reaped, cancelVars,
                      historyVars, resultVars>>
<1>1. Drain \/ ReadControl \/ ReadReady =>
        \E at \in {"drain", "control", "ready"} : Reading(at)
  BY Zenon DEF Drain, ReadControl, ReadReady
<1>2. ASSUME NEW at \in {"drain", "control", "ready"}, Reading(at)
      PROVE  /\ pc \in LoopLabels
             /\ UNCHANGED <<leaderVars, start_byte, timerVars, start_open,
                            start_released, child_exited, child_reaped,
                            cancelVars, historyVars, resultVars>>
  BY Zenon, <1>2, LoopIsApart DEF Reading
<1>3. Drain \/ ReadControl \/ ReadReady => pc' \in LoopLabels
  <2>1. {LoopEnd, ReadyLabel, ControlLabel}' \subseteq LoopLabels
    BY Zenon, LabelPlaces
  <2> QED BY <2>1, Zenon DEF Drain, ReadControl, ReadReady
<1> QED BY Zenon, <1>1, <1>2, <1>3

\* The classification ends the execution and looks at everything else only.
LEMMA ClassifyShape ==
    ASSUME TypeOK, Classify
    PROVE  /\ pc = "result" /\ pc' = "done" /\ result' # "none"
           /\ UNCHANGED <<kernelVars, loopVars>>
<1>1. "none" \notin NotStartedResults \cup StartedResults
  BY Zenon DEF NotStartedResults, StartedResults
<1>2. pc' = "done" /\ result' # "none"
  BY <1>1, NotStartedReturns, StartedReturns, Zenon DEF Classify, Return
<1> QED BY Zenon, <1>2 DEF Classify

\* What the program does to others, and what the environment does, leaves the
\* leader and the control, ready and start pipes alone; only a fatal signal from
\* outside dooms the leader.
LEMMA LeaderKeptBy ==
    ProgramForks \/ ProgramWrites \/ ProgramCloses \/ Environment =>
       /\ UNCHANGED <<child, ran, record, ready_byte, start_byte>>
       /\ "kill" \notin Faults => UNCHANGED doomed
<1>1. CASE ProgramForks \/ ProgramWrites \/ ProgramCloses
  BY <1>1, Zenon DEF ProgramForks, ProgramWrites, ProgramCloses, ForkedBy,
     WrittenBy, ClosedBy, leaderVars, pipeVars
<1>2. CASE Environment
  BY <1>2, Zenon DEF Environment, RequestCancellation, Expire, MemberExit,
     MemberReaped, MemberForks, MemberWrites, MemberCloses, ForkedBy,
     WrittenBy, ClosedBy, NumberReused, LeakCloses, LeaderKilled, leaderVars,
     pipeVars
<1> QED BY Zenon, <1>1, <1>2

(***************************************************************************)
(* The invariant.                                                          *)
(***************************************************************************)
\* A step of execute_backend leaves its place in the loop consistent with its
\* own variables.
LEMMA FlowStep == TypeOK /\ FlowInv /\ Supervise => FlowInv'
<1> SUFFICES ASSUME TypeOK, FlowInv, Supervise PROVE FlowInv'
  BY Zenon
<1> USE DEF kernelVars, timerVars, endVars, loopVars, flowVars, cancelVars,
            resultVars, SendDue, LoopDone, FlowInv, LadderLabels, PidfdLabels,
            CleanLabels
<1>1. CASE \/ CheckProfile
           \/ CancelCheck("cancel_1", "admission")
           \/ AdmitResources
           \/ CancelCheck("cancel_2", "interpreter")
           \/ AdmitInterpreter
           \/ CancelCheck("cancel_3", "pipes")
           \/ MakePipes
  BY <1>1, AdmissionShape DEF NotStartedResults
<1>2. CASE Fork
  BY <1>2 DEF Fork, Refuse, Return, Advance, Ladder
<1>3. CASE OpenPidfd
  BY <1>3 DEF OpenPidfd, Proceed, Advance, Ladder
<1>4. CASE PidfdFailed
  BY Zenon, <1>4 DEF PidfdFailed, Return, Ladder
<1>5. CASE ObserveChildExit
  BY Zenon, <1>5 DEF ObserveChildExit, CancelLabel, GateLabel, TermLabel
<1>6. CASE ObserveCancellation
  BY Zenon, <1>6 DEF ObserveCancellation, NoteCancellation, GateLabel,
        TermLabel
<1>7. CASE ReleaseGate
  BY Zenon, <1>7 DEF ReleaseGate, NoteCancellation, TermLabel
<1>8. CASE ListProcesses("term", "term_send")
  BY Zenon, <1>8 DEF ListProcesses
<1>9. CASE SendCancellationSignal
  BY Zenon, <1>9 DEF SendCancellationSignal, Sending
<1>10. CASE SampleNow
  BY Zenon, <1>10 DEF SampleNow, ForceDue, BeginLabel, CleanLabel, ReapLabel,
        ReapDue
<1>11. CASE ListProcesses("force", "force_send")
  BY Zenon, <1>11 DEF ListProcesses
<1>12. CASE SendForcedSignal
  BY Zenon, <1>12 DEF SendForcedSignal, Sending, BeginLabel, CleanLabel,
        ReapLabel, ReapDue
<1>13. CASE BeginCleanupAfterCancel
  BY Zenon, <1>13 DEF BeginCleanupAfterCancel, CleanLabel, ReapLabel, ReapDue
<1>14. CASE BeginCleanupLists
  BY Zenon, <1>14 DEF BeginCleanupLists, ListProcesses
<1>15. CASE BeginCleanup
  BY Zenon, <1>15 DEF BeginCleanup, Sending, CleanLabel, ReapLabel, ReapDue
<1>16. CASE ListProcesses("kill", "kill_send")
  BY Zenon, <1>16 DEF ListProcesses
<1>17. CASE RepeatKill
  BY Zenon, <1>17 DEF RepeatKill, Sending
<1>18. CASE ListProcesses("gone", "gone_check")
  BY Zenon, <1>18 DEF ListProcesses
<1>19. CASE CheckGone
  BY Zenon, <1>19 DEF CheckGone, ReapLabel, ReapDue
<1>20. CASE ListProcesses("last", "last_send")
  BY Zenon, <1>20 DEF ListProcesses
<1>21. CASE CleanupOverdue
  BY Zenon, <1>21 DEF CleanupOverdue, Sending, ReapLabel, ReapDue
<1>22. CASE Reap
  BY Zenon, <1>22 DEF Reap
<1>23. CASE GroupGone
  BY Zenon, <1>23 DEF GroupGone, GroupCleaned, InGroupCleanup
<1>24. CASE GroupThere
  BY Zenon, <1>24 DEF GroupThere, GroupStep, GroupCleaned, InGroupCleanup
<1>25. CASE GroupTerm
  BY Zenon, <1>25 DEF GroupTerm, GroupStep, InGroupCleanup
<1>26. CASE GroupKill
  BY Zenon, <1>26 DEF GroupKill, GroupStep, InGroupCleanup
<1>27. CASE Drain
  BY Zenon, <1>27 DEF Drain, Reading, ControlLabel, ReadyLabel, LoopEnd,
        TopLabel, CancelLabel, GateLabel, TermLabel
<1>28. CASE ReadControl
  BY Zenon, <1>28 DEF ReadControl, Reading, ReadyLabel, LoopEnd, TopLabel,
        CancelLabel, GateLabel, TermLabel
<1>29. CASE ReadReady
  BY Zenon, <1>29 DEF ReadReady, Reading, LoopEnd, TopLabel, CancelLabel,
        GateLabel, TermLabel
<1>30. CASE Classify
  BY Zenon, <1>30, ClassifyShape
<1> HIDE DEF FlowInv
<1> QED BY <1>1, <1>2, <1>3, <1>4, <1>5, <1>6, <1>7, <1>8, <1>9, <1>10,
           <1>11, <1>12, <1>13, <1>14, <1>15, <1>16, <1>17, <1>18, <1>19,
           <1>20, <1>21, <1>22, <1>23, <1>24, <1>25, <1>26, <1>27, <1>28,
           <1>29, <1>30, Zenon DEF Supervise

\* A step of execute_backend leaves what it knows of the leader true: fork
\* makes it, waitid observes it, waitpid reaps it.
LEMMA LeaderInvStep ==
    TypeOK /\ FlowInv /\ LeaderInv /\ Supervise => LeaderInv'
<1> SUFFICES ASSUME TypeOK, FlowInv, LeaderInv, Supervise PROVE LeaderInv'
  BY Zenon
<1> USE DEF LeaderInv
<1>0. /\ LadderLabels \cap LoopLabels = {} /\ PidfdLabels \cap LoopLabels = {}
      /\ LadderLabels \cap PidfdLabels = {}
      /\ "done" \notin LadderLabels \cup PidfdLabels \cup LoopLabels
      /\ "fork" \in LadderLabels
      /\ {"pidfd", "pidfd_failed"} \subseteq PidfdLabels
      /\ {"exit", "reap", "drain", "group_probe", "result"} \subseteq LoopLabels
  BY ZenonT(40) DEF LadderLabels, PidfdLabels, LoopLabels, Labels
<1>1. ASSUME pc \in LoopLabels, pc' \in LoopLabels,
             UNCHANGED <<child, ran, child_exited, child_reaped>>
      PROVE  LeaderInv'
  BY Zenon, <1>0, <1>1
<1>2. CASE \/ CheckProfile
           \/ CancelCheck("cancel_1", "admission")
           \/ AdmitResources
           \/ CancelCheck("cancel_2", "interpreter")
           \/ AdmitInterpreter
           \/ CancelCheck("cancel_3", "pipes")
           \/ MakePipes
  <2>1. /\ pc \in LadderLabels /\ pc' \in LadderLabels \cup {"done"}
        /\ UNCHANGED <<child, ran, child_exited, child_reaped>>
    BY Zenon, <1>2, AdmissionShape DEF leaderVars, loopVars, flowVars
  <2> QED BY Zenon, <1>0, <2>1
<1>3. CASE Fork
  <2>1. pc = "fork" /\ UNCHANGED <<child_exited, child_reaped>>
    BY Zenon, <1>3 DEF Fork, Refuse, Ladder, loopVars, flowVars
  <2>2. child = "none" /\ ~ran /\ ~child_exited /\ ~child_reaped
    BY Zenon, <1>0, <2>1 DEF FlowInv
  <2>3. CASE Refuse("fork", "fork", "process_start_failed")
    <3>1. pc' = "done" /\ child' = "none"
      BY Zenon, <2>2, <2>3 DEF Refuse, Return, leaderVars
    <3> QED BY Zenon, <1>0, <2>1, <2>2, <3>1
  <2>4. CASE ~Refuse("fork", "fork", "process_start_failed")
    <3>1. pc' \in {"pidfd", "exit"} /\ child' = "process_group"
      BY Zenon, <1>3, <2>4 DEF Fork, Advance
    <3> QED BY Zenon, <1>0, <2>1, <2>2, <3>1
  <2> QED BY Zenon, <2>3, <2>4
<1>4. CASE OpenPidfd
  <2>1. /\ pc = "pidfd" /\ pc' \in {"exit", "pidfd_failed"}
        /\ UNCHANGED <<child, ran, child_exited, child_reaped>>
    BY Zenon, <1>4, PidfdShape DEF flowVars
  <2>2. child \notin {"none", "reaped"} /\ ~child_exited /\ ~child_reaped
    BY Zenon, <1>0, <2>1 DEF FlowInv
  <2> QED BY Zenon, <1>0, <2>1, <2>2
<1>5. CASE PidfdFailed
  BY Zenon, <1>0, <1>5 DEF PidfdFailed, Return, Ladder, loopVars, flowVars
<1>6. CASE ObserveChildExit
  BY <1>0, <1>6, LabelPlaces, Zenon DEF ObserveChildExit, kernelVars,
     leaderVars
<1>7. CASE ObserveCancellation \/ ReleaseGate
  BY Zenon, <1>1, <1>7, GateShape DEF leaderVars
<1>8. CASE \/ SampleNow
           \/ ListProcesses("term", "term_send")
           \/ ListProcesses("force", "force_send")
           \/ BeginCleanupLists
           \/ ListProcesses("kill", "kill_send")
           \/ ListProcesses("gone", "gone_check")
           \/ ListProcesses("last", "last_send")
           \/ CheckGone
           \/ SendCancellationSignal \/ SendForcedSignal
           \/ BeginCleanupAfterCancel \/ BeginCleanup
           \/ RepeatKill \/ CleanupOverdue
           \/ GroupGone \/ GroupThere \/ GroupTerm \/ GroupKill
  BY Zenon, <1>1, <1>8, QuietShape DEF flowVars
<1>9. CASE Reap
  BY Zenon, <1>0, <1>9 DEF Reap
<1>10. CASE Drain \/ ReadControl \/ ReadReady
  BY Zenon, <1>1, <1>10, ReadShape DEF leaderVars
<1>11. CASE Classify
  BY Zenon, <1>0, <1>11, ClassifyShape
     DEF FlowInv, LoopDone, kernelVars, leaderVars, loopVars, flowVars
<1> HIDE DEF LeaderInv
<1> QED BY Zenon, <1>2, <1>3, <1>4, <1>5, <1>6, <1>7, <1>8, <1>9, <1>10, <1>11
        DEF Supervise

\* Only write_start lets the leader pass, never after a cancellation.
LEMMA GateInvStep ==
    TypeOK /\ FlowInv /\ GateInv /\ Supervise => GateInv'
<1> SUFFICES ASSUME TypeOK, FlowInv, GateInv, Supervise PROVE GateInv'
  BY Zenon
<1> USE DEF GateInv
<1>1. ASSUME UNCHANGED <<child, ran, start_byte, start_released,
                         cancellation_observed, cancellation_before_start>>
      PROVE  GateInv'
  BY Zenon, <1>1
<1>2. CASE \/ CheckProfile
           \/ CancelCheck("cancel_1", "admission")
           \/ AdmitResources
           \/ CancelCheck("cancel_2", "interpreter")
           \/ AdmitInterpreter
           \/ CancelCheck("cancel_3", "pipes")
           \/ MakePipes
  BY Zenon, <1>1, <1>2, AdmissionShape DEF leaderVars, loopVars, flowVars, cancelVars
<1>3. CASE Fork
  BY <1>3 DEF Fork, Refuse, Ladder, leaderVars, loopVars, flowVars, cancelVars
<1>4. CASE OpenPidfd
  BY Zenon, <1>1, <1>4, PidfdShape DEF pipeVars, flowVars, cancelVars
<1>5. CASE PidfdFailed
  BY Zenon, <1>5 DEF PidfdFailed, Ladder, loopVars, flowVars, cancelVars
<1>6. CASE ObserveChildExit
  BY Zenon, <1>1, <1>6 DEF ObserveChildExit, kernelVars, leaderVars, pipeVars,
     cancelVars
<1>7. CASE ObserveCancellation
  BY <1>7, Zenon DEF ObserveCancellation, NoteCancellation, kernelVars,
     leaderVars, pipeVars, flowVars
<1>8. CASE ReleaseGate
  BY Zenon, <1>8 DEF ReleaseGate, NoteCancellation, leaderVars, FlowInv
<1>9. CASE \/ SampleNow
           \/ ListProcesses("term", "term_send")
           \/ ListProcesses("force", "force_send")
           \/ BeginCleanupLists
           \/ ListProcesses("kill", "kill_send")
           \/ ListProcesses("gone", "gone_check")
           \/ ListProcesses("last", "last_send")
           \/ CheckGone
           \/ SendCancellationSignal \/ SendForcedSignal
           \/ BeginCleanupAfterCancel \/ BeginCleanup
           \/ RepeatKill \/ CleanupOverdue
           \/ GroupGone \/ GroupThere \/ GroupTerm \/ GroupKill
  BY Zenon, <1>1, <1>9, QuietShape DEF pipeVars, flowVars
<1>10. CASE Reap
  BY Zenon, <1>10 DEF Reap, pipeVars, cancelVars
<1>11. CASE Drain \/ ReadControl \/ ReadReady
  BY Zenon, <1>1, <1>11, ReadShape DEF leaderVars, cancelVars
<1>12. CASE Classify
  BY Zenon, <1>1, <1>12, ClassifyShape
     DEF kernelVars, leaderVars, pipeVars, loopVars, flowVars, cancelVars
<1> HIDE DEF GateInv
<1> QED BY Zenon, <1>2, <1>3, <1>4, <1>5, <1>6, <1>7, <1>8, <1>9, <1>10, <1>11,
           <1>12 DEF Supervise

\* No SIGKILL of execute_backend but that of a failing pidfd_open is early for the
\* leader.
LEMMA GraceInvStep ==
    TypeOK /\ FlowInv /\ LeaderInv /\ GraceInv /\ Supervise => GraceInv'
<1> SUFFICES ASSUME TypeOK, FlowInv, LeaderInv, GraceInv, Supervise
             PROVE  GraceInv'
  BY Zenon
<1>0. ASSUME pc \in LadderLabels \cup LoopLabels \cup {"pidfd"},
             "leader" \in hasty' => "leader" \in hasty
      PROVE  GraceInv'
  <2>1. pc \notin {"pidfd_failed", "done"}
    BY Zenon, <1>0, LoopIsApart DEF LadderLabels
  <2> QED BY Zenon, <1>0, <2>1 DEF GraceInv
<1>1. CASE \/ CheckProfile
           \/ CancelCheck("cancel_1", "admission")
           \/ AdmitResources
           \/ CancelCheck("cancel_2", "interpreter")
           \/ AdmitInterpreter
           \/ CancelCheck("cancel_3", "pipes")
           \/ MakePipes
  BY <1>0, <1>1, AdmissionShape, Zenon DEF loopVars, historyVars
<1>2. CASE Fork
  <2>1. pc = "fork" /\ UNCHANGED hasty
    BY Zenon, <1>2 DEF Fork, Refuse, Ladder, loopVars, historyVars
  <2> QED BY Zenon, <1>0, <2>1 DEF LadderLabels
<1>3. CASE OpenPidfd
  <2>1. CASE pc' = "exit"
    BY Zenon, <1>0, <1>3, <2>1, PidfdShape
  <2>2. CASE pc' = "pidfd_failed"
    BY Zenon, <2>2 DEF GraceInv
  <2> QED BY Zenon, <1>3, <2>1, <2>2, PidfdShape
<1>4. CASE PidfdFailed
  <2>1. ~start_released
    BY Zenon, <1>4 DEF PidfdFailed, Ladder, FlowInv, PidfdLabels
  <2> QED BY Zenon, <1>4, <2>1 DEF PidfdFailed, Ladder, Return, loopVars, flowVars,
             GraceInv
<1>5. CASE \/ SampleNow \/ CheckGone \/ BeginCleanupLists
           \/ ListProcesses("term", "term_send")
           \/ ListProcesses("force", "force_send")
           \/ ListProcesses("kill", "kill_send")
           \/ ListProcesses("gone", "gone_check")
           \/ ListProcesses("last", "last_send")
           \/ SendCancellationSignal \/ BeginCleanup \/ BeginCleanupAfterCancel
           \/ GroupGone \/ GroupThere \/ GroupTerm \/ GroupKill
  <2>1. UNCHANGED hasty
    BY <1>5, Zenon DEF SampleNow, CheckGone, ListProcesses, BeginCleanupLists,
       SendCancellationSignal, BeginCleanup, SendTerm, BeginCleanupAfterCancel,
       GroupGone, GroupThere, GroupTerm, GroupKill, InGroupCleanup, historyVars
  <2> QED BY Zenon, <1>0, <1>5, <2>1, QuietShape
<1>6. CASE ObserveChildExit \/ Reap
  <2>1. pc \in {"exit", "reap"} /\ UNCHANGED hasty
    BY <1>6, Zenon DEF ObserveChildExit, Reap, historyVars
  <2> QED BY Zenon, <1>0, <2>1, LoopIsApart
<1>7. CASE SendForcedSignal
  <2>1. cancel_timer = "expired"
    BY Zenon, <1>7 DEF SendForcedSignal, Sending, FlowInv
  <2>2. "leader" \in hasty' => "leader" \in hasty
    BY Zenon, <1>7, <2>1 DEF SendForcedSignal, SendKill, Hasty
  <2> QED BY Zenon, <1>0, <1>7, <2>2, QuietShape
<1>8. CASE RepeatKill \/ CleanupOverdue
  <2>1. child_exited
    BY Zenon, <1>8 DEF RepeatKill, CleanupOverdue, Sending, FlowInv, CleanLabels
  <2>2. child \notin Alive
    BY Zenon, <2>1 DEF LeaderInv, Alive, BeforeExec, SetupStages
  <2>3. "leader" \in hasty' => "leader" \in hasty
    BY <1>8, <2>2 DEF RepeatKill, CleanupOverdue, SendKill, Hasty
  <2> QED BY Zenon, <1>0, <1>8, <2>3, QuietShape
<1>9. CASE ObserveCancellation \/ ReleaseGate
  BY Zenon, <1>0, <1>9, GateShape DEF historyVars
<1>10. CASE Drain \/ ReadControl \/ ReadReady
  BY Zenon, <1>0, <1>10, ReadShape DEF historyVars
<1>11. CASE Classify
  <2>1. pc = "result" /\ UNCHANGED hasty
    BY Zenon, <1>11, ClassifyShape DEF loopVars, historyVars
  <2> QED BY Zenon, <1>0, <2>1, LoopIsApart
<1> QED BY Zenon, <1>1, <1>2, <1>3, <1>4, <1>5, <1>6, <1>7, <1>8, <1>9, <1>10, <1>11
           DEF Supervise

\* The other processes change none of the supervisor's variables.
LEMMA LeaderMoves ==
    TypeOK /\ TypeOK' /\ FlowInv /\ LeaderInv /\ GateInv /\ GraceInv
      /\ (LeaderStep \/ ProgramStep)
    => FlowInv' /\ LeaderInv' /\ GateInv' /\ GraceInv'
<1> SUFFICES ASSUME TypeOK, TypeOK', FlowInv, LeaderInv, GateInv, GraceInv,
                    UNCHANGED supervisorVars,
                    ChildMain(ready_open, start_open) \/ Program
             PROVE  FlowInv' /\ LeaderInv' /\ GateInv' /\ GraceInv'
  BY Zenon DEF LeaderStep, ProgramStep
<1> USE DEF requestVars, leaderVars, groupVars, pipeVars, timerVars,
            supervisorVars, endVars, loopVars, flowVars, cancelVars,
            cleanVars, scanVars, historyVars, resultVars
<1>1. cancel_timer' = cancel_timer
  BY Zenon DEF ChildMain, ChildSetup, ChildSetupFails, ReportChildError,
     ChildReady, ChildGate, ChildExec, ChildExecFails, ChildExit, ChildDies,
     Exit, Program, ProgramExits, ProgramForks, ProgramWrites, ProgramCloses,
     ForkedBy, WrittenBy, ClosedBy
<1>2. FlowInv' /\ GraceInv'
  BY <1>1, Zenon DEF FlowInv, GraceInv, SendDue, LoopDone
<1>3. child \in Alive
  BY Zenon DEF ChildMain, ChildSetup, ChildSetupFails, ChildReady, ChildGate,
         ChildExec, ChildExecFails, ChildExit, ChildDies, Program,
         ProgramExits, ProgramForks, ProgramWrites, ProgramCloses, Setup,
         Alive, BeforeExec
<1>4. child' \in Alive \cup {"zombie"}
  BY <1>3, Zenon
  DEF ChildMain, ChildSetup, NextStage, ChildSetupFails, ReportChildError,
      ChildReady, ChildGate, ChildExec, ChildExecFails, ChildExit, ChildDies,
      Exit, Program, ProgramExits, ProgramForks, ProgramWrites, ProgramCloses,
      ForkedBy, WrittenBy, ClosedBy, Alive, BeforeExec, SetupStages
<1>5. pc \notin LadderLabels /\ pc # "done" /\ ~child_exited /\ ~child_reaped
  BY Zenon, <1>3 DEF LeaderInv, Alive, BeforeExec, SetupStages
<1>6. LeaderInv'
  BY Zenon, <1>4, <1>5 DEF LeaderInv, Alive, BeforeExec, SetupStages, LadderLabels,
     PidfdLabels, LoopLabels, Labels
<1>7. GateInv'
  <2>1. start_byte' \/ ran' \/ child' \in {"preexec", "program"} =>
          start_released
    <3>1. CASE ChildSetup \/ ChildSetupFails \/ ChildExecFails
      BY <3>1, Zenon DEF ChildSetup, NextStage, ChildSetupFails,
         ChildExecFails, ReportChildError, GateInv, SetupStages
    <3>2. CASE ChildReady(ready_open) \/ ChildGate(start_open) \/ ChildExec
      BY <3>2, Zenon DEF ChildReady, ChildGate, GatePassed, ChildExec,
         Setup, GateInv
    <3>3. CASE ChildExit \/ ChildDies \/ ProgramExits
      BY <3>3, Zenon DEF ChildExit, ChildDies, ProgramExits, Exit, GateInv
    <3>4. CASE ProgramForks \/ ProgramWrites \/ ProgramCloses
      BY Zenon, <3>4 DEF ProgramForks, ProgramWrites, ProgramCloses, ForkedBy,
         WrittenBy, ClosedBy, GateInv
    <3> QED BY Zenon, <3>1, <3>2, <3>3, <3>4 DEF ChildMain, Program
  <2> QED BY Zenon, <2>1 DEF GateInv
<1> QED BY Zenon, <1>2, <1>6, <1>7

\* Nor does the environment, which moves the leader only towards its death.
LEMMA EnvironmentMoves ==
    TypeOK /\ FlowInv /\ LeaderInv /\ GateInv /\ GraceInv /\ EnvironmentStep
    => FlowInv' /\ LeaderInv' /\ GateInv' /\ GraceInv'
<1> SUFFICES ASSUME TypeOK, FlowInv, LeaderInv, GateInv, GraceInv,
                    UNCHANGED supervisorVars, Environment
             PROVE  FlowInv' /\ LeaderInv' /\ GateInv' /\ GraceInv'
  BY Zenon DEF EnvironmentStep
<1>1. UNCHANGED <<child, ran, start_byte>>
  BY Zenon DEF Environment, RequestCancellation, Expire, MemberExit,
     MemberReaped, MemberForks, MemberWrites, MemberCloses, ForkedBy,
     WrittenBy, ClosedBy, NumberReused, LeakCloses, LeaderKilled, leaderVars,
     pipeVars
<1>2. cancel_timer = "expired" => cancel_timer' = "expired"
  BY Zenon DEF Environment, RequestCancellation, Expire, MemberExit,
     MemberReaped, MemberForks, MemberWrites, MemberCloses, ForkedBy,
     WrittenBy, ClosedBy, NumberReused, LeakCloses, LeaderKilled, timerVars
<1> QED
  BY <1>1, <1>2, Zenon
  DEF FlowInv, LeaderInv, GateInv, GraceInv, SendDue, LoopDone, supervisorVars,
      endVars, loopVars, flowVars, cancelVars, historyVars, resultVars

\* The initial states satisfy the invariants.
LEMMA InitSafety == Init => FlowInv /\ LeaderInv /\ GateInv /\ GraceInv
  BY Zenon DEF Init, KernelInit, SupervisorInit, FlowInv, LeaderInv, GateInv,
         GraceInv, LadderLabels, PidfdLabels, LoopLabels, CleanLabels, Labels

\* The inductive invariant of the supervisor, the leader and the gate.
THEOREM SafetyInvariant == Spec => []SafetyInv
<1> DEFINE Rest == FlowInv /\ LeaderInv /\ GateInv /\ GraceInv
<1>1. TypeOK /\ TypeOK' /\ Rest /\ [Next]_vars => Rest'
  <2> SUFFICES ASSUME TypeOK, TypeOK', Rest, [Next]_vars PROVE Rest'
    BY Zenon
  <2>1. CASE Supervise
    BY Zenon, <2>1, FlowStep, LeaderInvStep, GateInvStep, GraceInvStep
  <2>2. CASE LeaderStep \/ ProgramStep
    BY Zenon, <2>2, LeaderMoves
  <2>3. CASE EnvironmentStep
    BY Zenon, <2>3, EnvironmentMoves
  <2>4. CASE UNCHANGED vars
    BY <2>4, Zenon
    DEF vars, kernelVars, supervisorVars, leaderVars, pipeVars, timerVars,
        endVars, loopVars, flowVars, cancelVars, historyVars, resultVars,
        FlowInv, LeaderInv, GateInv, GraceInv, SendDue, LoopDone
  <2> QED BY Zenon, <2>1, <2>2, <2>3, <2>4 DEF Next, Terminated
<1>2. Init => Rest
  BY Zenon, InitSafety
<1>3. SafetyInv <=> TypeOK /\ Rest
  BY Zenon DEF SafetyInv
<1> HIDE DEF Rest
<1> QED BY <1>1, <1>2, <1>3, TypeCorrect, PTL DEF Spec

\* A cancellation observed before the gate is released keeps the program from
\* running, in every reachable state (observe_cancellation, write_start).
THEOREM GateHoldsAlways == Spec => []GateHolds
<1>1. SafetyInv => GateHolds
  BY Zenon DEF SafetyInv, GateInv, GateHolds
<1> QED BY <1>1, SafetyInvariant, PTL

\* execute_backend never returns before the leader is reaped.
THEOREM LeaderAlwaysReaped == Spec => []LeaderIsReaped
<1>1. SafetyInv => LeaderIsReaped
  BY Zenon DEF SafetyInv, LeaderInv, LeaderIsReaped
<1> QED BY <1>1, SafetyInvariant, PTL

\* A leader that was let through its gate is never sent SIGKILL before its grace
\* period is over; the only other one is that of a failing pidfd_open, which never
\* executes its program (backend.cpp:748-765).
THEOREM LeaderAlwaysHasGrace == Spec => []LeaderHasItsGrace
<1>1. SafetyInv => LeaderHasItsGrace
  <2> SUFFICES ASSUME SafetyInv, "leader" \in hasty
               PROVE  ~start_released /\ ~ran /\ result \in {"none", "process_start_failed"}
    BY Zenon DEF LeaderHasItsGrace
  <2>1. CASE pc = "pidfd_failed"
    <3>1. ~start_released /\ result = "none"
      BY Zenon, <2>1 DEF SafetyInv, FlowInv, PidfdLabels
    <3> QED BY Zenon, <3>1 DEF SafetyInv, GateInv
  <2>2. CASE pc # "pidfd_failed"
    <3>1. ~start_released /\ result = "process_start_failed"
      BY Zenon, <2>2 DEF SafetyInv, GraceInv
    <3> QED BY Zenon, <3>1 DEF SafetyInv, GateInv
  <2> QED BY Zenon, <2>1, <2>2
<1> QED BY <1>1, SafetyInvariant, PTL
=============================================================================
