---------------------------- MODULE CleanupProofs ----------------------------
(***************************************************************************)
(* Verified cleanup left nobody in the group, the leader of a controlled   *)
(* execution is reaped after its members, and nobody outside the group is  *)
(* signaled: for any number of members, as long as /proc/PID/stat can be   *)
(* opened and no member of a controlled group forks while it is being      *)
(* scanned.  And a completion is reported with all of the streams, whatever *)
(* fails.                                                                  *)
(***************************************************************************)
EXTENDS OutcomeProofs

\* SIGKILL leaves a group member listed until it is reaped.
LEMMA KilledStayListed ==
    ASSUME KernelType, NEW S, KillMembers(S)
    PROVE  \A p \in Procs : /\ mem'[p] = "none" <=> mem[p] = "none"
                            /\ mem'[p] = "gone" <=> mem[p] = "gone"
                            /\ p \in InGroup' <=> p \in InGroup
  BY Zenon DEF KernelType, KillMembers, InGroup, MemState

\* No step of execute_backend creates or removes a process of the group.
LEMMA SupervisedGroup ==
    ASSUME KernelType, Supervise
    PROVE  \A p \in Procs : /\ mem'[p] = "none" <=> mem[p] = "none"
                            /\ mem'[p] = "gone" <=> mem[p] = "gone"
                            /\ p \in InGroup' <=> p \in InGroup
<1>1. mem' = mem \/ \E S \in {InGroup} \cup Found : KillMembers(S)
  <2>1. CASE \/ CheckProfile
             \/ CancelCheck("cancel_1", "admission")
             \/ AdmitResources
             \/ CancelCheck("cancel_2", "interpreter")
             \/ AdmitInterpreter
             \/ CancelCheck("cancel_3", "pipes")
             \/ MakePipes \/ Fork \/ OpenPidfd \/ PidfdFailed
    BY <2>1, Zenon DEF CheckProfile, CancelCheck, AdmitResources,
       AdmitInterpreter, MakePipes, Fork, OpenPidfd, PidfdFailed, Refuse,
       Proceed, Ladder, groupVars
  <2>2. CASE \/ ObserveChildExit \/ ObserveCancellation \/ ReleaseGate
             \/ SampleNow
             \/ ListProcesses("term", "term_send")
             \/ ListProcesses("force", "force_send")
             \/ BeginCleanupLists
             \/ ListProcesses("kill", "kill_send")
             \/ ListProcesses("gone", "gone_check")
             \/ ListProcesses("last", "last_send")
             \/ CheckGone \/ BeginCleanupAfterCancel
    BY <2>2, Zenon DEF ObserveChildExit, ObserveCancellation, ReleaseGate,
       SampleNow, ListProcesses, BeginCleanupLists, CheckGone,
       BeginCleanupAfterCancel, kernelVars, groupVars
  <2>3. CASE \/ SendCancellationSignal \/ SendForcedSignal \/ BeginCleanup
             \/ RepeatKill \/ CleanupOverdue
    BY <2>3, Zenon DEF SendCancellationSignal, SendForcedSignal, BeginCleanup,
       RepeatKill, CleanupOverdue, SendTerm, SendKill
  <2>4. CASE Reap \/ GroupGone \/ GroupThere \/ GroupTerm \/ GroupKill
    BY <2>4, Zenon DEF Reap, GroupGone, GroupThere, GroupTerm, GroupKill,
       groupVars
  <2>5. CASE Drain \/ ReadControl \/ ReadReady \/ Classify
    BY <2>5, Zenon DEF Drain, ReadControl, ReadReady, Classify, Reading,
       kernelVars, groupVars
  <2> QED BY <2>1, <2>2, <2>3, <2>4, <2>5, Zenon DEF Supervise
<1>2. CASE mem' = mem
  BY Zenon, <1>2 DEF InGroup
<1>3. CASE \E S \in {InGroup} \cup Found : KillMembers(S)
  BY <1>3, KilledStayListed, Zenon
<1> QED BY Zenon, <1>1, <1>2, <1>3

\* Around execute_backend, only the program and its group make new members; with
\* the leader dead and no member forking, the group only shrinks.
LEMMA GroupMoves ==
    ASSUME TypeOK, LeaderStep \/ ProgramStep \/ EnvironmentStep
    PROVE  /\ UNCHANGED controlled
           /\ \/ \A m \in Members : /\ mem'[m] = "none" <=> mem[m] = "none"
                                    /\ mem[m] = "gone" => mem'[m] = "gone"
                                    /\ m \in InGroup' => m \in InGroup
              \/ /\ child = "program" \/ LiveMembers # {}
                 /\ child # "program" => controlled \in MembersFork
<1> USE DEF TypeOK, KernelType
<1>0. ChildMain(ready_open, start_open) \/ Program \/ Environment
  BY Zenon DEF LeaderStep, ProgramStep, EnvironmentStep
<1>1. UNCHANGED controlled
  BY <1>0, Zenon DEF ChildMain, ChildSetup, ChildSetupFails, ReportChildError,
     ChildReady, ChildGate, ChildExec, ChildExecFails, ChildExit, ChildDies,
     Exit, Program, ProgramExits, ProgramForks, ProgramWrites, ProgramCloses,
     Environment, RequestCancellation, Expire, MemberExit, MemberReaped,
     MemberForks, MemberWrites, MemberCloses, ForkedBy, WrittenBy, ClosedBy,
     NumberReused, LeakCloses, LeaderKilled, requestVars
<1>2. \/ mem' = mem
      \/ ProgramForks \/ MemberForks \/ NumberReused
      \/ \E p \in Procs : MemberExit(p) \/ MemberReaped(p)
  BY <1>0, Zenon DEF ChildMain, ChildSetup, ChildSetupFails, ReportChildError,
     ChildReady, ChildGate, ChildExec, ChildExecFails, ChildExit, ChildDies,
     Exit, Program, ProgramExits, ProgramWrites, ProgramCloses, Environment,
     RequestCancellation, Expire, MemberWrites, MemberCloses, WrittenBy,
     ClosedBy, LeakCloses, LeaderKilled, groupVars
<1>3. CASE mem' = mem
  BY Zenon, <1>1, <1>3 DEF InGroup
<1>4. CASE ProgramForks
  BY Zenon, <1>1, <1>4 DEF ProgramForks, Setup
<1>5. CASE MemberForks
  BY Zenon, <1>1, <1>5 DEF MemberForks
<1>6. CASE NumberReused
  BY Zenon, <1>1, <1>6, KernelAssumption DEF NumberReused, Procs, InGroup
<1>7. CASE \E p \in Procs : MemberExit(p) \/ MemberReaped(p)
  <2>1. PICK p \in Procs : MemberExit(p) \/ MemberReaped(p)
    BY Zenon, <1>7
  <2>2. mem[p] \in {"run", "dying"}
        /\ \E s \in {"dying", "gone"} : mem' = [mem EXCEPT ![p] = s]
    BY Zenon, <2>1 DEF MemberExit, MemberReaped
  <2> QED BY Zenon, <1>1, <2>2 DEF InGroup, Procs
<1> QED BY Zenon, <1>2, <1>3, <1>4, <1>5, <1>6, <1>7

\* The next place after the deadlines are looked at: cleanup only with a token,
\* the reap only when it is due.
LEMMA CleanPlaces ==
    /\ \A l \in {BeginLabel, CleanLabel, ReapLabel} :
         /\ l \in CleanLabels \cup {"reap", "drain"}
         /\ l # "gone_check"
         /\ l \in CleanLabels => controlled
         /\ l = "reap" => ReapDue
    /\ \A l \in {BeginLabel', CleanLabel', ReapLabel'} :
         /\ l \in CleanLabels \cup {"reap", "drain"}
         /\ l # "gone_check"
         /\ l \in CleanLabels => controlled'
         /\ l = "reap" => ReapDue'
  BY Zenon DEF BeginLabel, CleanLabel, ReapLabel, CleanLabels

\* What a place outside cleanup and reaping asks of the invariant: nothing new.
LEMMA CleanupElsewhere ==
    ASSUME SafetyInv, CleanupInv, Supervise,
           pc # "done",
           pc' \notin CleanLabels \cup GroupLabels \cup {"reap"},
           UNCHANGED <<child, cleanup_complete, cleanup_failed, result, evidence>>
    PROVE  CleanupInv'
<1>1. UNCHANGED ran
  BY Zenon, SeenStep
<1>2. \A p \in Procs : /\ mem'[p] = "none" <=> mem[p] = "none"
                       /\ mem'[p] = "gone" <=> mem[p] = "gone"
  BY Zenon, SupervisedGroup DEF SafetyInv, TypeOK
<1> QED BY Zenon, <1>1, <1>2 DEF CleanupInv, CleanLabels, Procs

\* Every step of execute_backend keeps the invariant of cleanup.
LEMMA CleanupStep ==
    ASSUME "stat" \notin Faults, SafetyInv, CleanupInv, Supervise
    PROVE  CleanupInv'
<1>0. /\ TypeOK /\ FlowInv /\ LeaderInv
      /\ UNCHANGED ran
  BY Zenon, SeenStep DEF SafetyInv
<1>1. \A m \in Members : /\ mem'[m] = "none" <=> mem[m] = "none"
                         /\ mem'[m] = "gone" <=> mem[m] = "gone"
                         /\ m \in InGroup' <=> m \in InGroup
  BY Zenon, <1>0, SupervisedGroup DEF TypeOK, Procs
<1>2. CASE \/ CheckProfile
           \/ CancelCheck("cancel_1", "admission")
           \/ AdmitResources
           \/ CancelCheck("cancel_2", "interpreter")
           \/ AdmitInterpreter
           \/ CancelCheck("cancel_3", "pipes")
           \/ MakePipes \/ Fork \/ OpenPidfd \/ PidfdFailed
  <2>1. /\ UNCHANGED <<cleanup_complete, cleanup_failed>>
        /\ evidence' = evidence \/ evidence' = "none"
    BY <1>2, Zenon DEF CheckProfile, CancelCheck, AdmitResources,
       AdmitInterpreter, MakePipes, Fork, OpenPidfd, PidfdFailed, Refuse,
       Proceed, Return, Advance, Ladder, loopVars, cleanVars, resultVars
  <2>2. /\ pc \in LadderLabels \cup PidfdLabels
        /\ pc' \in LadderLabels \cup PidfdLabels \cup {"exit", "done"}
    BY Zenon, <1>2, AdmissionShape, PidfdShape DEF Fork, PidfdFailed, Refuse, Return,
       Advance, Ladder, LadderLabels, PidfdLabels
  <2>3. /\ evidence' = "none"
        /\ pc' \notin CleanLabels \cup GroupLabels \cup {"reap", "gone_check"}
    BY Zenon, <2>1, <2>2 DEF CleanupInv, LadderLabels, PidfdLabels, CleanLabels,
       GroupLabels
  <2>4. child' # "program" \/ child' = child
    BY Zenon, SeenStep, <1>2 DEF Fork, PidfdFailed, Refuse, leaderVars
  <2>5. cleanup_complete /\ ~cleanup_failed =>
          child' \in {"zombie", "reaped"}
    <3>1. CASE pc \in LadderLabels
      BY Zenon, <1>0, <3>1 DEF LeaderInv, CleanupInv
    <3>2. CASE pc \in PidfdLabels
      <4>1. child' = child \/ child' = "reaped"
        BY Zenon, <1>2, <3>2, AdmissionShape, PidfdShape DEF PidfdFailed, Fork,
           Refuse, Ladder, PidfdLabels, LadderLabels, leaderVars
      <4> QED BY Zenon, <4>1 DEF CleanupInv
    <3> QED BY Zenon, <2>2, <3>1, <3>2
  <2> QED BY Zenon, <1>0, <1>1, <2>1, <2>3, <2>4, <2>5 DEF CleanupInv
<1>3. CASE ObserveChildExit
  <2>1. pc' \in {"cancel", "gate", "term", "deadline"}
    BY Zenon, <1>3 DEF ObserveChildExit, CancelLabel, GateLabel, TermLabel
  <2> QED BY Zenon, <1>3, <2>1, CleanupElsewhere DEF ObserveChildExit, kernelVars,
      leaderVars, cleanVars, resultVars, CleanLabels, GroupLabels
<1>4. CASE ObserveCancellation \/ ReleaseGate
  <2>1. pc' \in {"gate", "term", "deadline"}
    BY Zenon, <1>4 DEF ObserveCancellation, ReleaseGate, GateLabel, TermLabel
  <2>2. UNCHANGED cleanVars
    BY <1>4, Zenon DEF ObserveCancellation, ReleaseGate
  <2> QED BY Zenon, <1>4, <2>1, <2>2, GateShape, CleanupElsewhere, LoopIsApart
      DEF leaderVars, cleanVars, resultVars, CleanLabels, GroupLabels
<1>5. CASE Drain \/ ReadControl \/ ReadReady
  <2>1. pc' \in {"control", "ready", "result", "exit", "cancel", "gate", "term",
                "deadline"}
    BY Zenon, <1>5 DEF Drain, ReadControl, ReadReady, ControlLabel, ReadyLabel, LoopEnd,
       TopLabel, CancelLabel, GateLabel, TermLabel
  <2>2. UNCHANGED cleanVars
    BY <1>5, Zenon DEF Drain, ReadControl, ReadReady, Reading
  <2> QED BY Zenon, <1>5, <2>1, <2>2, ReadShape, CleanupElsewhere, LoopIsApart
      DEF leaderVars, cleanVars, resultVars, CleanLabels, GroupLabels
<1>6. CASE \/ ListProcesses("term", "term_send")
           \/ ListProcesses("force", "force_send")
           \/ SendCancellationSignal
  <2>1. /\ pc' \in {"term_send", "force_send", "deadline"}
        /\ UNCHANGED <<child, evidence, result, cleanup_complete>>
        /\ cleanup_failed' = (cleanup_failed \/ (pc = "term_send" /\ ~complete))
        /\ pc # "done"
    BY Zenon, <1>0, <1>6 DEF ListProcesses, SendCancellationSignal, Sending,
       NoteIncomplete, kernelVars, leaderVars, cleanVars, resultVars, TypeOK,
       CleanupType
  <2> QED BY Zenon, <1>0, <1>1, <2>1 DEF CleanupInv, CleanLabels, GroupLabels
<1> USE DEF CleanLabels, GroupLabels
<1>7. CASE \/ BeginCleanupLists
           \/ ListProcesses("kill", "kill_send")
           \/ ListProcesses("last", "last_send")
           \/ ListProcesses("gone", "gone_check")
  <2>1. /\ pc \in CleanLabels /\ pc' \in CleanLabels
        /\ UNCHANGED <<controlled, child, evidence, cleanup_complete,
                       cleanup_failed>>
        /\ pc' = "gone_check" => snap' = InGroup \/ ~complete'
    BY Zenon, <1>7 DEF ListProcesses, BeginCleanupLists, kernelVars, requestVars,
       leaderVars, cleanVars, resultVars
  <2> QED BY Zenon, <1>0, <1>1, <2>1 DEF CleanupInv
<1>8. CASE \/ SampleNow \/ SendForcedSignal
           \/ BeginCleanupAfterCancel \/ BeginCleanup
           \/ RepeatKill \/ CleanupOverdue
  <2>1. /\ UNCHANGED <<controlled, child, evidence>>
        /\ cleanup_complete' /\ ~cleanup_failed' =>
             cleanup_complete /\ ~cleanup_failed
        /\ pc # "done"
    BY Zenon, <1>0, <1>8 DEF SampleNow, SendForcedSignal, BeginCleanupAfterCancel,
       BeginCleanup, RepeatKill, CleanupOverdue, Sending, NoteIncomplete,
       kernelVars, requestVars, leaderVars, cleanVars, resultVars, TypeOK,
       CleanupType
  <2>2. \/ pc' = "force" \/ (pc' = BeginLabel /\ ReapDue' = ReapDue)
        \/ pc' \in {BeginLabel', CleanLabel', ReapLabel'}
        \/ pc' = "gone" /\ pc \in CleanLabels
    <3>1. CASE SampleNow
      BY Zenon, <3>1 DEF SampleNow, ReapDue, kernelVars, requestVars, flowVars, cleanVars
    <3>2. CASE \/ SendForcedSignal \/ BeginCleanupAfterCancel \/ BeginCleanup
               \/ RepeatKill \/ CleanupOverdue
      BY <3>2, Zenon DEF SendForcedSignal, BeginCleanupAfterCancel,
         BeginCleanup, RepeatKill, CleanupOverdue, Sending
    <3> QED BY Zenon, <1>8, <3>1, <3>2
  <2>3. /\ pc' \in CleanLabels => controlled'
        /\ pc' \notin GroupLabels /\ pc' # "gone_check"
        /\ pc' = "reap" => ReapDue'
    BY Zenon, <2>1, <2>2, CleanPlaces DEF CleanupInv
  <2> QED BY Zenon, <1>0, <1>1, <2>1, <2>3 DEF CleanupInv
<1>9. CASE CheckGone
  <2>1. /\ UNCHANGED <<controlled, child, evidence, cleanup_failed, child_exited>>
        /\ pc = "gone_check"
        /\ pc' = "last" \/ pc' = ReapLabel'
        /\ cleanup_complete' => complete /\ snap \cap InGroup = {}
    BY Zenon, <1>9 DEF CheckGone, Found, kernelVars, requestVars, leaderVars, flowVars,
       resultVars
  <2>2. cleanup_complete' =>
          /\ child' \in {"zombie", "reaped"}
          /\ \A m \in Members : mem'[m] \in {"none", "gone"}
    <3> SUFFICES ASSUME cleanup_complete'
                 PROVE  /\ child' \in {"zombie", "reaped"}
                        /\ \A m \in Members : mem'[m] \in {"none", "gone"}
      BY Zenon
    <3>1. child' \in {"zombie", "reaped"}
      BY Zenon, <1>0, <2>1 DEF FlowInv, LeaderInv
    <3>2. InGroup \cap Members = {}
      BY Zenon, <2>1 DEF CleanupInv
    <3>3. \A m \in Members : mem[m] \in {"none", "gone"}
      BY Zenon, <1>0, <3>2 DEF InGroup, Procs, TypeOK, KernelType, MemState
    <3> QED BY Zenon, <1>1, <3>1, <3>3
  <2>3. /\ pc' \in CleanLabels => controlled'
        /\ pc' \notin GroupLabels /\ pc' # "gone_check"
        /\ pc' = "reap" => ReapDue'
    BY Zenon, <2>1, CleanPlaces DEF CleanupInv
  <2> QED BY Zenon, <1>0, <1>1, <2>1, <2>2, <2>3 DEF CleanupInv
<1>10. CASE Reap
  <2>1. /\ UNCHANGED <<controlled, evidence, cleanup_complete, cleanup_failed>>
        /\ pc = "reap" /\ child' = "reaped" /\ child_reaped'
        /\ pc' = IF controlled THEN "drain" ELSE "group_probe"
    BY Zenon, <1>10 DEF Reap, requestVars, cleanVars, resultVars
  <2> QED BY Zenon, <1>0, <1>1, <2>1 DEF CleanupInv
<1>11. CASE GroupGone \/ GroupThere \/ GroupTerm \/ GroupKill
  <2>1. /\ UNCHANGED <<controlled, child, evidence, child_reaped>>
        /\ pc \in GroupLabels /\ pc' \in GroupLabels \cup {"drain"}
    BY Zenon, <1>11 DEF GroupGone, GroupThere, GroupTerm, GroupKill, GroupCleaned,
       GroupStep, InGroupCleanup, requestVars, leaderVars, flowVars, resultVars
  <2>2. cleanup_complete' /\ ~cleanup_failed' =>
          InGroup = {} \/ (cleanup_complete /\ ~cleanup_failed)
    BY Zenon, <1>11 DEF GroupGone, GroupThere, GroupTerm, GroupKill, GroupCleaned,
       GroupStep
  <2>3. InGroup = {} => \A m \in Members : mem[m] \in {"none", "gone"}
    BY Zenon, <1>0 DEF InGroup, Procs, TypeOK, KernelType, MemState
  <2>4. child = "reaped" /\ ~controlled
    BY Zenon, <1>0, <2>1 DEF CleanupInv, LeaderInv
  <2> QED BY Zenon, <1>0, <1>1, <2>1, <2>2, <2>3, <2>4 DEF CleanupInv
<1>12. CASE Classify
  <2>1. /\ pc' = "done"
        /\ UNCHANGED <<controlled, child, cleanup_complete, cleanup_failed>>
    BY Zenon, <1>0, <1>12, ClassifyShape DEF kernelVars, requestVars, leaderVars,
       loopVars, cleanVars
  <2>2. evidence' = "verified" => CleanupVerified
    BY <1>12, Zenon DEF Classify, NotStarted, Started, Return
  <2>3. scratch' \in {"none", "gone", "stuck"}
    BY Zenon, <1>0, <1>12 DEF Classify, VerifyParentCleanup, TypeOK, ProgressType
  <2> QED BY Zenon, <1>0, <1>1, <2>1, <2>2, <2>3 DEF CleanupInv, CleanupVerified
<1> QED BY Zenon, <1>2, <1>3, <1>4, <1>5, <1>6, <1>7, <1>8, <1>9, <1>10, <1>11, <1>12,
        Zenon DEF Supervise

\* In every reachable state, cleanup that counts as complete left nobody in the
\* group (supervision loop of execute_backend, cleanup_group).
LEMMA CleanupInvariant ==
    ASSUME "stat" \notin Faults, TRUE \notin MembersFork
    PROVE  Spec => []CleanupInv
<1>1. Init => CleanupInv
  BY Zenon DEF Init, KernelInit, SupervisorInit, CleanupInv, CleanLabels, GroupLabels,
     Procs
<1>2. ASSUME SafetyInv, CleanupInv, LeaderStep \/ ProgramStep \/ EnvironmentStep
      PROVE  CleanupInv'
  <2>0. TypeOK /\ FlowInv /\ LeaderInv /\ UNCHANGED supervisorVars
    BY Zenon, <1>2, SeenMoves DEF SafetyInv
  <2>1. UNCHANGED <<pc, child_exited, child_reaped, cleanup_complete,
                    cleanup_failed, scratch, evidence, snap, complete>>
    BY Zenon, <2>0 DEF supervisorVars, loopVars, flowVars, cleanVars, scanVars,
       resultVars
  <2>2. UNCHANGED controlled
    BY Zenon, <1>2, <2>0, GroupMoves
  <2>3. ran => ran'
    BY Zenon, <1>2, SeenMoves
  <2>4. child' = "program" => ran'
    <3>1. child' = child \/ child' # "program" \/ ran'
      <4>1. CASE ChildSetup
        BY Zenon, <4>1 DEF ChildSetup, NextStage, SetupStages
      <4>2. CASE \/ ChildSetupFails \/ ChildReady(ready_open)
                 \/ ChildGate(start_open) \/ ChildExec \/ ChildExecFails
                 \/ ChildExit \/ ChildDies \/ ProgramExits
        BY Zenon, <4>2 DEF ChildSetupFails, ReportChildError, ChildReady, ChildGate,
           ChildExec, ChildExecFails, ChildExit, ChildDies, ProgramExits, Exit
      <4>3. CASE ProgramForks \/ ProgramWrites \/ ProgramCloses \/ Environment
        BY Zenon, <4>3, LeaderKeptBy
      <4> QED BY <1>2, <4>1, <4>2, <4>3, Zenon
          DEF LeaderStep, ProgramStep, EnvironmentStep, ChildMain, Program
    <3> QED BY Zenon, <1>2, <2>3, <3>1 DEF CleanupInv
  <2>5. child \in {"zombie", "reaped"} => UNCHANGED child
    BY Zenon, <1>2, SeenMoves DEF Alive, BeforeExec, SetupStages
  <2>6. CASE \A m \in Members : /\ mem'[m] = "none" <=> mem[m] = "none"
                                /\ mem[m] = "gone" => mem'[m] = "gone"
                                /\ m \in InGroup' => m \in InGroup
    <3>1. \A m \in Members : mem'[m] # "none" => ran'
      BY Zenon, <1>2, <2>3, <2>6 DEF CleanupInv
    <3>2. pc' = "gone_check" /\ complete' => InGroup' \cap Members \subseteq snap'
      BY Zenon, <1>2, <2>1, <2>6 DEF CleanupInv
    <3> QED BY Zenon, <1>2, <2>1, <2>2, <2>4, <2>5, <2>6, <3>1, <3>2
        DEF CleanupInv, ReapDue
  <2>7. CASE /\ child = "program" \/ LiveMembers # {}
             /\ child # "program" => controlled \in MembersFork
    <3>1. ran
      BY Zenon, <1>2, <2>7 DEF CleanupInv, LiveMembers
    <3>2. ~(cleanup_complete /\ ~cleanup_failed)
      BY Zenon, <1>2, <2>7 DEF CleanupInv, LiveMembers
    <3>3. pc # "gone_check"
      <4> SUFFICES ASSUME pc = "gone_check" PROVE FALSE
        BY Zenon
      <4>1. controlled /\ child # "program"
        BY Zenon, <1>2, <2>0 DEF CleanupInv, CleanLabels, FlowInv, LeaderInv
      <4>2. controlled = TRUE
        BY Zenon, <2>0, <4>1 DEF TypeOK, KernelType
      <4> QED BY Zenon, <2>7, <4>1, <4>2
    <3> QED BY Zenon, <1>2, <2>1, <2>2, <2>3, <2>4, <3>1, <3>2, <3>3
        DEF CleanupInv, ReapDue
  <2> QED BY Zenon, <1>2, <2>0, <2>6, <2>7, GroupMoves
<1>3. ASSUME CleanupInv, UNCHANGED vars PROVE CleanupInv'
  BY Zenon, <1>3 DEF CleanupInv, InGroup, ReapDue, vars, kernelVars, requestVars,
     leaderVars, groupVars, supervisorVars, loopVars, flowVars, cleanVars,
     scanVars, resultVars
<1>4. SafetyInv /\ CleanupInv /\ [Next]_vars => CleanupInv'
  BY <1>2, <1>3, CleanupStep, Zenon DEF Next, Terminated
<1> QED BY <1>1, <1>4, SafetyInvariant, PTL DEF Spec

\* Whatever else fails, a result that reports verified cleanup is true: nobody of
\* the group is left and the scratch directory is removed.
THEOREM VerifiedCleanupIsTrue ==
    ASSUME "stat" \notin Faults, TRUE \notin MembersFork
    PROVE  Spec => []VerifiedMeansGone
<1>1. CleanupInv => VerifiedMeansGone
  BY Zenon DEF CleanupInv, VerifiedMeansGone
<1> QED BY <1>1, CleanupInvariant, PTL

\* The leader of a controlled execution, which keeps the group number from being
\* reused, is reaped after its members unless cleanup is reported as failed.
THEOREM LeaderOutlivesMembers ==
    ASSUME "stat" \notin Faults, TRUE \notin MembersFork
    PROVE  Spec => ReapedAfterMembers
<1>1. ASSUME SafetyInv, CleanupInv, [Next]_vars,
             child = "zombie", child' = "reaped", controlled
      PROVE  cleanup_failed \/ \A m \in Members : mem[m] \in {"none", "gone"}
  <2>1. Supervise
    BY Zenon, <1>1, SeenMoves DEF Next, Terminated, vars, kernelVars, leaderVars, Alive,
       BeforeExec, SetupStages
  <2>2. CASE pc = "reap"
    BY Zenon, <1>1, <2>2 DEF CleanupInv, ReapDue
  <2>3. CASE pc = "pidfd_failed"
    <3>1. ~ran
      BY Zenon, <1>1, <2>3 DEF SafetyInv, FlowInv, GateInv, PidfdLabels
    <3> QED BY Zenon, <1>1, <3>1 DEF CleanupInv
  <2>4. pc \in {"reap", "pidfd_failed"}
    <3>1. CASE Reap \/ PidfdFailed
      BY Zenon, <3>1 DEF Reap, PidfdFailed, Ladder
    <3>2. CASE ~(Reap \/ PidfdFailed)
      BY Zenon, <1>1, <2>1, <3>2, AdmissionShape, QuietShape, GateShape, ReadShape,
         ClassifyShape
      DEF Supervise, SafetyInv, Fork, OpenPidfd, ObserveChildExit, Refuse,
          Proceed, Ladder, kernelVars, leaderVars
    <3> QED BY Zenon, <3>1, <3>2
  <2> QED BY Zenon, <2>2, <2>3, <2>4
<1>2. SafetyInv /\ CleanupInv /\ [Next]_vars =>
        [child = "zombie" /\ child' = "reaped" /\ controlled =>
           cleanup_failed \/ \A m \in Members : mem[m] \in {"none", "gone"}]_vars
  BY Zenon, <1>1
<1> QED BY <1>2, SafetyInvariant, CleanupInvariant, PTL
        DEF Spec, ReapedAfterMembers

(***************************************************************************)
(* The streams.                                                            *)
(***************************************************************************)
\* What nobody can write to any more stays so, whatever the leader, the program
\* and the environment do.
LEMMA StreamStaysDone ==
    ASSUME TypeOK, StreamDone, LeaderStep \/ ProgramStep \/ EnvironmentStep
    PROVE  StreamDone'
<1> USE DEF StreamDone
<1>0. ChildMain(ready_open, start_open) \/ Program \/ Environment
  BY Zenon DEF LeaderStep, ProgramStep, EnvironmentStep
<1>1. CASE ChildSetup \/ ChildSetupFails \/ ChildReady(ready_open) \/ ChildGate(start_open)
  <2>1. child \in BeforeExec \ {"preexec"}
    BY Zenon, <1>1 DEF ChildSetup, ChildSetupFails, ChildReady, ChildGate, Setup, BeforeExec,
       SetupStages
  <2> QED BY Zenon, <2>1
<1>2. CASE ChildExec \/ ChildExecFails
  BY Zenon, <1>2 DEF ChildExec, ChildExecFails, ReportChildError, Setup, BeforeExec, SetupStages,
     requestVars
<1>3. CASE ChildExit \/ ChildDies \/ ProgramExits
  BY Zenon, <1>3 DEF ChildExit, ChildDies, ProgramExits, Exit, BeforeExec, SetupStages, requestVars
<1>4. CASE ProgramForks \/ ProgramWrites \/ ProgramCloses
  BY <1>4 DEF ProgramForks, ProgramWrites, ProgramCloses, ForkedBy, WrittenBy, ClosedBy,
     leaderVars, requestVars
<1>5. CASE Environment
  <2>1. CASE RequestCancellation \/ Expire \/ NumberReused \/ LeaderKilled
             \/ \E p \in Procs : MemberExit(p)
    BY <2>1 DEF RequestCancellation, Expire, NumberReused, LeaderKilled, MemberExit, pipeVars,
       leaderVars, requestVars
  <2>2. CASE \E p \in Procs : MemberReaped(p)
    BY <2>2 DEF MemberReaped, leaderVars, requestVars
  <2>3. CASE MemberForks \/ MemberWrites \/ MemberCloses
    BY <2>3 DEF MemberForks, MemberWrites, MemberCloses, ForkedBy, WrittenBy, ClosedBy,
       leaderVars, requestVars
  <2>4. CASE LeakCloses
    BY Zenon, <2>4 DEF LeakCloses, leaderVars, requestVars
  <2> QED BY <1>5, <2>1, <2>2, <2>3, <2>4, Zenon DEF Environment
<1> QED BY <1>0, <1>1, <1>2, <1>3, <1>4, <1>5, Zenon DEF ChildMain, Program

\* The pipes exist from pipe2 to the end of the loop.
LEMMA PipesAreMade ==
    /\ MakePipes /\ pc' = "fork" => stream_open'
    /\ Fork /\ pc' # "done" => UNCHANGED stream_open
    /\ OpenPidfd => UNCHANGED stream_open
<1>1. MakePipes /\ pc' = "fork" => stream_open'
  BY Zenon DEF MakePipes, Refuse, Return
<1>2. Fork /\ pc' # "done" => UNCHANGED stream_open
  BY Zenon DEF Fork, Refuse, Return, Advance, endVars
<1>3. OpenPidfd => UNCHANGED stream_open
  BY Zenon DEF OpenPidfd, Proceed, Advance, endVars
<1> QED BY Zenon, <1>1, <1>2, <1>3

\* A stream is closed at its end, or its capture has failed.
LEMMA CaptureStep ==
    ASSUME SafetyInv, CaptureInv, Supervise
    PROVE  CaptureInv'
<1>0. /\ TypeOK /\ FlowInv /\ LeaderInv
      /\ LoopLabels \cap (LadderLabels \cup PidfdLabels \cup {"done"}) = {}
      /\ {"fork", "pidfd"} \cap LoopLabels = {}
      /\ NotStartedResults \cap StartedResults = {} /\ "none" \notin StartedResults
  BY Zenon DEF SafetyInv, LoopLabels, LadderLabels, PidfdLabels, NotStartedResults, StartedResults
<1>1. ASSUME pc \in LoopLabels, pc' \in LoopLabels,
             UNCHANGED <<capture, child, unread, writers, leak, stream_open, capture_failed,
                         result>>
      PROVE  CaptureInv'
  BY Zenon, <1>0, <1>1 DEF CaptureInv, StreamDone
<1>2. CASE \/ CheckProfile
           \/ CancelCheck("cancel_1", "admission")
           \/ AdmitResources
           \/ CancelCheck("cancel_2", "interpreter")
           \/ AdmitInterpreter
           \/ CancelCheck("cancel_3", "pipes")
           \/ MakePipes
  <2>1. /\ pc \in LadderLabels /\ pc' \in LadderLabels \cup {"done"}
        /\ result' \in NotStartedResults \/ result' = result
    BY Zenon, <1>2, AdmissionShape
  <2>2. result = "none"
    BY Zenon, <1>0, <2>1 DEF FlowInv, LadderLabels
  <2>3. pc' = "fork" => MakePipes
    BY <1>2, Zenon DEF CheckProfile, CancelCheck, AdmitResources, AdmitInterpreter, Refuse,
       Proceed, Return, Advance
  <2>4. pc' # "pidfd" /\ pc' \notin LoopLabels /\ result' \notin StartedResults
    BY Zenon, <1>0, <2>1, <2>2 DEF LadderLabels
  <2> QED BY Zenon, <2>3, <2>4, PipesAreMade DEF CaptureInv
<1>3. CASE Fork \/ OpenPidfd \/ PidfdFailed
  <2>1. /\ pc \in {"fork", "pidfd", "pidfd_failed"}
        /\ pc' \in {"pidfd", "pidfd_failed", "exit", "done"}
        /\ result' = result \/ result' = "process_start_failed"
        /\ pc = "pidfd_failed" => pc' = "done"
    BY Zenon, <1>3 DEF Fork, OpenPidfd, PidfdFailed, Refuse, Proceed, Return, Advance, Ladder,
       resultVars
  <2>2. result' \notin StartedResults
    BY Zenon, <1>0, <2>1 DEF FlowInv, NotStartedResults
  <2>3. pc' \in {"pidfd", "exit"} => stream_open'
    BY <1>3, <2>1, PipesAreMade DEF CaptureInv, PidfdFailed, Return
  <2> QED BY Zenon, <1>0, <2>1, <2>2, <2>3 DEF CaptureInv, PidfdLabels
<1>4. CASE ObserveChildExit \/ Reap
  <2>1. /\ pc \in LoopLabels /\ pc' \in LoopLabels
        /\ UNCHANGED <<capture, unread, writers, leak, stream_open, capture_failed, result>>
        /\ child' = child \/ child' = "reaped"
    <3>1. CASE ObserveChildExit
      BY Zenon, <3>1, LoopIsApart, LabelPlaces DEF ObserveChildExit, kernelVars, requestVars,
         leaderVars, pipeVars, endVars, resultVars
    <3>2. CASE Reap
      BY Zenon, <3>2, LoopIsApart, LabelPlaces DEF Reap, requestVars, pipeVars, endVars,
         resultVars
    <3> QED BY Zenon, <1>4, <3>1, <3>2
  <2> QED BY Zenon, <1>0, <2>1 DEF CaptureInv, StreamDone, BeforeExec, SetupStages
<1>5. CASE ObserveCancellation \/ ReleaseGate
  <2>1. UNCHANGED <<capture, unread, writers, leak>>
    BY <1>5, Zenon DEF ObserveCancellation, ReleaseGate, kernelVars, requestVars, pipeVars
  <2> QED BY Zenon, <1>1, <1>5, <2>1, GateShape DEF leaderVars, resultVars
<1>6. CASE \/ SampleNow
           \/ ListProcesses("term", "term_send")
           \/ ListProcesses("force", "force_send")
           \/ BeginCleanupLists
           \/ ListProcesses("kill", "kill_send")
           \/ ListProcesses("gone", "gone_check")
           \/ ListProcesses("last", "last_send")
           \/ CheckGone
           \/ SendCancellationSignal \/ SendForcedSignal
           \/ BeginCleanupAfterCancel \/ BeginCleanup
           \/ RepeatKill \/ CleanupOverdue
           \/ GroupGone \/ GroupThere \/ GroupTerm \/ GroupKill
  <2>1. UNCHANGED capture
    BY <1>6, Zenon DEF SampleNow, ListProcesses, BeginCleanupLists, CheckGone,
       SendCancellationSignal, SendForcedSignal, BeginCleanupAfterCancel, BeginCleanup,
       RepeatKill, CleanupOverdue, Sending, GroupGone, GroupThere, GroupTerm, GroupKill,
       InGroupCleanup, kernelVars, requestVars
  <2> QED BY Zenon, <1>1, <1>6, <2>1, QuietShape DEF pipeVars, endVars, flowVars, resultVars
<1>7. CASE Drain
  <2>1. /\ pc \in LoopLabels /\ pc' \in LoopLabels
        /\ UNCHANGED <<capture, child, writers, leak, result>>
    BY Zenon, <1>7, ReadShape DEF Drain, Reading, requestVars, leaderVars, resultVars
  <2>2. \/ UNCHANGED <<unread, stream_open, capture_failed>>
        \/ unread' = 0 /\ (~stream_open' => ~StreamHeld)
        \/ capture_failed'
    <3>1. stream_open = TRUE \/ stream_open = FALSE
      BY Zenon, <1>0 DEF TypeOK, ProgressType
    <3>2. CASE stream_open = TRUE
      BY <1>7, <3>2, Zenon DEF Drain
    <3>3. CASE stream_open = FALSE
      BY <1>7, <3>3, Zenon DEF Drain
    <3> QED BY Zenon, <3>1, <3>2, <3>3
  <2>3. unread' = 0 /\ ~StreamHeld => StreamDone'
    BY Zenon, <2>1 DEF StreamHeld, StreamDone
  <2>4. result \notin StartedResults
    BY Zenon, <1>0, <2>1 DEF FlowInv
  <2>5. CASE UNCHANGED <<unread, stream_open, capture_failed>>
    BY Zenon, <1>1, <2>1, <2>5
  <2>6. CASE capture_failed' \/ (unread' = 0 /\ (~stream_open' => ~StreamHeld))
    BY Zenon, <1>0, <2>1, <2>3, <2>4, <2>6 DEF CaptureInv
  <2> QED BY Zenon, <2>2, <2>5, <2>6
<1>8. CASE ReadControl \/ ReadReady
  <2>1. UNCHANGED <<capture, unread, writers, leak, stream_open, capture_failed>>
    BY <1>8, Zenon DEF ReadControl, ReadReady, Reading, requestVars
  <2> QED BY Zenon, <1>1, <1>8, <2>1, ReadShape DEF leaderVars, resultVars
<1>9. CASE Classify
  <2>1. /\ pc = "result" /\ pc' = "done"
        /\ UNCHANGED <<capture, child, unread, writers, leak>>
    BY Zenon, <1>0, <1>9, ClassifyShape DEF kernelVars, requestVars, leaderVars, pipeVars
  <2>2. result' \in StartedResults \ {"log_capture_failed"} => ~capture_failed
    <3>1. CASE NotStarted
      BY Zenon, <1>0, <3>1, NotStartedReturns DEF Return
    <3>2. CASE Started
      <4>1. result' = StartedResult
        BY Zenon, <3>2 DEF Started, Return
      <4> QED BY Zenon, <4>1 DEF StartedResult
    <3> QED BY Zenon, <1>9, <3>1, <3>2 DEF Classify
  <2>3. ~stream_open /\ pc \in LoopLabels
    BY Zenon, <1>0, <2>1, LoopIsApart DEF FlowInv, LoopDone
  <2> QED BY Zenon, <1>0, <2>1, <2>2, <2>3 DEF CaptureInv, StreamDone
<1> QED BY <1>2, <1>3, <1>4, <1>5, <1>6, <1>7, <1>8, <1>9, Zenon DEF Supervise

\* Whatever is leaked, whoever is killed and whatever fails: a result that says
\* the program ran and does not say log_capture_failed comes with all that was
\* written, and nobody is left who could write more.
THEOREM CaptureIsComplete == Spec => []CompleteCapture
<1>1. Init => CaptureInv
  BY Zenon DEF Init, KernelInit, SupervisorInit, CaptureInv, LoopLabels, LadderLabels,
     StartedResults
<1>2. ASSUME SafetyInv, CaptureInv, LeaderStep \/ ProgramStep \/ EnvironmentStep
      PROVE  CaptureInv'
  <2>1. UNCHANGED supervisorVars /\ TypeOK
    BY Zenon, <1>2, SeenMoves DEF SafetyInv
  <2>2. UNCHANGED <<pc, stream_open, capture_failed, result>>
    BY Zenon, <2>1 DEF supervisorVars, endVars, loopVars, flowVars, resultVars
  <2> QED BY Zenon, <1>2, <2>1, <2>2, StreamStaysDone DEF CaptureInv
<1>3. ASSUME CaptureInv, UNCHANGED vars PROVE CaptureInv'
  BY Zenon, <1>3 DEF CaptureInv, StreamDone, vars, kernelVars, requestVars, leaderVars, pipeVars,
     supervisorVars, endVars, loopVars, flowVars, resultVars
<1>4. SafetyInv /\ CaptureInv /\ [Next]_vars => CaptureInv'
  BY <1>2, <1>3, CaptureStep, Zenon DEF Next, Terminated
<1>5. SafetyInv /\ CaptureInv => CompleteCapture
  <2> SUFFICES ASSUME SafetyInv, CaptureInv, result \in StartedResults \ {"log_capture_failed"}
               PROVE  unread = 0 /\ ~StreamHeld
    BY Zenon DEF CompleteCapture
  <2>1. StreamDone /\ child \in {"none", "reaped"}
    BY Zenon DEF CaptureInv, SafetyInv, FlowInv, LeaderInv, StartedResults
  <2> QED BY Zenon, <2>1 DEF StreamDone, StreamHeld, BeforeExec, SetupStages, Exiting
<1> QED BY <1>1, <1>4, <1>5, SafetyInvariant, PTL DEF Spec

(***************************************************************************)
(* The group number.                                                       *)
(***************************************************************************)
\* No step of execute_backend changes the request, or who writes to the streams.
LEMMA SupervisedFrame == Supervise => UNCHANGED <<controlled, writers, leak>>
<1> SUFFICES ASSUME Supervise PROVE UNCHANGED <<controlled, writers, leak>>
  BY Zenon
<1>1. CASE \/ CheckProfile
           \/ CancelCheck("cancel_1", "admission")
           \/ AdmitResources
           \/ CancelCheck("cancel_2", "interpreter")
           \/ AdmitInterpreter
           \/ CancelCheck("cancel_3", "pipes")
           \/ MakePipes \/ Fork \/ OpenPidfd \/ PidfdFailed
  BY <1>1, Zenon DEF CheckProfile, CancelCheck, AdmitResources, AdmitInterpreter,
     MakePipes, Fork, OpenPidfd, PidfdFailed, Refuse, Proceed, Ladder, requestVars, pipeVars
<1>2. CASE \/ ObserveChildExit \/ ObserveCancellation \/ ReleaseGate \/ SampleNow
           \/ ListProcesses("term", "term_send")
           \/ ListProcesses("force", "force_send")
           \/ BeginCleanupLists
           \/ ListProcesses("kill", "kill_send")
           \/ ListProcesses("gone", "gone_check")
           \/ ListProcesses("last", "last_send")
           \/ CheckGone \/ BeginCleanupAfterCancel \/ Reap \/ Classify
  BY <1>2, Zenon DEF ObserveChildExit, ObserveCancellation, ReleaseGate, SampleNow,
     ListProcesses, BeginCleanupLists, CheckGone, BeginCleanupAfterCancel, Reap, Classify,
     kernelVars, requestVars, pipeVars
<1>3. CASE \/ SendCancellationSignal \/ SendForcedSignal \/ BeginCleanup
           \/ RepeatKill \/ CleanupOverdue
           \/ GroupGone \/ GroupThere \/ GroupTerm \/ GroupKill
  BY <1>3, Zenon DEF SendCancellationSignal, SendForcedSignal, BeginCleanup, RepeatKill,
     CleanupOverdue, Sending, GroupGone, GroupThere, GroupTerm, GroupKill, InGroupCleanup,
     requestVars, pipeVars
<1>4. CASE Drain \/ ReadControl \/ ReadReady
  BY <1>4, Zenon DEF Drain, ReadControl, ReadReady, Reading, requestVars
<1> QED BY <1>1, <1>2, <1>3, <1>4, Zenon DEF Supervise

\* Members that are gone stay gone under execute_backend.
LEMMA GoneIsGone ==
    ASSUME TypeOK, Supervise
    PROVE  MembersGone' <=> MembersGone
BY Zenon, SupervisedGroup DEF TypeOK, MembersGone, Procs

\* Once the last member is gone and the leader is reaped, the stream pipes are at
\* their end.
LEMMA NobodyWrites ==
    ASSUME TypeOK, NumberInv, controlled, MembersGone, child = "reaped"
    PROVE  ~StreamHeld
<1>1. ASSUME NEW p \in writers PROVE FALSE
  BY Zenon, <1>1 DEF NumberInv, MembersGone, TypeOK, KernelType
<1> QED BY Zenon, <1>1 DEF StreamHeld, NumberInv, BeforeExec, SetupStages, Exiting

\* Every step of execute_backend keeps the order of scans, confirmation and reap.
LEMMA LapStep ==
    ASSUME "stat" \notin Faults, SafetyInv, CleanupInv, NumberInv, LapInv, Supervise
    PROVE  LapInv'
<1> SUFFICES ASSUME controlled, controlled' PROVE LapInv'
  BY Zenon, SupervisedFrame DEF LapInv
<1>0. /\ TypeOK /\ FlowInv /\ LeaderInv /\ CleanupInv
      /\ MembersGone' <=> MembersGone
  BY Zenon, GoneIsGone DEF SafetyInv
<1>L. /\ pc \in LoopLabels <=> pc \notin LadderLabels \cup PidfdLabels \cup {"done"}
      /\ pc' \in LoopLabels => pc' \notin LadderLabels \cup PidfdLabels \cup {"done"}
  BY Zenon, <1>0 DEF LoopLabels, TypeOK, ProgressType
<1> USE DEF LapInv, FirstLap, ScanLabels, CleanLabels, SendDue, FlowInv
<1>1. CASE \/ CheckProfile
           \/ CancelCheck("cancel_1", "admission")
           \/ AdmitResources
           \/ CancelCheck("cancel_2", "interpreter")
           \/ AdmitInterpreter
           \/ CancelCheck("cancel_3", "pipes")
           \/ MakePipes \/ Fork \/ OpenPidfd \/ PidfdFailed
  <2>1. /\ UNCHANGED <<flowVars, cancelVars, cleanVars>>
        /\ pc \in LadderLabels \cup PidfdLabels
        /\ pc' \in LadderLabels \cup PidfdLabels \cup {"exit", "done"}
    BY Zenon, <1>1, AdmissionShape, PidfdShape DEF Fork, PidfdFailed, Refuse, Proceed,
       Return, Advance, Ladder, loopVars, LadderLabels, PidfdLabels
  <2> QED BY Zenon, <1>0, <1>L, <2>1 DEF flowVars, cancelVars, cleanVars, LadderLabels,
      PidfdLabels
<1>2. CASE ObserveChildExit
  BY Zenon, <1>0, <1>L, <1>2 DEF ObserveChildExit, CancelLabel, MayObserve, GateLabel, TermLabel, cancelVars,
     cleanVars, endVars
<1>3. CASE ObserveCancellation
  BY Zenon, <1>0, <1>L, <1>3 DEF ObserveCancellation, NoteCancellation, GateLabel, TermLabel, flowVars,
     cleanVars, endVars
<1>4. CASE ReleaseGate
  BY Zenon, <1>0, <1>L, <1>4 DEF ReleaseGate, NoteCancellation, MayObserve, TermLabel, cleanVars
<1>5. CASE \/ ListProcesses("term", "term_send")
           \/ ListProcesses("force", "force_send")
           \/ BeginCleanupLists
           \/ ListProcesses("kill", "kill_send")
           \/ ListProcesses("gone", "gone_check")
           \/ ListProcesses("last", "last_send")
  BY Zenon, <1>0, <1>L, <1>5 DEF ListProcesses, BeginCleanupLists, flowVars, cancelVars, cleanVars,
     endVars
<1>6. CASE SendCancellationSignal
  BY Zenon, <1>0, <1>L, <1>6 DEF SendCancellationSignal, Sending, flowVars
<1>7. CASE SampleNow
  BY Zenon, <1>0, <1>L, <1>7 DEF SampleNow, ForceDue, BeginLabel, CleanLabel, ReapLabel, ReapDue,
     flowVars, cancelVars, cleanVars, endVars
<1>8. CASE SendForcedSignal
  BY Zenon, <1>0, <1>L, <1>8 DEF SendForcedSignal, Sending, BeginLabel, CleanLabel, ReapLabel, ReapDue,
     flowVars, endVars
<1>9. CASE BeginCleanupAfterCancel \/ BeginCleanup
  <2>1. CASE BeginCleanupAfterCancel
    BY Zenon, <1>0, <1>L, <2>1 DEF BeginCleanupAfterCancel, CleanLabel, ReapLabel, ReapDue, flowVars,
       cancelVars, endVars
  <2>2. CASE BeginCleanup
    BY Zenon, <1>0, <1>L, <2>2 DEF BeginCleanup, Sending, CleanLabel, ReapLabel, ReapDue, flowVars,
       endVars
  <2> QED BY Zenon, <1>9, <2>1, <2>2
<1>10. CASE RepeatKill
  BY Zenon, <1>0, <1>L, <1>10 DEF RepeatKill, Sending, flowVars, endVars
<1>11. CASE CheckGone
  <2>1. cleanup_complete' => MembersGone
    <3>1. cleanup_complete' => complete /\ snap \cap InGroup = {}
      BY Zenon, <1>11 DEF CheckGone, Found
    <3>2. pc = "gone_check" /\ complete => InGroup \cap Members \subseteq snap
      BY Zenon, <1>0 DEF CleanupInv
    <3>3. InGroup \cap Members = {} => MembersGone
      BY Zenon, <1>0 DEF InGroup, Procs, TypeOK, KernelType, MemState, MembersGone
    <3> QED BY Zenon, <1>11, <3>1, <3>2, <3>3 DEF CheckGone
  <2> QED BY Zenon, <1>0, <1>L, <1>11, <2>1 DEF CheckGone, ReapLabel, ReapDue, flowVars, cancelVars,
      endVars
<1>12. CASE CleanupOverdue
  BY Zenon, <1>0, <1>L, <1>12 DEF CleanupOverdue, Sending, ReapLabel, ReapDue, flowVars, endVars
<1>13. CASE Reap
  BY Zenon, <1>0, <1>L, <1>13 DEF Reap, CleanupInv, ReapDue, cancelVars, cleanVars, endVars
<1>14. CASE GroupGone \/ GroupThere \/ GroupTerm \/ GroupKill
  <2>1. pc \in GroupLabels
    BY Zenon, <1>14 DEF GroupGone, GroupThere, GroupTerm, GroupKill, InGroupCleanup, GroupLabels
  <2> QED BY Zenon, <1>0, <2>1 DEF CleanupInv
<1>15. CASE Drain
  <2>1. child_reaped /\ MembersGone => ~StreamHeld
    BY Zenon, <1>0, NobodyWrites DEF LeaderInv
  <2>2. /\ pc = "drain" /\ UNCHANGED <<child_reaped, child_exited, control_open, start_released,
                                       exec_confirmed, ready_open>>
        /\ UNCHANGED <<cancelVars, cleanVars, past>>
        /\ pc' = ControlLabel'
        /\ child_reaped /\ MembersGone => ~stream_open'
    BY <1>15, <2>1, Zenon DEF Drain, Reading
  <2> QED BY Zenon, <1>0, <1>L, <2>2 DEF ControlLabel, ReadyLabel, LoopEnd, TopLabel, CancelLabel,
      MayObserve, GateLabel, TermLabel, cancelVars, cleanVars
<1>16. CASE ReadControl
  <2>1. child_exited => ~ControlHeld
    BY Zenon, <1>0 DEF LeaderInv, ControlHeld, NumberInv, BeforeExec, SetupStages, Exiting
  <2>2. /\ pc = "control" /\ UNCHANGED <<child_reaped, child_exited, stream_open, start_released,
                                         ready_open>>
        /\ UNCHANGED <<cancelVars, cleanVars, past>>
        /\ pc' = ReadyLabel'
    BY <1>16, Zenon DEF ReadControl, Reading
  <2>3. child_exited => control_open' = FALSE
    <3>1. ControlHeld \in BOOLEAN
      BY Zenon DEF ControlHeld
    <3> QED BY Zenon, <1>16, <2>1, <3>1 DEF ReadControl
  <2> QED BY Zenon, <1>0, <1>L, <2>2, <2>3 DEF ReadyLabel, LoopEnd, LoopDone, TopLabel, CancelLabel,
      MayObserve, GateLabel, TermLabel, cancelVars, cleanVars
<1>17. CASE ReadReady
  <2>1. child_reaped => ~ReadyHeld
    BY Zenon, <1>0 DEF LeaderInv, ReadyHeld, NumberInv, SetupStages
  <2>2. /\ pc = "ready" /\ UNCHANGED <<child_reaped, child_exited, stream_open, start_released,
                                       control_open, exec_confirmed>>
        /\ UNCHANGED <<cancelVars, cleanVars, past>>
        /\ pc' = LoopEnd'
    BY <1>17, Zenon DEF ReadReady, Reading
  <2>3. child_reaped => ready_open' = FALSE
    <3>1. ReadyHeld \in BOOLEAN
      BY Zenon DEF ReadyHeld
    <3> QED BY Zenon, <1>17, <2>1, <3>1 DEF ReadReady
  <2> QED BY Zenon, <1>0, <1>L, <2>2, <2>3 DEF LoopEnd, LoopDone, TopLabel, CancelLabel,
      MayObserve, GateLabel, TermLabel, cancelVars, cleanVars
<1>18. CASE Classify
  <2>1. pc' = "done" /\ ~control_open' /\ UNCHANGED loopVars
    BY <1>18, Zenon DEF Classify, NotStarted, Started, Return
  <2> QED BY Zenon, <1>0, <1>L, <2>1 DEF loopVars, flowVars, cancelVars, cleanVars
<1> HIDE DEF LapInv
<1> QED BY Zenon, <1>1, <1>2, <1>3, <1>4, <1>5, <1>6, <1>7, <1>8, <1>9, <1>10, <1>11, <1>12, <1>13,
        <1>14, <1>15, <1>16, <1>17, <1>18, Zenon DEF Supervise

\* Who has the group number while the leader is not reaped: its own group only.
LEMMA OwnGroupOnly ==
    ASSUME TypeOK, NumberInv, child # "reaped"
    PROVE  Stranger \notin InGroup
BY Zenon DEF NumberInv, InGroup

\* Every step of execute_backend keeps the owner of the group number apart.
LEMMA NumberStep ==
    ASSUME SafetyInv, CleanupInv, NumberInv, LapInv, Supervise
    PROVE  NumberInv'
<1>0. /\ TypeOK /\ FlowInv /\ LeaderInv
      /\ UNCHANGED <<controlled, writers, leak>>
  BY Zenon, SupervisedFrame DEF SafetyInv
<1>1. \A p \in Procs : /\ mem'[p] = "none" <=> mem[p] = "none"
                       /\ mem'[p] \in {"run", "dying"} <=> mem[p] \in {"run", "dying"}
  <2>1. \A p \in Procs : /\ mem'[p] = "none" <=> mem[p] = "none"
                         /\ p \in InGroup' <=> p \in InGroup
    BY Zenon, <1>0, SupervisedGroup DEF TypeOK
  <2> QED BY Zenon, <2>1 DEF InGroup
<1>2. /\ child = "reaped" => child' = "reaped"
      /\ child = "program" => child' = "program"
      /\ mem[Stranger] # "none" => child = "reaped"
  <2>1. pc = "fork" => child = "none"
    BY Zenon, <1>0 DEF LeaderInv, LadderLabels
  <2>2. pc = "reap" => child \in {"zombie", "reaped"}
    BY Zenon, <1>0 DEF FlowInv, LeaderInv
  <2> QED BY Zenon, <2>1, <2>2, SeenStep DEF NumberInv
<1>3. mem'[Stranger] # "none" => child' = "reaped"
  BY Zenon, <1>1, <1>2 DEF Procs
<1>4. \A p \in writers : p # "leader" => p \in Procs
  BY Zenon, <1>0 DEF TypeOK, KernelType, Procs
<1>5. controlled => ~strayed'
  <2> SUFFICES ASSUME controlled PROVE ~strayed'
    BY Zenon
  <2>1. ~strayed
    BY Zenon DEF NumberInv
  <2>2. ASSUME NEW S \in Found, Reach(S), pc \in ScanLabels PROVE ~strayed'
    <3>1. child # "reaped"
      BY Zenon, <1>0, <2>2, LoopIsApart DEF LeaderInv, LapInv, ScanLabels, CleanLabels
    <3>2. Stranger \notin InGroup
      BY Zenon, <1>0, <3>1, OwnGroupOnly
    <3>3. S \subseteq InGroup
      BY Zenon, <2>2 DEF Found
    <3> QED BY Zenon, <2>1, <2>2, <3>2, <3>3 DEF Reach
  <2>3. CASE \/ SendCancellationSignal \/ SendForcedSignal \/ BeginCleanup
             \/ RepeatKill \/ CleanupOverdue
    <3>1. pc \in ScanLabels
      BY Zenon, <2>3 DEF SendCancellationSignal, SendForcedSignal, BeginCleanup, RepeatKill,
         CleanupOverdue, Sending, ScanLabels, CleanLabels
    <3>2. \E S \in Found : Reach(S)
      BY <2>3, Zenon DEF SendCancellationSignal, SendForcedSignal, BeginCleanup, RepeatKill,
         CleanupOverdue, SendTerm, SendKill
    <3> QED BY Zenon, <2>2, <3>1, <3>2
  <2>4. CASE GroupGone \/ GroupThere \/ GroupTerm \/ GroupKill
    <3>1. pc \in GroupLabels
      BY Zenon, <2>4 DEF GroupGone, GroupThere, GroupTerm, GroupKill, InGroupCleanup, GroupLabels
    <3> QED BY Zenon, <3>1 DEF CleanupInv
  <2>5. CASE \/ CheckProfile
             \/ CancelCheck("cancel_1", "admission")
             \/ AdmitResources
             \/ CancelCheck("cancel_2", "interpreter")
             \/ AdmitInterpreter
             \/ CancelCheck("cancel_3", "pipes")
             \/ MakePipes \/ Fork \/ OpenPidfd \/ PidfdFailed
    <3>1. UNCHANGED strayed
      BY <2>5, Zenon DEF CheckProfile, CancelCheck, AdmitResources, AdmitInterpreter,
         MakePipes, Fork, OpenPidfd, PidfdFailed, Refuse, Proceed, Ladder, groupVars
    <3> QED BY Zenon, <2>1, <3>1
  <2>6. CASE \/ ObserveChildExit \/ ObserveCancellation \/ ReleaseGate \/ SampleNow
             \/ ListProcesses("term", "term_send")
             \/ ListProcesses("force", "force_send")
             \/ BeginCleanupLists
             \/ ListProcesses("kill", "kill_send")
             \/ ListProcesses("gone", "gone_check")
             \/ ListProcesses("last", "last_send")
             \/ CheckGone \/ BeginCleanupAfterCancel \/ Reap
             \/ Drain \/ ReadControl \/ ReadReady \/ Classify
    <3>1. UNCHANGED strayed
      BY <2>6, Zenon DEF ObserveChildExit, ObserveCancellation, ReleaseGate, SampleNow,
         ListProcesses, BeginCleanupLists, CheckGone, BeginCleanupAfterCancel, Reap, Drain,
         ReadControl, ReadReady, Reading, Classify, kernelVars, groupVars
    <3> QED BY Zenon, <2>1, <3>1
  <2> QED BY <2>3, <2>4, <2>5, <2>6, Zenon DEF Supervise
<1> QED BY Zenon, <1>0, <1>1, <1>2, <1>3, <1>4, <1>5 DEF NumberInv

\* So does everything around it.
LEMMA NumberMoves ==
    ASSUME TRUE \notin MembersFork, SafetyInv, NumberInv,
           LeaderStep \/ ProgramStep \/ EnvironmentStep
    PROVE  NumberInv'
<1>0. /\ TypeOK /\ mem \in [Procs -> MemState]
      /\ UNCHANGED controlled
      /\ controlled \in BOOLEAN
      /\ writers \subseteq Members \cup {"leader"}
  BY Zenon, GroupMoves DEF SafetyInv, TypeOK, KernelType
<1>1. ChildMain(ready_open, start_open) \/ Program \/ Environment
  BY Zenon DEF LeaderStep, ProgramStep, EnvironmentStep
<1> USE DEF NumberInv
<1>2. ASSUME UNCHANGED <<mem, strayed, leak>>, writers' \subseteq writers,
             child # "reaped", child = "program" => UNCHANGED child \/ "leader" \notin writers'
      PROVE  NumberInv'
  BY Zenon, <1>0, <1>2
<1>3. CASE ChildSetup \/ ChildSetupFails \/ ChildReady(ready_open) \/ ChildGate(start_open)
           \/ ChildExecFails
  <2>1. UNCHANGED <<mem, strayed, leak, writers>>
    BY <1>3, Zenon DEF ChildSetup, ChildSetupFails, ChildReady, ChildGate, ChildExecFails,
       ReportChildError, groupVars, pipeVars
  <2>2. child \notin {"reaped", "program"}
    BY Zenon, <1>3 DEF ChildSetup, ChildSetupFails, ChildReady, ChildGate, ChildExecFails, Setup,
       SetupStages
  <2> QED BY Zenon, <1>2, <2>1, <2>2
<1>4. CASE ChildExit \/ ChildDies \/ ProgramExits
  <2>1. UNCHANGED <<mem, strayed, leak>> /\ writers' = writers \ {"leader"}
    BY Zenon, <1>4 DEF ChildExit, ChildDies, ProgramExits, Exit, groupVars
  <2>2. child # "reaped"
    BY Zenon, <1>4 DEF ChildExit, ChildDies, ProgramExits, Setup, Alive, BeforeExec, SetupStages
  <2> QED BY Zenon, <1>2, <2>1, <2>2
<1>5. CASE ChildExec
  <2>1. /\ UNCHANGED <<mem, strayed, leak>> /\ writers' \subseteq {"leader"}
        /\ child = "preexec" /\ child' = "program"
    BY Zenon, <1>5 DEF ChildExec, Setup, groupVars
  <2> QED BY Zenon, <1>0, <2>1
<1>6. CASE ProgramForks
  <2>1. PICK n \in Members : /\ mem[n] = "none" /\ mem' = [mem EXCEPT ![n] = "run"]
                            /\ writers' \subseteq writers \cup {n}
    BY Zenon, <1>6 DEF ProgramForks, ForkedBy
  <2>2. UNCHANGED <<strayed, leak, child>> /\ child = "program"
    BY Zenon, <1>6 DEF ProgramForks, ForkedBy, Setup, leaderVars
  <2>3. n # Stranger /\ n \in Procs /\ Stranger \in Procs
    BY Zenon, <2>1, KernelAssumption DEF Procs
  <2>4. \A p \in Procs : mem'[p] = IF p = n THEN "run" ELSE mem[p]
    BY Zenon, <1>0, <2>1, <2>3
  <2>5. \A p \in writers' : p # "leader" => p \in Procs
    BY Zenon, <1>0, <2>1 DEF Procs
  <2> QED BY Zenon, <1>0, <2>1, <2>2, <2>3, <2>4, <2>5
<1>7. CASE ProgramWrites \/ ProgramCloses \/ MemberWrites \/ MemberCloses
  <2>1. UNCHANGED <<mem, strayed, leak, child>> /\ writers' \subseteq writers
    BY Zenon, <1>7 DEF ProgramWrites, ProgramCloses, MemberWrites, MemberCloses, WrittenBy, ClosedBy,
       groupVars, leaderVars
  <2> QED BY Zenon, <1>0, <2>1
<1>8. CASE MemberForks
  <2>1. ~controlled
    BY Zenon, <1>0, <1>8 DEF MemberForks
  <2>2. UNCHANGED <<leak, child>> /\ \E n \in Members : mem' = [mem EXCEPT ![n] = "run"]
    BY Zenon, <1>8 DEF MemberForks, ForkedBy, leaderVars
  <2>3. mem'[Stranger] = mem[Stranger]
    BY Zenon, <1>0, <2>2, KernelAssumption DEF Procs
  <2> QED BY Zenon, <1>0, <2>1, <2>2, <2>3
<1>9. CASE \E p \in Procs : MemberExit(p) \/ MemberReaped(p)
  <2>1. PICK p \in Procs : MemberExit(p) \/ MemberReaped(p)
    BY Zenon, <1>9
  <2>2. UNCHANGED <<strayed, leak, child>>
    BY Zenon, <2>1 DEF MemberExit, MemberReaped, pipeVars, leaderVars
  <2>3. /\ mem[p] \in {"run", "dying"}
        /\ \/ mem' = [mem EXCEPT ![p] = "dying"] /\ UNCHANGED writers
           \/ mem' = [mem EXCEPT ![p] = "gone"] /\ writers' = writers \ {p}
    BY Zenon, <2>1 DEF MemberExit, MemberReaped, pipeVars
  <2>4. \A q \in writers : q # "leader" => q \in Procs
    BY Zenon, <1>0 DEF Procs
  <2>5. mem'[Stranger] # "none" => mem[Stranger] # "none"
    BY Zenon, <1>0, <2>3 DEF Procs
  <2>6. \A q \in writers' : q # "leader" => (mem[q] \in {"run", "dying"}
                                             => mem'[q] \in {"run", "dying"})
    BY Zenon, <1>0, <2>3, <2>4
  <2> QED BY Zenon, <1>0, <2>2, <2>3, <2>5, <2>6
<1>10. CASE NumberReused
  <2>1. /\ child = "reaped" /\ UNCHANGED <<child, strayed, leak, writers>>
        /\ mem' = [mem EXCEPT ![Stranger] = "run"]
    BY Zenon, <1>10 DEF NumberReused, leaderVars, pipeVars
  <2>2. \A q \in writers : q # "leader" => q \in Procs
    BY Zenon, <1>0 DEF Procs
  <2> QED BY Zenon, <1>0, <2>1, <2>2
<1>11. CASE RequestCancellation \/ Expire \/ LeakCloses \/ LeaderKilled
  <2>1. UNCHANGED <<mem, strayed, child, writers>> /\ leak' \subseteq leak
    BY Zenon, <1>11 DEF RequestCancellation, Expire, LeakCloses, LeaderKilled, groupVars, leaderVars,
       pipeVars
  <2> QED BY Zenon, <1>0, <2>1
<1> QED BY <1>1, <1>3, <1>4, <1>5, <1>6, <1>7, <1>8, <1>9, <1>10, <1>11, Zenon
        DEF ChildMain, Program, Environment

\* A controlled execution never signals a process outside its group, however late
\* the member scans of send_cancellation_signal and of the cleanup come: the group
\* number has no new owner before the leader is reaped, and after that no scan
\* signals anybody.  With an end of the stream, control or ready pipe leaked, an
\* unreadable /proc/PID/stat or a member that forks this is not so.
THEOREM NoSignalStrays ==
    ASSUME "stat" \notin Faults, TRUE \notin MembersFork, Leaks \subseteq SUBSET {"start"}
    PROVE  Spec => []NoStraySignal
<1>1. Init => NumberInv /\ LapInv
  <2> SUFFICES ASSUME Init PROVE NumberInv /\ LapInv
    BY Zenon
  <2>1. NumberInv
    BY Zenon DEF Init, KernelInit, NumberInv, Procs
  <2>2. LapInv
    BY Zenon DEF Init, SupervisorInit, LapInv, ScanLabels, CleanLabels, FirstLap, LoopLabels,
       LadderLabels
  <2> QED BY Zenon, <2>1, <2>2
<1>2. ASSUME SafetyInv, CleanupInv, NumberInv, LapInv, LeaderStep \/ ProgramStep \/ EnvironmentStep
      PROVE  LapInv'
  <2>0. TypeOK /\ LeaderInv /\ UNCHANGED supervisorVars
    BY Zenon, <1>2, SeenMoves DEF SafetyInv
  <2>1. UNCHANGED <<pc, child_exited, child_reaped, cleanup_complete, cleanup_started, past,
                    stream_open, control_open, start_released, exec_confirmed, cancelVars>>
    BY Zenon, <2>0 DEF supervisorVars, endVars, loopVars, flowVars, cleanVars
  <2>2. UNCHANGED controlled
    BY Zenon, <1>2, <2>0, GroupMoves
  <2>3. controlled /\ child_exited /\ MembersGone => MembersGone'
    <3> SUFFICES ASSUME controlled, child_exited, MembersGone PROVE MembersGone'
      BY Zenon
    <3>1. child # "program" /\ LiveMembers = {}
      BY Zenon, <2>0 DEF LeaderInv, LiveMembers, MembersGone
    <3>2. \A m \in Members : /\ mem'[m] = "none" <=> mem[m] = "none"
                             /\ mem[m] = "gone" => mem'[m] = "gone"
      BY Zenon, <1>2, <2>0, <3>1, GroupMoves
    <3> QED BY Zenon, <3>2 DEF MembersGone
  <2> QED BY Zenon, <1>2, <2>1, <2>2, <2>3 DEF LapInv, FirstLap, SendDue, cancelVars
<1>3. ASSUME NumberInv, LapInv, UNCHANGED vars PROVE NumberInv' /\ LapInv'
  BY <1>3 DEF NumberInv, LapInv, FirstLap, SendDue, MembersGone, vars, kernelVars, requestVars,
     leaderVars, groupVars, pipeVars, supervisorVars, endVars, loopVars, flowVars, cancelVars,
     cleanVars
<1>4. SafetyInv /\ CleanupInv /\ NumberInv /\ LapInv /\ [Next]_vars => NumberInv' /\ LapInv'
  BY <1>2, <1>3, LapStep, NumberStep, NumberMoves, Zenon DEF Next, Terminated
<1>5. NumberInv => NoStraySignal
  BY Zenon DEF NumberInv, NoStraySignal
<1> QED BY <1>1, <1>4, <1>5, SafetyInvariant, CleanupInvariant, PTL DEF Spec
=============================================================================
