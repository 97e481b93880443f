------------------------------ MODULE Execution ------------------------------
(***************************************************************************)
(* One execution: the supervisor, the leader and its group, and the        *)
(* environment, interleaved.                                               *)
(***************************************************************************)
EXTENDS Supervisor

CONSTANTS ControlledSet, IsolatedSet, CaptureSet  \* the requests considered

ASSUME RequestAssumption ==
    /\ ControlledSet \subseteq BOOLEAN
    /\ IsolatedSet \subseteq BOOLEAN
    /\ CaptureSet \subseteq BOOLEAN

vars == <<kernelVars, supervisorVars>>

Init == KernelInit(ControlledSet, IsolatedSet, CaptureSet) /\ SupervisorInit

LeaderStep == ChildMain(ready_open, start_open) /\ UNCHANGED supervisorVars

ProgramStep == Program /\ UNCHANGED supervisorVars

EnvironmentStep == Environment /\ UNCHANGED supervisorVars

\* execute_backend has returned.
Terminated == pc = "done" /\ UNCHANGED vars

Next == Supervise \/ LeaderStep \/ ProgramStep \/ EnvironmentStep \/ Terminated

Spec == Init /\ [][Next]_vars

\* Fairness: the host schedules the supervisor and the leader; a process with a
\* pending SIGKILL ends and is reaped; clocks advance; a process forked by
\* another thread executes or exits.  Nothing is assumed of the program.
Fairness ==
    /\ WF_vars(Supervise)
    /\ WF_vars(LeaderStep)
    /\ WF_vars(Expire /\ UNCHANGED supervisorVars)
    /\ WF_vars(LeakCloses /\ UNCHANGED supervisorVars)
    /\ \A p \in Procs : WF_vars(MemberReaped(p) /\ UNCHANGED supervisorVars)

FairSpec == Spec /\ Fairness

(***************************************************************************)
(* Types.                                                                  *)
(***************************************************************************)
Labels == {"profile", "cancel_1", "admission", "cancel_2", "interpreter",
           "cancel_3", "pipes", "fork", "pidfd", "pidfd_failed", "exit",
           "cancel", "gate", "term", "term_send", "deadline", "force",
           "force_send", "begin", "begin_send", "kill", "kill_send", "gone",
           "gone_check", "last", "last_send", "reap", "group_probe",
           "group_sigterm", "group_term", "group_sigkill", "group_kill",
           "drain", "control", "ready", "result", "done"}

NotStartedResults == {"backend_unsupported", "request_rejected",
                      "resource_admission_failed", "interpreter_unavailable",
                      "process_start_failed", "isolation_setup_failed",
                      "cancelled_before_start"}

StartedResults == {"succeeded", "program_exited_nonzero",
                   "program_terminated_by_signal", "cancelled_after_start",
                   "log_capture_failed", "cleanup_failed"}

Timer == {"off", "running", "expired"}

\* The ranges of the request, the leader, its group, the pipes and the clocks.
KernelType ==
    /\ controlled \in BOOLEAN /\ isolated \in BOOLEAN /\ capture \in BOOLEAN
    /\ child \in ChildState
    /\ status \in {"none", "zero", "nonzero", "signal"}
    /\ doomed \in BOOLEAN /\ ran \in BOOLEAN
    /\ mem \in [Procs -> MemState] /\ strayed \in BOOLEAN
    /\ record \in SetupStages \cup {"execute", "none"}
    /\ ready_byte \in BOOLEAN /\ start_byte \in BOOLEAN
    /\ unread \in 0..MaxChunks
    /\ writers \in SUBSET (Members \cup {"leader"}) /\ leak \in SUBSET PipeEnds
    /\ requested \in BOOLEAN
    /\ cancel_timer \in Timer /\ cleanup_timer \in Timer \cup {"grace"}

\* Those of the supervisor's place, its pipe ends, what it has learnt from the
\* pipes and the leader, and its result.
ProgressType ==
    /\ pc \in Labels
    /\ scratch \in {"none", "made", "gone", "stuck"}
    /\ stream_open \in BOOLEAN /\ control_open \in BOOLEAN
    /\ ready_open \in BOOLEAN /\ start_open \in BOOLEAN
    /\ control_got \in SetupStages \cup {"execute", "none"}
    /\ capture_failed \in BOOLEAN /\ ready_seen \in BOOLEAN
    /\ start_released \in BOOLEAN /\ exec_confirmed \in BOOLEAN
    /\ child_exited \in BOOLEAN /\ child_reaped \in BOOLEAN
    /\ result \in NotStartedResults \cup StartedResults \cup {"none"}
    /\ evidence \in {"none", "verified", "failed"}

\* Those of cancellation and group cleanup, with the history variables.
CleanupType ==
    /\ cancellation_observed \in BOOLEAN
    /\ cancellation_before_start \in BOOLEAN
    /\ cancellation_signal_attempted \in BOOLEAN
    /\ cancellation_signal_delivered \in BOOLEAN
    /\ forced_signal_sent \in BOOLEAN
    /\ cleanup_started \in BOOLEAN /\ cleanup_complete \in BOOLEAN
    /\ cleanup_failed \in BOOLEAN
    /\ past \in BOOLEAN
    /\ snap \in SUBSET Procs /\ complete \in BOOLEAN
    /\ late \in BOOLEAN /\ hasty \in SUBSET {"leader", "member"}

\* Every variable of the model stays in its range.
TypeOK == KernelType /\ ProgressType /\ CleanupType

(***************************************************************************)
(* Safety.                                                                 *)
(***************************************************************************)
\* A result that says the program started is only returned for a program that
\* was executed: the control pipe's end of file is taken for a successful
\* execveat, and no signal of the supervisor can end the leader between the
\* gate and execveat.
StartedMeansRan == result \in StartedResults => ran

\* A result that says the program did not start is only returned for a program
\* that was never executed, on every path: refusals, cancellation at each of
\* the checks, setup failures, a closed gate, a failing pidfd_open.
NotStartedMeansNotRun == result \in NotStartedResults => ~ran

\* No path returns while the leader is alive or unreaped.
LeaderIsReaped == pc = "done" => child \in {"none", "reaped"}

\* When cleanup is reported as verified, no process of the group is left and
\* the scratch directory has been removed.
VerifiedMeansGone ==
    evidence = "verified" => /\ \A m \in Members : mem[m] \in {"none", "gone"}
                             /\ scratch \in {"none", "gone"}

\* A captured execution that does not report log_capture_failed has delivered
\* everything that was written, and nobody is left who could write more.
CompleteCapture ==
    result \in StartedResults \ {"log_capture_failed"} =>
        unread = 0 /\ ~StreamHeld

\* A leader that was let through its gate is never sent SIGKILL before the sealed
\* grace period is over, nor without a cancellation.  The one leader that is, is
\* that of a failing pidfd_open, which never executes its program.
LeaderHasItsGrace ==
    "leader" \in hasty =>
        ~start_released /\ ~ran /\ result \in {"none", "process_start_failed"}

\* A cancellation observed while the gate is closed keeps the program from ever
\* being executed, whatever the leader was doing at the time.
GateHolds == cancellation_before_start => ~ran

\* Every path that made a scratch directory has tried to remove it.
ScratchIsRemoved == pc = "done" => scratch # "made"

\* The leader of a controlled execution, whose zombie reserves the group
\* number, is reaped only when no member is left or cleanup has failed.
ReapedAfterMembers ==
    [][child = "zombie" /\ child' = "reaped" /\ controlled =>
          cleanup_failed \/ \A m \in Members : mem[m] \in {"none", "gone"}]_vars

\* No signal of a controlled execution reaches a process of an unrelated group
\* that was given the execution's group number.
NoStraySignal == controlled => ~strayed

\* The sealed grace period protects every member of the group.
MembersHaveTheirGrace == "member" \notin hasty

\* A program whose completion had been observed is not reported as cancelled.
CompletedIsNotCancelled == result = "cancelled_after_start" => ~late

(***************************************************************************)
(* The inductive invariants behind the safety properties.  Each part says  *)
(* how far the supervisor can have got, or what it can conclude, given     *)
(* where the leader is.                                                    *)
(***************************************************************************)
\* Before fork there is no leader; afterwards there is one.
LadderLabels == {"profile", "cancel_1", "admission", "cancel_2", "interpreter",
                 "cancel_3", "pipes", "fork"}
PidfdLabels  == {"pidfd", "pidfd_failed"}
CleanLabels  == {"begin", "begin_send", "kill", "kill_send", "gone",
                 "gone_check", "last", "last_send"}
LoopLabels   == Labels \ (LadderLabels \cup PidfdLabels \cup {"done"})

\* What the supervisor's place in the loop says about its own variables.
FlowInv ==
    /\ pc \in LadderLabels \cup PidfdLabels =>
         /\ ~start_released /\ ~exec_confirmed /\ ~ready_seen
         /\ ~cancellation_observed /\ ~cancellation_signal_attempted
         /\ ~child_exited /\ ~child_reaped /\ control_got = "none"
    /\ pc = "gate" => ready_seen /\ ~start_released /\ ~cancellation_observed
    /\ pc \in {"term", "term_send"} => SendDue
    /\ pc \in {"force", "force_send"} => cancel_timer = "expired"
    /\ pc \in CleanLabels => child_exited
    /\ pc = "reap" => child_exited /\ ~child_reaped
    /\ pc = "result" => LoopDone
    /\ pc = "done" <=> result # "none"

\* Where the leader is, given what the supervisor has seen of it.
LeaderInv ==
    /\ pc \in LadderLabels => child = "none" /\ ~ran
    /\ pc \in PidfdLabels \cup LoopLabels => child # "none"
    /\ pc \in PidfdLabels => child # "reaped"
    /\ pc = "done" => child \in {"none", "reaped"}
    /\ child_exited => child \in {"zombie", "reaped"}
    /\ child_reaped => child = "reaped"
    /\ pc \in LoopLabels /\ child = "reaped" => child_reaped

\* Only the start byte lets the leader through the gate, and it is not
\* written once a cancellation has been observed.
GateInv ==
    /\ start_byte \/ ran \/ child \in {"preexec", "program"} => start_released
    /\ cancellation_before_start => cancellation_observed /\ ~start_released

\* Only the failing pidfd_open puts the leader into hasty.
GraceInv ==
    "leader" \in hasty => \/ pc = "pidfd_failed"
                          \/ /\ pc = "done" /\ ~start_released
                             /\ result = "process_start_failed"

SafetyInv == TypeOK /\ FlowInv /\ LeaderInv /\ GateInv /\ GraceInv

\* Without read errors on the control pipe: what the supervisor has not
\* confirmed has not happened.
ConfirmInv ==
    /\ pc \in {"fork", "pidfd"} => control_open
    /\ ran => child \in {"program", "zombie", "reaped"}
    /\ record # "none" \/ control_got # "none" =>
         ~ran /\ child \in {"exiting", "zombie", "reaped"}
    /\ pc \in LoopLabels /\ ~control_open /\ control_got = "none"
         /\ ~exec_confirmed => ~ran /\ child \in {"zombie", "reaped"}
    /\ result \in NotStartedResults => ~ran

\* The leader waits at a gate that is neither open nor given up.
Undecided == /\ pc \in LoopLabels \cup {"fork", "pidfd"}
             /\ ~start_released /\ ~cancellation_observed

\* Unless the leader is killed from outside: what the supervisor has confirmed
\* has happened.
ReachInv ==
    /\ control_open => control_got = "none" /\ ~exec_confirmed
    /\ pc = "control" => control_open
    /\ exec_confirmed => ran
    /\ pc \in {"force", "force_send"} => cancellation_signal_attempted
    /\ doomed => /\ child \in Alive
                 /\ cancellation_signal_attempted \/ pc = "pidfd_failed"
    /\ cancellation_signal_attempted =>
         cancellation_observed /\ (~start_released \/ exec_confirmed)
    /\ ready_byte \/ ready_seen =>
         child \notin SetupStages \cup {"none", "ready"}
    /\ Undecided => start_open
    /\ Undecided /\ (ready_byte \/ ready_seen) => child = "gate"
    /\ start_released /\ ~ran =>
         \/ child = "gate" /\ start_byte
         \/ child = "preexec"
         \/ record # "none" \/ control_got # "none"
    /\ result \in StartedResults => ran

\* The places of cleanup_group, which only an execution without a token reaches.
GroupLabels == {"group_probe", "group_sigterm", "group_term", "group_sigkill",
                "group_kill"}

\* Unless /proc/PID/stat cannot be opened or a member of a controlled group
\* forks: a cleanup that is complete and has not failed has left nobody.
CleanupInv ==
    /\ child = "program" => ran
    /\ \A m \in Members : mem[m] # "none" => ran
    /\ pc \in CleanLabels => controlled
    /\ pc \in GroupLabels => ~controlled /\ child_reaped
    /\ pc = "reap" => ReapDue
    /\ pc = "gone_check" /\ complete => InGroup \cap Members \subseteq snap
    /\ cleanup_complete /\ ~cleanup_failed =>
         /\ child \in {"zombie", "reaped"}
         /\ \A m \in Members : mem[m] \in {"none", "gone"}
    /\ evidence # "none" => pc = "done"
    /\ evidence = "verified" => /\ cleanup_complete /\ ~cleanup_failed
                               /\ scratch \in {"none", "gone"}

\* Nothing is left in a stream pipe, and nobody can write more; a leader that
\* fails past close_fds_except has none open.
StreamDone ==
    /\ unread = 0 /\ writers = {} /\ "stream" \notin leak
    /\ child \notin BeforeExec \ {"preexec"}
    /\ child = "preexec" => ~capture

\* A stream the supervisor has seen the end of stays at its end.
CaptureInv ==
    /\ pc \in {"fork", "pidfd"} => stream_open
    /\ pc \in LoopLabels /\ ~stream_open /\ ~capture_failed => StreamDone
    /\ result \in StartedResults \ {"log_capture_failed"} => StreamDone

\* The leader's exit has been observed, but the control pipe not read since.
FirstLap == child_exited /\ ~cancellation_signal_attempted /\ control_open

MembersGone == \A m \in Members : mem[m] \in {"none", "gone"}

\* The places from which a scan of the group is reached, or in one.
ScanLabels == {"term", "term_send", "force", "force_send"} \cup CleanLabels

\* Unless an end of the stream, control or ready pipe is leaked, /proc/PID/stat
\* cannot be opened or a member of a controlled group forks: the group number has
\* a new owner only after the leader is reaped, and then nobody is signaled.
NumberInv ==
    /\ leak \cap {"stream", "control", "ready"} = {}
    /\ mem[Stranger] # "none" => child = "reaped"
    /\ controlled =>
         /\ ~strayed
         /\ \A p \in writers : IF p = "leader" THEN child = "program"
                                               ELSE mem[p] \in {"run", "dying"}

\* A controlled execution scans its group only while cleanup is not complete, and
\* reaps its leader at once when it is.  A SIGTERM that waits for execveat to be
\* confirmed is sent before that or not at all: a leader that is reaped in the lap
\* of its exit leaves nobody to wait for, so that lap is the last.
LapInv ==
    controlled =>
      /\ cleanup_complete => cleanup_started
      /\ cleanup_started => child_exited
      /\ forced_signal_sent => cancellation_signal_attempted \/ cleanup_started
      /\ pc \in {"exit", "cancel"} => ~child_exited
      /\ pc \in {"force", "force_send"} => cancellation_signal_attempted
      /\ pc = "control" => control_open
      /\ pc \in {"begin", "begin_send"} => ~cleanup_started
      /\ pc \in ScanLabels => ~cleanup_complete
      /\ pc \in CleanLabels \ {"begin", "begin_send"} => cleanup_started
      /\ pc \in {"deadline", "force", "force_send", "reap", "drain", "control"}
                \cup CleanLabels => ~SendDue
      /\ pc \in LoopLabels =>
           /\ child_reaped => cleanup_complete
           /\ cleanup_complete /\ ~child_reaped => pc = "reap"
           /\ child_reaped /\ SendDue => pc \in {"ready", "result"} /\ ~stream_open
      /\ FirstLap =>
           \/ /\ pc \in {"gate", "term", "term_send", "deadline", "begin", "begin_send"}
              /\ ~cleanup_started
           \/ pc \in {"gone", "gone_check"} /\ ~past
           \/ pc = "reap" /\ MembersGone
           \/ pc = "drain" /\ (child_reaped => MembersGone)
           \/ pc = "control" /\ (child_reaped => ~stream_open)

(***************************************************************************)
(* Liveness.                                                               *)
(***************************************************************************)
\* A cancellation request ends the execution, whatever the program does with
\* SIGTERM and however many processes it has left.
CancellationCompletes == (controlled /\ requested) ~> pc = "done"

\* The exit of the leader ends the execution, whatever is left in its group.
ExitCompletes == child = "zombie" ~> pc = "done"
=============================================================================
