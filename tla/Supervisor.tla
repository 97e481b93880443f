----------------------------- MODULE Supervisor -----------------------------
(***************************************************************************)
(* execute_backend: the admission ladder, fork, the supervision loop, and  *)
(* the classification of the result.  One label of pc stands for one place *)
(* where the code reads or changes state it shares with the leader, the    *)
(* group, the token or the clock; code between two such places only touches *)
(* the supervisor's own variables and is part of the step before it.       *)
(***************************************************************************)
EXTENDS Child

VARIABLES
    pc,
    scratch,                        \* the isolation scratch directory
    stream_open, control_open, ready_open,  \* read ends held
    start_open,                     \* write end of the start gate held
    control_got,                    \* control_bytes, once complete
    capture_failed, ready_seen, start_released, exec_confirmed,
    child_exited, child_reaped,
    cancellation_observed, cancellation_before_start,
    cancellation_signal_attempted, cancellation_signal_delivered,
    forced_signal_sent,
    cleanup_started, cleanup_complete, cleanup_failed,
    past,                           \* now >= cleanup_deadline, as sampled
    snap, complete,                 \* the process listing of a group scan
    result, evidence,               \* execution_result and cleanup_outcome
    late, hasty                     \* history, see Execution

endVars    == <<stream_open, control_open, ready_open, start_open>>
flowVars   == <<control_got, capture_failed, ready_seen, start_released,
                exec_confirmed, child_exited, child_reaped>>
cancelVars == <<cancellation_observed, cancellation_before_start,
                cancellation_signal_attempted, cancellation_signal_delivered,
                forced_signal_sent>>
cleanVars  == <<cleanup_started, cleanup_complete, cleanup_failed>>
scanVars   == <<snap, complete>>
resultVars == <<result, evidence>>
historyVars == <<late, hasty>>
loopVars   == <<flowVars, cancelVars, cleanVars, past, scanVars, historyVars>>
supervisorVars == <<pc, scratch, endVars, loopVars, resultVars>>

SupervisorInit ==
    /\ pc = "profile" /\ scratch = "none"
    /\ stream_open = FALSE /\ control_open = FALSE
    /\ ready_open = FALSE /\ start_open = FALSE
    /\ control_got = "none"
    /\ capture_failed = FALSE /\ ready_seen = FALSE /\ start_released = FALSE
    /\ exec_confirmed = FALSE /\ child_exited = FALSE /\ child_reaped = FALSE
    /\ cancellation_observed = FALSE /\ cancellation_before_start = FALSE
    /\ cancellation_signal_attempted = FALSE
    /\ cancellation_signal_delivered = FALSE
    /\ forced_signal_sent = FALSE
    /\ cleanup_started = FALSE /\ cleanup_complete = FALSE
    /\ cleanup_failed = FALSE
    /\ past = FALSE /\ snap = {} /\ complete = TRUE
    /\ result = "none" /\ evidence = "none"
    /\ late = FALSE /\ hasty = {}

(***************************************************************************)
(* Returning.  verify_parent_cleanup removes the scratch directory; the    *)
(* destructor of isolated_admission runs it on every path that has not.    *)
(***************************************************************************)
VerifyParentCleanup ==
    scratch' \in CASE scratch # "made"    -> {scratch}
                   [] "rmdir" \in Faults  -> {"gone", "stuck"}
                   [] OTHER               -> {"gone"}

Return(value, cleanup) ==
    /\ pc' = "done"
    /\ result' = value
    /\ evidence' = cleanup
    /\ stream_open' = FALSE /\ control_open' = FALSE
    /\ ready_open' = FALSE /\ start_open' = FALSE

(***************************************************************************)
(* Before fork: one cancellation check between every two admission steps.  *)
(***************************************************************************)
Ladder(at) ==
    /\ pc = at
    /\ UNCHANGED <<requestVars, groupVars, record, ready_byte, start_byte,
                   unread, writers, leak, requested, timerVars, loopVars>>

Advance(next) == pc' = next /\ UNCHANGED <<endVars, resultVars>>

\* cancellation && cancellation->cancellation_requested()
CancelCheck(at, next) ==
    /\ Ladder(at)
    /\ IF controlled /\ requested
         THEN Return("cancelled_before_start", "none") /\ VerifyParentCleanup
         ELSE Advance(next) /\ UNCHANGED scratch
    /\ UNCHANGED leaderVars

\* Faulty: an early return that does not destroy the admission.
Refuse_KeepScratch(at, fault, kind) ==
    /\ Ladder(at)
    /\ fault \in Faults
    /\ Return(kind, "none")
    /\ UNCHANGED <<scratch, leaderVars>>

\* A step that may fail with the given execution_failure_kind.
Refuse(at, fault, kind) ==
    /\ Ladder(at)
    /\ fault \in Faults
    /\ Return(kind, "none")
    /\ VerifyParentCleanup
    /\ UNCHANGED leaderVars

Proceed(at, next) ==
    /\ Ladder(at)
    /\ Advance(next)
    /\ UNCHANGED <<scratch, leaderVars>>

CheckProfile ==
    \/ Refuse("profile", "unsupported", "backend_unsupported")
    \/ Proceed("profile", "cancel_1")

\* Request shape, then admit_isolated_resources, whose last step is
\* make_scratch.
AdmitResources ==
    \/ Refuse("admission", "request", "request_rejected")
    \/ Refuse("admission", "admission", "resource_admission_failed")
    \/ /\ Ladder("admission")
       /\ Advance("cancel_2")
       /\ scratch' = IF isolated THEN "made" ELSE "none"
       /\ UNCHANGED leaderVars

AdmitInterpreter ==
    \/ Refuse("interpreter", "interpreter", "interpreter_unavailable")
    \/ Proceed("interpreter", "cancel_3")

MakePipes ==
    \/ Refuse("pipes", "pipes", "process_start_failed")
    \/ /\ Ladder("pipes")
       /\ pc' = "fork"
       /\ stream_open' = TRUE /\ control_open' = TRUE
       /\ ready_open' = TRUE /\ start_open' = TRUE
       /\ UNCHANGED <<scratch, leaderVars, resultVars>>

Fork ==
    \/ Refuse("fork", "fork", "process_start_failed")
    \/ /\ Ladder("fork")
       /\ Advance(IF controlled THEN "pidfd" ELSE "exit")
       /\ child' = "process_group"
       /\ UNCHANGED <<scratch, status, doomed, ran>>

\* Who is sent SIGKILL although the grace period is not over.
Hasty(S) ==
    {who \in {"leader", "member"} :
        \/ who = "leader" /\ child \in Alive /\ cancel_timer # "expired"
        \/ /\ who = "member" /\ S \cap LiveMembers # {}
           /\ cancel_timer = "running"}

\* pidfd_open.  On failure the gate is closed and the leader, which cannot
\* have passed it, is killed and reaped before anything is reported.
OpenPidfd ==
    \/ Proceed("pidfd", "exit")
    \/ /\ pc = "pidfd"
       /\ "pidfd" \in Faults
       /\ pc' = "pidfd_failed"
       /\ start_open' = FALSE
       /\ KillLeader
       /\ hasty' = hasty \cup Hasty({})
       /\ UNCHANGED <<requestVars, child, status, ran, groupVars, pipeVars,
                      requested, timerVars, scratch, stream_open, control_open,
                      ready_open, flowVars, cancelVars, cleanVars, past,
                      scanVars, late, resultVars>>

PidfdFailed ==
    /\ Ladder("pidfd_failed")
    /\ child = "zombie"
    /\ child' = "reaped"
    /\ Return("process_start_failed", "none")
    /\ VerifyParentCleanup
    /\ UNCHANGED <<status, doomed, ran>>

(***************************************************************************)
(* The loop.  Each label below is the next shared operation the code will  *)
(* reach from that point on, given the supervisor's variables.             *)
(***************************************************************************)
\* Faulty: a signal may be sent between the gate and execveat.
SendDue_Eager == cancellation_observed /\ ~cancellation_signal_attempted

\* The condition of send_cancellation_signal.
SendDue == /\ cancellation_observed
           /\ ~cancellation_signal_attempted
           /\ ~(start_released /\ ~exec_confirmed)

\* Faulty: the leader is reaped as soon as its exit is observed.
ReapDue_AtExit == child_exited /\ ~child_reaped

ReapDue == /\ child_exited /\ ~child_reaped
           /\ controlled => cleanup_complete

ReapLabel == IF ReapDue THEN "reap" ELSE "drain"

CleanLabel ==
    IF child_exited /\ controlled /\ cleanup_started /\ ~cleanup_complete
      THEN IF forced_signal_sent THEN "kill" ELSE "gone"
      ELSE ReapLabel

BeginLabel == IF child_exited /\ controlled /\ ~cleanup_started
                THEN "begin" ELSE CleanLabel

TermLabel == IF SendDue THEN "term" ELSE "deadline"

GateLabel == IF ready_seen /\ ~start_released /\ ~cancellation_observed
               THEN "gate" ELSE TermLabel

\* observe_cancellation reads the token only under this condition.
MayObserve == controlled /\ ~cancellation_observed /\ ~child_exited

CancelLabel == IF MayObserve THEN "cancel" ELSE GateLabel

TopLabel == IF child_exited THEN CancelLabel ELSE "exit"

\* Faulty: the loop does not wait for the leader, or for the streams.
LoopDone_Unreaped == ~stream_open /\ ~control_open /\ ~ready_open
LoopDone_Undrained == child_reaped /\ ~control_open /\ ~ready_open

\* The loop ends when the leader is reaped and every read end is closed.
LoopDone == /\ child_reaped
            /\ ~stream_open /\ ~control_open /\ ~ready_open

LoopEnd    == IF LoopDone THEN "result" ELSE TopLabel
ReadyLabel == IF ready_open THEN "ready" ELSE LoopEnd
ControlLabel == IF control_open THEN "control" ELSE ReadyLabel

\* waitid(WEXITED | WNOHANG | WNOWAIT).  An error is taken for a leader that is
\* still running.
ObserveChildExit ==
    /\ pc = "exit"
    /\ child_exited' \in (IF "waitid" \in Faults THEN {FALSE} ELSE {})
                            \cup {child = "zombie"}
    /\ UNCHANGED <<kernelVars, scratch, endVars, control_got, capture_failed,
                   ready_seen, start_released, exec_confirmed, child_reaped,
                   cancelVars, cleanVars, past, scanVars, historyVars,
                   resultVars>>
    /\ pc' = CancelLabel'

\* What observe_cancellation does once the token says requested.
NoteCancellation ==
    /\ cancellation_observed' = TRUE
    /\ cancellation_before_start' = ~start_released
    /\ start_open' = (start_open /\ start_released)

ObserveCancellation ==
    /\ pc = "cancel"
    /\ IF requested
         THEN NoteCancellation
         ELSE UNCHANGED <<cancellation_observed, cancellation_before_start,
                          start_open>>
    /\ UNCHANGED <<kernelVars, scratch, stream_open, control_open, ready_open,
                   flowVars, cancellation_signal_attempted,
                   cancellation_signal_delivered, forced_signal_sent,
                   cleanVars, past, scanVars, historyVars, resultVars>>
    /\ pc' = GateLabel'

\* The second look at the token and the start byte.  The write fails when no
\* process has the read end any more (the host ignores SIGPIPE).
ReleaseGate ==
    /\ pc = "gate"
    /\ IF MayObserve /\ requested
         THEN NoteCancellation /\ UNCHANGED <<start_released, start_byte>>
         ELSE /\ start_open' = FALSE
              /\ IF start_open /\ (child = "gate" \/ "start" \in leak)
                   THEN start_released' = TRUE /\ start_byte' = TRUE
                   ELSE UNCHANGED <<start_released, start_byte>>
              /\ UNCHANGED <<cancellation_observed, cancellation_before_start>>
    /\ UNCHANGED <<requestVars, leaderVars, groupVars, record, ready_byte,
                   unread, writers, leak, requested, timerVars, scratch,
                   stream_open,
                   control_open, ready_open, control_got, capture_failed,
                   ready_seen, exec_confirmed, child_exited, child_reaped,
                   cancellation_signal_attempted,
                   cancellation_signal_delivered, forced_signal_sent,
                   cleanVars, past, scanVars, historyVars, resultVars>>
    /\ pc' = TermLabel'

(***************************************************************************)
(* A scan of the group, signal_process_group_members or                    *)
(* wait_process_group_members_gone, is two steps: the listing of /proc     *)
(* (process_ids), and what is done to the listed processes that are still  *)
(* found in the group.  Processes come and go in between.                  *)
(***************************************************************************)
\* process_ids and the pidfd_open of each member; a failure of either is a
\* scan that misses some of the group and says so.
ListProcesses(at, next) ==
    /\ pc = at
    /\ \/ snap' = InGroup /\ complete' = TRUE
       \/ "scan" \in Faults /\ snap' \in SUBSET InGroup /\ complete' = FALSE
    /\ pc' = next
    /\ UNCHANGED <<kernelVars, scratch, endVars, flowVars, cancelVars,
                   cleanVars, past, historyVars, resultVars>>

\* The listed processes that process_group_of finds in the group.  It answers
\* "not in the group" also when /proc/PID/stat cannot be opened.
Found == IF "stat" \in Faults THEN SUBSET (snap \cap InGroup)
                              ELSE {snap \cap InGroup}

SendTerm == /\ \E S \in Found : Reach(S)
            /\ TermLeader
            /\ UNCHANGED <<mem, hasty>>

SendKill == /\ \E S \in Found : /\ Reach(S)
                                /\ KillMembers(S)
                                /\ hasty' = hasty \cup Hasty(S)
            /\ KillLeader

\* signal_process_group_members(...).complete is sticky in cleanup_failed.
NoteIncomplete == cleanup_failed' = (cleanup_failed \/ ~complete)

Sending(at) ==
    /\ pc = at
    /\ UNCHANGED <<requestVars, child, status, ran, pipeVars, requested,
                   scratch, endVars, flowVars, cancellation_observed,
                   cancellation_before_start, scanVars, resultVars>>

\* send_cancellation_signal.  A zombie still takes a signal, so the leader
\* counts as signaled unless it has been reaped.
SendCancellationSignal ==
    /\ Sending("term_send")
    /\ SendTerm
    /\ NoteIncomplete
    /\ cancellation_signal_attempted' = TRUE
    /\ cancellation_signal_delivered' = (child # "reaped")
    /\ cancel_timer' = "running"
    /\ late' = child_exited
    /\ UNCHANGED <<forced_signal_sent, cleanup_timer, cleanup_started,
                   cleanup_complete, past>>
    /\ pc' = "deadline"

\* Faulty: the grace period is not waited for, or force waits for the leader.
ForceDue_AtOnce == cancellation_signal_attempted /\ ~forced_signal_sent
ForceDue_AfterExit == /\ cancellation_signal_attempted /\ ~forced_signal_sent
                      /\ cancel_timer = "expired"
                      /\ child_exited

ForceDue == /\ cancellation_signal_attempted
            /\ ~forced_signal_sent
            /\ cancel_timer = "expired"
            /\ ~cleanup_complete

\* now = steady_clock::now(), compared with both deadlines.
SampleNow ==
    /\ pc = "deadline"
    /\ past' = \/ cleanup_timer = "expired"
               \/ cleanup_timer = "grace" /\ cancel_timer = "expired"
    /\ pc' = IF ForceDue THEN "force" ELSE BeginLabel
    /\ UNCHANGED <<kernelVars, scratch, endVars, flowVars, cancelVars,
                   cleanVars, scanVars, historyVars, resultVars>>

\* The grace period is over: SIGKILL to everyone, one second to disappear.
SendForcedSignal ==
    /\ Sending("force_send")
    /\ SendKill
    /\ NoteIncomplete
    /\ forced_signal_sent' = TRUE
    /\ cleanup_timer' = "running"
    /\ past' = FALSE
    /\ UNCHANGED <<cancellation_signal_attempted,
                   cancellation_signal_delivered, cancel_timer,
                   cleanup_started, cleanup_complete, late>>
    /\ pc' = BeginLabel'

\* The exit has been observed and cancellation has already signaled the
\* group: no new signal, the cleanup deadline is the cancellation deadline.
BeginCleanupAfterCancel ==
    /\ pc = "begin"
    /\ cancellation_signal_attempted
    /\ cleanup_started' = TRUE
    /\ cleanup_timer' = IF forced_signal_sent THEN cleanup_timer ELSE "grace"
    /\ past' = (past /\ forced_signal_sent)
    /\ UNCHANGED <<requestVars, leaderVars, groupVars, pipeVars, requested,
                   cancel_timer, scratch, endVars, flowVars, cancelVars,
                   cleanup_complete, cleanup_failed, scanVars, historyVars,
                   resultVars>>
    /\ pc' = CleanLabel'

BeginCleanupLists == /\ ~cancellation_signal_attempted
                     /\ ListProcesses("begin", "begin_send")

\* Ordinary cleanup of a controlled execution: SIGTERM, then 200 ms.
BeginCleanup ==
    /\ Sending("begin_send")
    /\ SendTerm
    /\ NoteIncomplete
    /\ cleanup_started' = TRUE
    /\ cleanup_timer' = "running"
    /\ past' = FALSE
    /\ UNCHANGED <<cancellation_signal_attempted,
                   cancellation_signal_delivered, forced_signal_sent,
                   cancel_timer, cleanup_complete, late>>
    /\ pc' = CleanLabel'

\* Once forced, every iteration repeats SIGKILL.
RepeatKill ==
    /\ Sending("kill_send")
    /\ SendKill
    /\ NoteIncomplete
    /\ UNCHANGED <<cancellation_signal_attempted,
                   cancellation_signal_delivered, forced_signal_sent,
                   timerVars, cleanup_started, cleanup_complete, past, late>>
    /\ pc' = "gone"

\* wait_process_group_members_gone with a zero timeout.
CheckGone ==
    /\ pc = "gone_check"
    /\ \E S \in Found : cleanup_complete' = (complete /\ S = {})
    /\ UNCHANGED <<kernelVars, scratch, endVars, flowVars, cancelVars,
                   cleanup_started, cleanup_failed, past, scanVars,
                   historyVars, resultVars>>
    /\ pc' = IF ~cleanup_complete' /\ past THEN "last" ELSE ReapLabel'

\* The cleanup deadline has passed with members left: SIGKILL, and the second
\* time around the cleanup is given up.
CleanupOverdue ==
    /\ Sending("last_send")
    /\ SendKill
    /\ forced_signal_sent' = TRUE
    /\ IF forced_signal_sent
         THEN /\ cleanup_failed' = TRUE
              /\ cleanup_complete' = TRUE
              /\ UNCHANGED <<cleanup_timer, past>>
         ELSE /\ NoteIncomplete
              /\ cleanup_timer' = "running"
              /\ past' = FALSE
              /\ UNCHANGED cleanup_complete
    /\ UNCHANGED <<cancellation_signal_attempted,
                   cancellation_signal_delivered, cancel_timer,
                   cleanup_started, late>>
    /\ pc' = ReapLabel'

(***************************************************************************)
(* Reaping, and the cleanup_group of an execution without a token, which   *)
(* signals by group number after the leader is reaped.  kill(2) on a group *)
(* reaches all its members at once.                                        *)
(***************************************************************************)
Reap ==
    /\ pc = "reap"
    /\ child' = "reaped"
    /\ child_reaped' = TRUE
    /\ pc' = IF controlled THEN "drain" ELSE "group_probe"
    /\ UNCHANGED <<requestVars, status, doomed, ran, groupVars, pipeVars,
                   requested, timerVars, scratch, endVars, control_got,
                   capture_failed, ready_seen, start_released, exec_confirmed,
                   child_exited, cancelVars, cleanVars, past, scanVars,
                   historyVars, resultVars>>

InGroupCleanup(at) ==
    /\ pc = at
    /\ UNCHANGED <<requestVars, leaderVars, pipeVars, requested, timerVars,
                   scratch, endVars, flowVars, cancelVars, cleanup_started,
                   past, scanVars, historyVars, resultVars>>

GroupCleaned(verdict) ==
    /\ cleanup_complete' = verdict
    /\ cleanup_failed' = ~verdict
    /\ pc' = "drain"

GroupStep(next) == pc' = next /\ UNCHANGED <<cleanup_complete, cleanup_failed>>

\* kill(-group, 0) answers ESRCH, at once or in one of the two wait loops.
GroupGone ==
    /\ InGroup = {}
    /\ \E at \in {"group_probe", "group_term", "group_kill"} : InGroupCleanup(at)
    /\ GroupCleaned(TRUE)
    /\ UNCHANGED groupVars

\* It does not, and the loop over it (if any) has run its course.
GroupThere ==
    /\ InGroup # {}
    /\ \/ InGroupCleanup("group_probe") /\ GroupStep("group_sigterm")
       \/ InGroupCleanup("group_term") /\ GroupStep("group_sigkill")
       \/ InGroupCleanup("group_kill") /\ GroupCleaned(FALSE)
    /\ UNCHANGED groupVars

GroupTerm ==
    /\ InGroupCleanup("group_sigterm")
    /\ GroupStep("group_term")
    /\ Reach(InGroup)
    /\ UNCHANGED mem

GroupKill ==
    /\ InGroupCleanup("group_sigkill")
    /\ GroupStep("group_kill")
    /\ Reach(InGroup)
    /\ KillMembers(InGroup)

(***************************************************************************)
(* poll and the non-blocking reads.                                        *)
(***************************************************************************)
Reading(at) ==
    /\ pc = at
    /\ UNCHANGED <<requestVars, leaderVars, groupVars, start_byte, writers, leak,
                   requested, timerVars, scratch, start_open, start_released,
                   child_exited, child_reaped, cancelVars, cleanVars, past,
                   scanVars, historyVars, resultVars>>

\* drain_fd on both streams: everything there is, then end of file if no
\* process can write any more.
Drain ==
    /\ Reading("drain")
    /\ \/ /\ unread' = IF stream_open THEN 0 ELSE unread
          /\ stream_open' = (stream_open /\ StreamHeld)
          /\ UNCHANGED capture_failed
       \/ /\ stream_open /\ "stream_read" \in Faults
          /\ capture_failed' = TRUE
          /\ stream_open' = FALSE
          /\ UNCHANGED unread
    /\ UNCHANGED <<record, ready_byte, control_open, ready_open, control_got,
                   ready_seen, exec_confirmed>>
    /\ pc' = ControlLabel'

\* Faulty: a leader that has already exited cannot have been executed.
ConfirmedByEof_Running == start_released /\ ~child_exited

\* End of file on the control pipe without a record.
ConfirmedByEof == start_released

\* The control pipe: a record, end of file, nothing yet, or a read error.
ReadControl ==
    /\ Reading("control")
    /\ \/ /\ record # "none"
          /\ control_got' = record /\ record' = "none"
          /\ control_open' = FALSE
          /\ UNCHANGED exec_confirmed
       \/ /\ record = "none"
          /\ control_open' = ControlHeld
          /\ exec_confirmed' = (~ControlHeld /\ ConfirmedByEof)
          /\ UNCHANGED <<control_got, record>>
       \/ /\ "control_read" \in Faults
          /\ control_open' = FALSE
          /\ UNCHANGED <<control_got, record, exec_confirmed>>
    /\ UNCHANGED <<ready_byte, unread, stream_open, ready_open, capture_failed,
                   ready_seen>>
    /\ pc' = ReadyLabel'

ReadReady ==
    /\ Reading("ready")
    /\ \/ /\ ready_seen' = (ready_seen \/ ready_byte)
          /\ ready_byte' = FALSE
          /\ ready_open' = ReadyHeld
       \/ /\ "ready_read" \in Faults
          /\ ready_open' = FALSE
          /\ UNCHANGED <<ready_seen, ready_byte>>
    /\ UNCHANGED <<record, unread, stream_open, control_open, control_got,
                   capture_failed, exec_confirmed>>
    /\ pc' = LoopEnd'

(***************************************************************************)
(* Classification.                                                         *)
(***************************************************************************)
\* child_failure_kind; execute depends on whether execveat said ENOENT.
ChildFailureKind(stage) ==
    CASE stage \in {"working_directory", "resource_limits"} ->
            {"resource_admission_failed"}
      [] stage \in {"mount_isolation", "network_isolation", "capability_drop",
                    "containment", "process_group"} ->
            {"isolation_setup_failed"}
      [] stage = "standard_streams" -> {"process_start_failed"}
      [] stage = "execute" -> {"interpreter_unavailable",
                               "process_start_failed"}

\* Faulty: giving up counts as cleaned up.
CleanupVerified_GivenUp == cleanup_complete /\ scratch' # "stuck"

CleanupVerified == /\ cleanup_complete /\ ~cleanup_failed
                   /\ scratch' # "stuck"

\* Results that say the program did not start.
NotStarted ==
    \/ /\ control_got # "none"
       /\ \E kind \in ChildFailureKind(control_got) : Return(kind, "none")
    \/ /\ control_got = "none"
       /\ cancellation_observed /\ cancellation_before_start
       /\ IF CleanupVerified THEN Return("cancelled_before_start", "verified")
                             ELSE Return("isolation_setup_failed", "none")
    \/ /\ control_got = "none"
       /\ ~(cancellation_observed /\ cancellation_before_start)
       /\ ~exec_confirmed
       /\ Return(IF CleanupVerified THEN "process_start_failed"
                                    ELSE "isolation_setup_failed", "none")

\* si_code and si_status of the leader.
ProgramResult == CASE status = "zero"    -> "succeeded"
                   [] status = "nonzero" -> "program_exited_nonzero"
                   [] OTHER              -> "program_terminated_by_signal"

\* Faulty: a forced signal of the ordinary cleanup counts as cancellation.
StartedResult_Forced ==
    CASE capture_failed -> "log_capture_failed"
      [] ~capture_failed /\ ~CleanupVerified -> "cleanup_failed"
      [] ~capture_failed /\ CleanupVerified /\ forced_signal_sent ->
           "cancelled_after_start"
      [] OTHER -> ProgramResult

\* Results that say it did: a lost capture comes before a failed cleanup, and
\* that before cancellation.
StartedResult ==
    CASE capture_failed -> "log_capture_failed"
      [] ~capture_failed /\ ~CleanupVerified -> "cleanup_failed"
      [] ~capture_failed /\ CleanupVerified /\ cancellation_signal_delivered ->
           "cancelled_after_start"
      [] OTHER -> ProgramResult

Started ==
    /\ control_got = "none"
    /\ ~(cancellation_observed /\ cancellation_before_start)
    /\ exec_confirmed
    /\ Return(StartedResult, IF CleanupVerified THEN "verified" ELSE "failed")

Classify ==
    /\ pc = "result"
    /\ VerifyParentCleanup
    /\ NotStarted \/ Started
    /\ UNCHANGED <<kernelVars, loopVars>>

Supervise ==
    \/ CheckProfile
    \/ CancelCheck("cancel_1", "admission")
    \/ AdmitResources
    \/ CancelCheck("cancel_2", "interpreter")
    \/ AdmitInterpreter
    \/ CancelCheck("cancel_3", "pipes")
    \/ MakePipes \/ Fork \/ OpenPidfd \/ PidfdFailed
    \/ ObserveChildExit \/ ObserveCancellation \/ ReleaseGate
    \/ ListProcesses("term", "term_send") \/ SendCancellationSignal
    \/ SampleNow
    \/ ListProcesses("force", "force_send") \/ SendForcedSignal
    \/ BeginCleanupAfterCancel \/ BeginCleanupLists \/ BeginCleanup
    \/ ListProcesses("kill", "kill_send") \/ RepeatKill
    \/ ListProcesses("gone", "gone_check") \/ CheckGone
    \/ ListProcesses("last", "last_send") \/ CleanupOverdue
    \/ Reap \/ GroupGone \/ GroupThere \/ GroupTerm \/ GroupKill
    \/ Drain \/ ReadControl \/ ReadReady
    \/ Classify
=============================================================================
