------------------------------- MODULE Kernel -------------------------------
(***************************************************************************)
(* The operating-system state that one execution shares between its        *)
(* supervisor (execute_backend), its leader (child_main, then the executed *)
(* program) and the processes the program leaves in its process group:     *)
(* processes, pipes, the cancellation token, the two deadlines.            *)
(*                                                                         *)
(* A process of the group other than the leader is "dying" once it has     *)
(* exited or has been sent SIGKILL: it is still listed in /proc, can do    *)
(* nothing more, and becomes "gone" when it is reaped.  SIGTERM may be     *)
(* handled or ignored, so it leaves a group member free to go on or exit.  *)
(***************************************************************************)
EXTENDS Naturals, FiniteSets

CONSTANTS
    Members,        \* processes the program may leave in its group (bound)
    Stranger,       \* a process of an unrelated group that is given the
                    \* execution's group number once that number is free
    MembersFork,    \* the values of controlled with which group members other
                    \* than the leader fork
    NumberReuse,    \* may the group number be reused?
    MaxChunks,      \* unread chunks a stream pipe holds (bound)
    Leaks,          \* sets of pipe ends that a process forked concurrently by
                    \* another thread of the host may hold
    Faults          \* the failures the environment may produce

PipeEnds == {"stream", "control", "ready", "start"}

FaultKinds == {"unsupported", "request", "admission", "interpreter", "pipes",
               "fork", "pidfd", "setup", "exec", "kill", "waitid", "scan",
               "stat", "stream_read", "control_read", "ready_read", "rmdir"}

ASSUME KernelAssumption ==
    /\ Stranger \notin Members
    /\ MembersFork \subseteq BOOLEAN /\ NumberReuse \in BOOLEAN
    /\ MaxChunks \in Nat
    /\ Leaks \subseteq SUBSET PipeEnds
    /\ Faults \subseteq FaultKinds

VARIABLES
    controlled,     \* the request came with a cancellation token
    isolated,       \* isolated_backend rather than host_supervisor_backend
    capture,        \* stream_policy::capture_complete
    child,          \* where the leader is
    status,         \* how the leader ended
    doomed,         \* a fatal signal is pending on the leader
    ran,            \* history: execveat has succeeded
    mem,            \* the other processes whose group number is the leader's
    strayed,        \* history: a signal of this execution reached Stranger
    record,         \* child_error in the control pipe
    ready_byte,     \* the byte in the ready pipe
    start_byte,     \* the byte in the start pipe
    unread,         \* chunks in the stream pipes
    writers,        \* the program's processes that have a stream pipe open
    leak,           \* pipe ends held outside this execution
    requested,      \* cancellation_token::cancellation_requested
    cancel_timer,   \* cancellation_deadline
    cleanup_timer   \* cleanup_deadline

requestVars == <<controlled, isolated, capture>>
leaderVars  == <<child, status, doomed, ran>>
groupVars   == <<mem, strayed>>
pipeVars    == <<record, ready_byte, start_byte, unread, writers, leak>>
timerVars   == <<cancel_timer, cleanup_timer>>
kernelVars  == <<requestVars, leaderVars, groupVars, pipeVars, requested,
                 timerVars>>

(***************************************************************************)
(* The leader.                                                             *)
(***************************************************************************)
\* enum child_stage, without execute.
SetupStages == {"process_group", "standard_streams", "mount_isolation",
                "network_isolation", "working_directory", "capability_drop",
                "resource_limits", "containment"}

\* Between fork and a successful execveat.
BeforeExec == SetupStages \cup {"ready", "gate", "preexec"}
Alive      == BeforeExec \cup {"program", "exiting"}
ChildState == Alive \cup {"none", "zombie", "reaped"}

\* Setup failed or the gate closed: the leader is about to _exit.
Exiting == {"exiting"}

Procs    == Members \cup {Stranger}
MemState == {"none", "run", "dying", "gone"}

\* Processes /proc lists, and kill(-group) reaches, under the group number.
InGroup     == {p \in Procs : mem[p] \in {"run", "dying"}}
LiveMembers == {p \in Members : mem[p] = "run"}

(***************************************************************************)
(* Which write ends are still open somewhere: a read sees end of file only *)
(* when nobody holds the write end.  Every end is O_CLOEXEC; the leader    *)
(* closes all but control before execveat, and execveat closes control.    *)
(***************************************************************************)
\* Faulty: the supervisor does not close its own copy of the write end.
ControlHeld_OwnCopy == TRUE

ControlHeld == child \in BeforeExec \cup Exiting \/ "control" \in leak
ReadyHeld   == child \in SetupStages \cup {"ready"} \/ "ready" \in leak
StreamHeld  == \/ child \in (BeforeExec \ {"preexec"}) \cup Exiting
               \/ capture /\ child = "preexec"
               \/ writers # {}
               \/ "stream" \in leak

(***************************************************************************)
(* Signals.                                                                *)
(***************************************************************************)
\* SIGTERM to the leader: fatal, handled or ignored.
TermLeader == doomed' \in IF child \in Alive THEN {doomed, TRUE} ELSE {doomed}

\* SIGKILL to the leader.
KillLeader == doomed' = (doomed \/ child \in Alive)

\* SIGKILL to group members.
KillMembers(S) == mem' = [p \in Procs |->
                            IF p \in S /\ mem[p] = "run" THEN "dying" ELSE mem[p]]

\* A signal sent to the processes S under the execution's group number.
Reach(S) == strayed' = (strayed \/ Stranger \in S)

(***************************************************************************)
(* What happens around the supervisor and the leader.                      *)
(***************************************************************************)
\* The owner of the token requests cancellation.
RequestCancellation ==
    /\ controlled /\ ~requested
    /\ requested' = TRUE
    /\ UNCHANGED <<requestVars, leaderVars, groupVars, pipeVars, timerVars>>

\* steady_clock reaches a deadline.  The grace period is any length, so the
\* two deadlines expire in either order.
Expire ==
    /\ \/ /\ cancel_timer = "running"
          /\ cancel_timer' = "expired"
          /\ UNCHANGED cleanup_timer
       \/ /\ cleanup_timer = "running"
          /\ cleanup_timer' = "expired"
          /\ UNCHANGED cancel_timer
    /\ UNCHANGED <<requestVars, leaderVars, groupVars, pipeVars, requested>>

\* A member of the group exits, by itself or on a signal.
MemberExit(p) ==
    /\ mem[p] = "run"
    /\ mem' = [mem EXCEPT ![p] = "dying"]
    /\ UNCHANGED <<requestVars, leaderVars, strayed, pipeVars, requested,
                   timerVars>>

\* A member that has exited is reaped (by its parent or by init).
MemberReaped(p) ==
    /\ mem[p] = "dying"
    /\ mem' = [mem EXCEPT ![p] = "gone"]
    /\ writers' = writers \ {p}
    /\ UNCHANGED <<requestVars, leaderVars, strayed, record, ready_byte,
                   start_byte, unread, leak, requested, timerVars>>

\* Process p of the program forks n, which inherits its streams.  The
\* containment filter denies setsid and setpgid, so n is in the same group.
ForkedBy(p) ==
    /\ \E n \in Members :
         /\ mem[n] = "none"
         /\ mem' = [mem EXCEPT ![n] = "run"]
         /\ writers' = IF p \in writers THEN writers \cup {n} ELSE writers
    /\ UNCHANGED <<requestVars, leaderVars, strayed, record, ready_byte,
                   start_byte, unread, leak, requested, timerVars>>

WrittenBy(p) ==
    /\ p \in writers
    /\ unread < MaxChunks
    /\ unread' = unread + 1
    /\ UNCHANGED <<requestVars, leaderVars, groupVars, record, ready_byte,
                   start_byte, writers, leak, requested, timerVars>>

\* p closes or redirects its standard output and error.
ClosedBy(p) ==
    /\ p \in writers
    /\ writers' = writers \ {p}
    /\ UNCHANGED <<requestVars, leaderVars, groupVars, record, ready_byte,
                   start_byte, unread, leak, requested, timerVars>>

MemberForks == controlled \in MembersFork /\ \E m \in LiveMembers : ForkedBy(m)

MemberWrites == \E m \in LiveMembers : WrittenBy(m)

MemberCloses == \E m \in LiveMembers : ClosedBy(m)

\* The group number is free (leader reaped, no member left) and the kernel
\* gives it to an unrelated group.
NumberReused ==
    /\ NumberReuse
    /\ child = "reaped"
    /\ InGroup = {}
    /\ mem[Stranger] = "none"
    /\ mem' = [mem EXCEPT ![Stranger] = "run"]
    /\ UNCHANGED <<requestVars, leaderVars, strayed, pipeVars, requested,
                   timerVars>>

\* The process forked by another thread executes or exits.
LeakCloses ==
    /\ leak # {}
    /\ leak' = {}
    /\ UNCHANGED <<requestVars, leaderVars, groupVars, record, ready_byte,
                   start_byte, unread, writers, requested, timerVars>>

\* Something outside the execution kills the leader (out-of-memory killer,
\* an administrator, execveat past its point of no return).
LeaderKilled ==
    /\ "kill" \in Faults
    /\ child \in Alive /\ ~doomed
    /\ doomed' = TRUE
    /\ UNCHANGED <<requestVars, child, status, ran, groupVars, pipeVars,
                   requested, timerVars>>

Environment ==
    \/ RequestCancellation
    \/ Expire
    \/ \E p \in Procs : MemberExit(p) \/ MemberReaped(p)
    \/ MemberForks \/ MemberWrites \/ MemberCloses
    \/ NumberReused
    \/ LeakCloses
    \/ LeaderKilled

KernelInit(controlledSet, isolatedSet, captureSet) ==
    /\ controlled \in controlledSet
    /\ isolated \in isolatedSet
    /\ capture \in captureSet
    /\ child = "none" /\ status = "none" /\ doomed = FALSE /\ ran = FALSE
    /\ mem = [p \in Procs |-> "none"] /\ strayed = FALSE
    /\ record = "none" /\ ready_byte = FALSE /\ start_byte = FALSE
    /\ unread = 0 /\ writers = {} /\ leak \in Leaks
    /\ requested = FALSE
    /\ cancel_timer = "off" /\ cleanup_timer = "off"
=============================================================================
