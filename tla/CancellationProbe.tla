------------------------- MODULE CancellationProbe --------------------------
(***************************************************************************)
(* probe_pidfd_cancellation: the probe forks a leader with a session and a *)
(* descendant of its own, waits for its byte on the ready pipe, signals    *)
(* both through pidfds, and observes that both go.  The descendant holds a *)
(* copy of the pipe's write end.  The leader and the descendant inherit    *)
(* how the host treats SIGTERM, which they outlive unless its disposition  *)
(* is the default and it is not blocked; the host may also have its        *)
(* children reaped for it (SIGCHLD ignored).                               *)
(***************************************************************************)
EXTENDS Naturals, FiniteSets

CONSTANTS
    ProbeFaults     \* fork, session, list, stat, member_pidfd, leader_pidfd, kill

VARIABLES
    ignored,        \* the host, so both, ignore, catch or block SIGTERM
    autoreap,       \* a child of the host that dies is reaped at once
    at,             \* where the probe is
    leader,         \* none, new, session, forked, paused, dead, reaped
    cause,          \* how the leader ended: none, exit, term or kill
    member,         \* the descendant: none, run, dead or gone
    pending,        \* who has a SIGTERM that has not been acted on
    byte,           \* the ready pipe holds the leader's byte
    saw,            \* the tests of the verdict that came out true
    killed,         \* history: somebody else killed the leader
    missed          \* history: the members of the group that were taken for gone

probevars == <<ignored, autoreap, at, leader, cause, member, pending, byte, saw,
               killed, missed>>

inherited == <<ignored, autoreap>>

LeaderAlive == leader \in {"new", "session", "forked", "paused"}

\* The write end of the ready pipe is open in the leader and in the descendant.
ReadyHeld == LeaderAlive \/ member = "run"

ProbeInit ==
    /\ ignored = FALSE /\ autoreap \in BOOLEAN
    /\ at = "idle" /\ leader = "none" /\ cause = "none" /\ member = "none"
    /\ pending = {} /\ byte = FALSE /\ saw = {} /\ killed = FALSE
    /\ missed = {}

\* The leader ends; the kernel reaps it by itself when the host ignores SIGCHLD.
LeaderEnds(how) ==
    /\ leader' = IF autoreap THEN "reaped" ELSE "dead"
    /\ cause' = how

\* pipe2 and fork; the leader inherits the host's disposition of SIGTERM.
BeginCancellationProbe ==
    /\ at = "idle"
    /\ \/ at' = "ready" /\ leader' = "new" /\ ignored' \in BOOLEAN
       \/ "fork" \in ProbeFaults /\ at' = "no" /\ UNCHANGED <<leader, ignored>>
    /\ UNCHANGED <<autoreap, cause, member, pending, byte, saw, killed, missed>>

(***************************************************************************)
(* The leader.                                                             *)
(***************************************************************************)
LeaderSession ==
    /\ leader = "new"
    /\ \/ leader' = "session" /\ UNCHANGED cause
       \/ "session" \in ProbeFaults /\ LeaderEnds("exit")
    /\ UNCHANGED <<inherited, at, member, pending, byte, saw, killed, missed>>

LeaderForks ==
    /\ leader = "session"
    /\ \/ leader' = "forked" /\ member' = "run" /\ UNCHANGED cause
       \/ "fork" \in ProbeFaults /\ LeaderEnds("exit") /\ UNCHANGED member
    /\ UNCHANGED <<inherited, at, pending, byte, saw, killed, missed>>

LeaderReady ==
    /\ leader = "forked"
    /\ leader' = "paused" /\ byte' = TRUE
    /\ UNCHANGED <<inherited, at, cause, member, pending, saw, killed, missed>>

(***************************************************************************)
(* The kernel.                                                             *)
(***************************************************************************)
\* A SIGTERM takes effect.
TermTakesEffect ==
    \/ /\ "leader" \in pending
       /\ pending' = pending \ {"leader"}
       /\ IF LeaderAlive /\ ~ignored THEN LeaderEnds("term")
                                     ELSE UNCHANGED <<leader, cause>>
       /\ UNCHANGED <<inherited, at, member, byte, saw, killed, missed>>
    \/ /\ "member" \in pending
       /\ pending' = pending \ {"member"}
       /\ member' = IF member = "run" /\ ~ignored THEN "dead" ELSE member
       /\ UNCHANGED <<inherited, at, leader, cause, byte, saw, killed, missed>>

\* The descendant is reaped by whoever inherited it from the dead leader, or at
\* once where SIGCHLD is ignored; a leader that is alive only pauses.
MemberReaped ==
    /\ member = "dead"
    /\ ~LeaderAlive \/ autoreap
    /\ member' = "gone"
    /\ UNCHANGED <<inherited, at, leader, cause, pending, byte, saw, killed, missed>>

\* Somebody else kills the leader.
LeaderKilled ==
    /\ "kill" \in ProbeFaults /\ LeaderAlive /\ at \notin {"yes", "no"}
    /\ LeaderEnds("kill") /\ killed' = TRUE
    /\ UNCHANGED <<inherited, at, member, pending, byte, saw, missed>>

(***************************************************************************)
(* The probe.                                                              *)
(***************************************************************************)
\* The read ends with the byte, or with the end of file once nobody holds the
\* write end.
ReadReady ==
    /\ at = "ready"
    /\ \/ byte /\ at' = "open"
       \/ ~byte /\ ~ReadyHeld /\ at' = "abandon"
    /\ UNCHANGED <<inherited, leader, cause, member, pending, byte, saw, killed, missed>>

OpenLeader ==
    /\ at = "open"
    /\ \/ leader # "reaped" /\ at' = "members"
       \/ /\ leader = "reaped" \/ "leader_pidfd" \in ProbeFaults
          /\ at' = "abandon"
    /\ UNCHANGED <<inherited, leader, cause, member, pending, byte, saw, killed, missed>>

\* Faulty: waitpid without a signal before it.
Abandon_NoKill ==
    /\ at = "abandon" /\ ~LeaderAlive
    /\ at' = "no"
    /\ leader' = "reaped"
    /\ UNCHANGED <<inherited, cause, member, pending, byte, saw, killed, missed>>

\* kill(-child, SIGKILL) and waitpid on the paths that give up.
Abandon ==
    /\ at = "abandon"
    /\ at' = "no"
    /\ leader' = "reaped"
    /\ cause' = IF LeaderAlive THEN "kill" ELSE cause
    /\ member' = IF member = "run" THEN "dead" ELSE member
    /\ UNCHANGED <<inherited, pending, byte, saw, killed, missed>>

\* The loop of signal_process_group_members, with SIGTERM.  A process whose
\* /proc/PID/stat cannot be read is passed over, which leaves it complete.
SignalMembers ==
    /\ at = "members"
    /\ at' = "leader"
    /\ \/ /\ pending' = pending \cup (IF member \in {"run", "dead"} THEN {"member"} ELSE {})
          /\ saw' = saw \cup {"complete"}
       \/ /\ "stat" \in ProbeFaults
          /\ saw' = saw \cup {"complete"} /\ UNCHANGED pending
       \/ /\ {"list", "member_pidfd"} \cap ProbeFaults # {}
          /\ UNCHANGED <<pending, saw>>
    /\ UNCHANGED <<inherited, leader, cause, member, byte, killed, missed>>

\* A process that is gone is no error; the leader was then not signaled.
SignalLeader ==
    /\ at = "leader"
    /\ at' = "poll"
    /\ IF leader = "reaped"
       THEN UNCHANGED <<pending, saw>>
       ELSE pending' = pending \cup {"leader"} /\ saw' = saw \cup {"signaled"}
    /\ UNCHANGED <<inherited, leader, cause, member, byte, killed, missed>>

\* pidfd_exited(pidfd, 1000): the exit is seen, or time runs out.
PollLeader ==
    /\ at = "poll"
    /\ at' = "gone"
    /\ \/ ~LeaderAlive /\ saw' = saw \cup {"exited"}
       \/ LeaderAlive /\ UNCHANGED saw
    /\ UNCHANGED <<inherited, leader, cause, member, pending, byte, killed, missed>>

MemberInGroup == member \in {"run", "dead"}

\* wait_process_group_members_gone, which counts zombies too, but not a process
\* whose /proc/PID/stat cannot be read.
WaitMembers ==
    /\ at = "gone"
    /\ at' = "waitid"
    /\ \/ /\ ~MemberInGroup \/ "stat" \in ProbeFaults
          /\ saw' = saw \cup {"gone"}
          /\ missed' = IF MemberInGroup THEN missed \cup {"member"} ELSE missed
       \/ /\ MemberInGroup \/ "list" \in ProbeFaults
          /\ UNCHANGED <<saw, missed>>
    /\ UNCHANGED <<inherited, leader, cause, member, pending, byte, killed>>

\* waitid(P_PIDFD, WEXITED | WNOWAIT) blocks until the leader has ended.
ObserveLeader ==
    /\ at = "waitid" /\ ~LeaderAlive
    /\ at' = "reap"
    /\ saw' = IF leader = "dead" /\ cause = "term" THEN saw \cup {"by_term"} ELSE saw
    /\ UNCHANGED <<inherited, leader, cause, member, pending, byte, killed, missed>>

\* Faulty: a verdict that leaves the descendant out.
CancellationVerdict_LeaderOnly ==
    {"complete", "signaled", "exited", "by_term"} \subseteq saw

CancellationVerdict ==
    {"complete", "signaled", "exited", "gone", "by_term"} \subseteq saw

ReapLeader ==
    /\ at = "reap"
    /\ leader' = "reaped"
    /\ at' = IF CancellationVerdict THEN "yes" ELSE "no"
    /\ UNCHANGED <<inherited, cause, member, pending, byte, saw, killed, missed>>

\* The probe has returned, and its processes no longer matter.
EndCancellationProbe ==
    /\ at \in {"yes", "no"}
    /\ at' = "idle" /\ leader' = "none" /\ cause' = "none" /\ member' = "none"
    /\ pending' = {} /\ byte' = FALSE /\ saw' = {}
    /\ ignored' = FALSE /\ killed' = FALSE
    /\ UNCHANGED <<autoreap, missed>>

ProbeStep == \/ ReadReady \/ OpenLeader \/ Abandon \/ SignalMembers \/ SignalLeader
             \/ PollLeader \/ WaitMembers \/ ObserveLeader \/ ReapLeader

ProbedStep == LeaderSession \/ LeaderForks \/ LeaderReady \/ TermTakesEffect
              \/ MemberReaped

\* Inductive: past the ready byte the leader forks nobody, so a group that was
\* seen empty, and was, stays empty, and a leader seen dead of SIGTERM stays dead of it.
CancelInv ==
    /\ at = "idle" => leader = "none" /\ member = "none" /\ ~byte /\ saw = {}
    /\ at \in {"open", "members", "leader", "poll", "gone", "waitid", "reap", "yes"} => byte
    /\ byte => leader \in {"paused", "dead", "reaped"}
    /\ "gone" \in saw => byte /\ (~MemberInGroup \/ missed # {})
    /\ "by_term" \in saw => ~LeaderAlive /\ cause = "term"
    /\ at = "yes" => {"gone", "by_term"} \subseteq saw
=============================================================================
