------------------------------ MODULE Backend -------------------------------
(***************************************************************************)
(* A backend: make() probes the host and seals a profile of guarantees     *)
(* (capability_report::probe, probe_isolated); execute() refuses what the  *)
(* profile or the backend's kind cannot serve, and the child establishes   *)
(* the rest stage by stage.  The profile is never taken again, so what the *)
(* kernel grants may have changed by the time of an execution.             *)
(*                                                                         *)
(* The host's features stand for what the kernel and the host's policy let *)
(* the process do: install the filter, execveat, set a limit, drop         *)
(* capabilities, build the private root, and create a network namespace.   *)
(***************************************************************************)
EXTENDS NetworkIsolation, CancellationProbe

CONSTANTS
    Hosts,          \* the sets of features a host may grant
    Requests,       \* network, root, read_only, credentials, limits, cancellation
    MaxChanges      \* bound on the changes of what the host grants

\* The limits setup_resource_limits installs, without the address space, which is
\* handled like these two; a request may also name a limit of processor time.
LimitKinds == {"file_size", "open_files"}

Features == {"seccomp", "execveat", "capset", "mount", "netns"} \cup LimitKinds

Policies == {"denied", "loopback_only"}

\* What execute() reads of an execution_request.
RequestType ==
    [network: Policies \cup {"allowed"}, root: {"current", "view"}, read_only: BOOLEAN,
     credentials: {"current", "other"}, limits: SUBSET (LimitKinds \cup {"cpu_time"}),
     cancellation: BOOLEAN]

ASSUME BackendAssumption ==
    /\ MaxChanges \in Nat
    /\ \A h \in Hosts : h \subseteq Features
    /\ Requests \subseteq RequestType

VARIABLES
    isolated,       \* isolated_backend, or host_supervisor_backend
    grants,         \* the features the host grants now
    pc,
    found,          \* the probes that returned true
    unproven,       \* history: those whose child had not done what it was to do
    profile,        \* the sealed guarantees
    request,
    got,            \* what the child has established
    changes

vars == <<netvars, probevars, isolated, grants, pc, found, unproven, profile,
          request, got, changes>>

\* What the probes and the execution's own steps leave alone.
beside == <<netvars, probevars, isolated, grants, changes>>

(***************************************************************************)
(* capability_report::probe and probe_isolated.                            *)
(***************************************************************************)
\* The child of a probe cannot be forked, does what it is to do where the host
\* grants all of it, says no, or is killed.
Endings(features) ==
    {"nofork", "killed", IF features \subseteq grants THEN "done" ELSE "no"}

\* WIFEXITED(status) && WEXITSTATUS(status) == 0.  The status of a child that
\* somebody else reaped is never written and stays 0.
StatusIsZero(end) == end = "done" \/ (autoreap /\ end # "nofork")

Note(name, says, did) ==
    /\ found' = IF says THEN found \cup {name} ELSE found
    /\ unproven' = IF says /\ ~did THEN unproven \cup {name} ELSE unproven
    /\ UNCHANGED <<profile, request, got>>

ProbeIn(name, features, next) ==
    /\ pc = name
    /\ pc' = next
    /\ \E end \in Endings(features) : Note(name, StatusIsZero(end), end = "done")
    /\ UNCHANGED beside

ProbeContainment == ProbeIn("containment", {"seccomp"}, "descriptor")

\* probe_descriptor_execution asks the kernel directly.
ProbeDescriptor ==
    /\ pc = "descriptor"
    /\ pc' = IF "containment" \in found THEN "cancellation" ELSE "file_size"
    /\ Note("descriptor", "execveat" \in grants, "execveat" \in grants)
    /\ UNCHANGED beside

ProbeCancellation ==
    /\ pc = "cancellation"
    /\ BeginCancellationProbe \/ ProbeStep
    /\ UNCHANGED <<netvars, isolated, grants, pc, found, unproven, profile, request,
                   got, changes>>

\* The processes of the probe and the signals they were sent.
CancellationProbeProcesses ==
    /\ pc = "cancellation"
    /\ ProbedStep
    /\ UNCHANGED <<netvars, isolated, grants, pc, found, unproven, profile, request,
                   got, changes>>

ProbeIsKilled ==
    /\ pc = "cancellation"
    /\ LeaderKilled
    /\ UNCHANGED <<netvars, isolated, grants, pc, found, unproven, profile, request,
                   got, changes>>

CancellationProbed ==
    /\ pc = "cancellation"
    /\ EndCancellationProbe
    /\ pc' = "file_size"
    /\ Note("cancellation", at = "yes", cause = "term" /\ ~MemberInGroup)
    /\ UNCHANGED <<netvars, isolated, grants, changes>>

ProbeFileSize == ProbeIn("file_size", {"file_size", "seccomp"}, "open_files")

ProbeOpenFiles ==
    ProbeIn("open_files", {"open_files", "seccomp"},
            IF isolated THEN "drop" ELSE "profile")

ProbeDrop == ProbeIn("drop", {"capset"}, "filesystem")

\* probe_isolated_filesystem realizes one admission twice, dropping capabilities
\* in the realized root, then removes the scratch and the fixture, which may fail.
ProbeFilesystem ==
    /\ pc = "filesystem"
    /\ pc' = "denied"
    /\ \E one, two \in Endings({"mount", "capset"}), removed \in BOOLEAN :
         Note("filesystem", StatusIsZero(one) /\ StatusIsZero(two) /\ removed,
              one = "done" /\ two = "done" /\ removed)
    /\ UNCHANGED beside

\* probe_network_policy: the fork ...
ProbeNetwork ==
    /\ pc \in Policies /\ step = "idle"
    /\ \/ SetupNetwork(pc) /\ UNCHANGED pc
       \/ /\ pc' = IF pc = "denied" THEN "loopback_only" ELSE "profile"
          /\ UNCHANGED netvars
    /\ UNCHANGED <<probevars, isolated, grants, found, unproven, profile, request,
                   got, changes>>

\* The child was waited for, ended with 0 and wrote no failure record.
NetworkVerdict(end) == ~autoreap /\ end = "done"

NetworkStep ==
    /\ pc \in Policies \cup {"network"}
    /\ NetStep("netns" \in grants)
    /\ UNCHANGED <<probevars, isolated, grants, pc, found, unproven, profile, request,
                   got, changes>>

\* ... and the verdict.  The loopback_only child completes a round trip first.
NetworkProbed ==
    /\ pc \in Policies /\ step # "idle"
    /\ \E end \in {"done", "no", "killed"} :
         /\ end = "done" => step = "ready"
         /\ end = "no" => step = "failed" \/ (step = "ready" /\ pc = "loopback_only")
         /\ Note(pc, NetworkVerdict(end), end = "done")
    /\ pc' = IF pc = "denied" THEN "loopback_only" ELSE "profile"
    /\ LeaveNetwork
    /\ UNCHANGED <<probevars, isolated, grants, changes>>

Given(condition, guarantees) == IF condition THEN guarantees ELSE {}

LimitGuarantees ==
    Given(found \cap LimitKinds # {}, {"resource_limits"} \cup (found \cap LimitKinds))

Always == {"closed_environment", "fixed_credentials", "complete_capture"}

HostGuarantees ==
    Always \cup {"root_view", "writable_resources"}
      \cup Given("descriptor" \in found, {"exact_interpreter"})
      \cup Given("containment" \in found, {"cleanup_verified"})
      \cup Given("cancellation" \in found, {"cancellation"})
      \cup LimitGuarantees

IsolatedGuarantees ==
    Always
      \cup Given("descriptor" \in found, {"exact_interpreter"})
      \cup Given({"filesystem", "drop"} \subseteq found,
                 {"root_view", "read_only_resources", "writable_resources"})
      \cup Given({"containment", "filesystem"} \subseteq found, {"cleanup_verified"})
      \cup Given("cancellation" \in found, {"cancellation"})
      \cup LimitGuarantees
      \cup Given({"containment", "drop", "denied"} \subseteq found, {"network_denied"})
      \cup Given({"containment", "drop", "loopback_only"} \subseteq found,
                 {"loopback_isolated"})

SealProfile ==
    /\ pc = "profile"
    /\ pc' = "made"
    /\ profile' = IF isolated THEN IsolatedGuarantees ELSE HostGuarantees
    /\ UNCHANGED <<beside, found, unproven, request, got>>

(***************************************************************************)
(* execute_backend up to the fork.                                         *)
(***************************************************************************)
\* execution_request::required_guarantees of libpkgexec.
Required(r) ==
    {"closed_environment", "fixed_credentials", "root_view", "exact_interpreter",
     "cleanup_verified"}
      \cup Given(r.network = "denied", {"network_denied"})
      \cup Given(r.network = "loopback_only", {"loopback_isolated"})
      \cup Given(r.read_only, {"read_only_resources"})
      \cup Given(r.limits # {}, {"resource_limits"} \cup r.limits)
      \cup Given(r.cancellation, {"cancellation"})

Execute ==
    /\ pc = "made"
    /\ \E r \in Requests :
         /\ request' = r
         /\ pc' = IF Required(r) \subseteq profile THEN "shape" ELSE "refused"
    /\ UNCHANGED <<beside, found, unproven, profile, got>>

\* validate_host_request_shape
HostShape(r) ==
    /\ r.root = "current" /\ r.network = "allowed"
    /\ r.credentials = "current" /\ ~r.read_only

\* Faulty: a shape check that admits credentials the child never installs.
IsolatedShape_AnyCredentials(r) == r.root # "current"

\* validate_isolated_request_shape, and the root view / that
\* admit_isolated_resources rejects.
IsolatedShape(r) == r.credentials = "current" /\ r.root # "current"

CheckShape ==
    /\ pc = "shape"
    /\ pc' = IF IF isolated THEN IsolatedShape(request) ELSE HostShape(request)
             THEN IF isolated THEN "mount" ELSE "limits"
             ELSE "refused"
    /\ UNCHANGED <<beside, found, unproven, profile, request, got>>

(***************************************************************************)
(* The stages of child_main.                                               *)
(***************************************************************************)
\* A stage that needs features of the host either establishes what it is for,
\* or is reported and ends the child.
Stage(name, features, what, next) ==
    /\ pc = name
    /\ \/ features \subseteq grants /\ pc' = next /\ got' = got \cup what
       \/ pc' = "failed" /\ UNCHANGED got
    /\ UNCHANGED <<beside, found, unproven, profile, request>>

MountStage == Stage("mount", {"mount"}, {"private_root"}, "enter")

EnterNetwork ==
    /\ pc = "enter"
    /\ pc' = "network"
    /\ SetupNetwork(request.network)
    /\ UNCHANGED <<probevars, isolated, grants, found, unproven, profile, request, got,
                   changes>>

NetworkStage ==
    /\ pc = "network" /\ step \in {"ready", "failed"}
    /\ pc' = IF step = "ready" THEN "capabilities" ELSE "failed"
    /\ UNCHANGED <<beside, found, unproven, profile, request, got>>

DropStage == Stage("capabilities", {"capset"}, {"dropped"}, "limits")

Settable == request.limits \cap LimitKinds

LimitStage == Stage("limits", Settable, Settable, "contain")

ContainStage == Stage("contain", {"seccomp"}, {"contained"}, "exec")

ExecStage == Stage("exec", {"execveat"}, {}, "program")

(***************************************************************************)
(* The host's policy changes.                                              *)
(***************************************************************************)
Ended == pc \in {"refused", "failed", "program"}

\* make() has returned.
Sealed == pc \in {"made", "shape", "mount", "enter", "network", "capabilities",
                  "limits", "contain", "exec"} \/ Ended

\* While make() probes, a probe may end either way as it is.
HostChanges ==
    /\ Sealed /\ ~Ended /\ changes < MaxChanges
    /\ changes' = changes + 1
    /\ \E f \in Features :
         grants' = IF f \in grants THEN grants \ {f} ELSE grants \cup {f}
    /\ UNCHANGED <<netvars, probevars, isolated, pc, found, unproven, profile, request,
                   got>>

Init ==
    /\ NetInit /\ ProbeInit
    /\ isolated \in BOOLEAN
    /\ grants \in Hosts
    /\ pc = "containment"
    /\ found = {} /\ unproven = {} /\ profile = {} /\ got = {}
    /\ request = [network |-> "allowed"]     \* none yet
    /\ changes = 0

Probing == \/ ProbeContainment \/ ProbeDescriptor \/ ProbeCancellation
           \/ CancellationProbed \/ ProbeFileSize \/ ProbeOpenFiles \/ ProbeDrop
           \/ ProbeFilesystem \/ ProbeNetwork \/ NetworkStep \/ NetworkProbed
           \/ SealProfile

Executing == \/ Execute \/ CheckShape \/ MountStage \/ EnterNetwork \/ NetworkStage
             \/ DropStage \/ LimitStage \/ ContainStage \/ ExecStage

Next == Probing \/ CancellationProbeProcesses \/ ProbeIsKilled \/ Executing
        \/ HostChanges

Spec == Init /\ [][Next]_vars

\* Each process makes its next step when the scheduler lets it; so does a signal.
FairSpec == Spec /\ WF_vars(Probing) /\ WF_vars(CancellationProbeProcesses)

(***************************************************************************)
(* Properties.                                                             *)
(***************************************************************************)
\* A program runs only with all its request asks for: the network policy holds
\* for the links it sees, a root view or read-only resource is a private one,
\* every requested limit is installed, the credentials are the current ones,
\* and it is contained, in an isolated backend without capabilities.  It does
\* not matter what the host granted when the profile was sealed.
RunsAsRequired ==
    pc = "program" =>
      /\ NetworkIs(request.network)
      /\ ("private_root" \in got) = (request.root = "view")
      /\ request.read_only => "private_root" \in got
      /\ request.limits \subseteq got
      /\ request.credentials = "current"
      /\ "contained" \in got
      /\ isolated => "dropped" \in got

\* The probes a guarantee rests on.
Proof == [exact_interpreter   |-> {"descriptor"},
          cleanup_verified    |-> {"containment"} \cup Given(isolated, {"filesystem"}),
          read_only_resources |-> {"filesystem", "drop"},
          cancellation        |-> {"cancellation"},
          file_size           |-> {"file_size"},
          open_files          |-> {"open_files"},
          network_denied      |-> {"containment", "drop", "denied"},
          loopback_isolated   |-> {"containment", "drop", "loopback_only"}]

\* The probes that take the status of their child for 0 when waitpid has none.
TrustStatus == {"containment", "drop", "filesystem"} \cup LimitKinds

\* The probes that may say yes although they were not carried out: in a host that
\* has its children reaped for it, those that do not test what waitpid returned;
\* and cancellation, when the /proc/PID/stat of the descendant cannot be read.
MayBeUnproven ==
    Given(autoreap, TrustStatus) \cup Given(missed # {}, {"cancellation"})

\* A guarantee is in the profile only when its probes said so, and in a host
\* without these two peculiarities they were carried out to the end; the network
\* policies always were.  pkgexec_linux_capability.3.md:15-17 and 25-32 promise
\* it of every host.
AdvertisedIsProven ==
    Sealed => /\ \A g \in profile \cap DOMAIN Proof : Proof[g] \subseteq found
              /\ unproven \subseteq MayBeUnproven

\* Neither a probe nor an execution configures a link of the host
\* (network_isolation.cpp:321-345).
HostNetworkIsKept == [][UNCHANGED host_links]_vars

\* make() returns, unless the host ignores, catches or blocks SIGTERM or somebody
\* kills the leader of the cancellation probe: then waitid, or the read of the
\* ready byte, has nobody to wake it (process_control.cpp:432, 453).
ProbeReturns == <>(Sealed \/ ignored \/ killed)

(***************************************************************************)
(* The inductive invariant.                                                *)
(***************************************************************************)
\* Where an execution is once the profile covers its request, once the shape was
\* checked, and from the end of each stage of the child on.
AtExec == {"exec", "program"}
AtContain == {"contain"} \cup AtExec
AtLimits == {"limits"} \cup AtContain
AtCapabilities == {"capabilities"} \cup AtLimits
AtEnter == {"enter", "network"} \cup AtCapabilities
AtMount == {"mount"} \cup AtEnter
AtShape == {"shape"} \cup AtMount

\* A probe that says yes did what it was to do, but for the exceptions.
ProbeInv ==
    /\ autoreap \in BOOLEAN
    /\ unproven \subseteq MayBeUnproven

\* The profile is what the probes gave; it does not change once it is sealed.
ProfileInv ==
    /\ isolated \in BOOLEAN
    /\ Sealed => profile = IF isolated THEN IsolatedGuarantees ELSE HostGuarantees

\* What the stages behind an execution have established.
StageInv ==
    /\ pc \in AtShape => request \in Requests /\ Required(request) \subseteq profile
    /\ pc \in AtMount => IF isolated THEN IsolatedShape(request) ELSE HostShape(request)
    /\ pc \in AtMount \ AtLimits => isolated
    /\ ~isolated => "private_root" \notin got
    /\ pc \in AtEnter /\ isolated => "private_root" \in got
    /\ pc = "network" => policy = request.network
    /\ pc \in AtCapabilities => NetworkIs(request.network)
    /\ pc \in AtLimits /\ isolated => "dropped" \in got
    /\ pc \in AtContain => Settable \subseteq got
    /\ pc \in AtExec => "contained" \in got

BackendInv == NetInv /\ CancelInv /\ ProbeInv /\ ProfileInv /\ StageInv
=============================================================================
