--------------------------- MODULE BackendProofs ----------------------------
(***************************************************************************)
(* A backend keeps what its profile says, for every host, every set of     *)
(* requests, every set of links and any number of changes of what the host *)
(* grants.  The invariant is proved part by part: the network namespace,   *)
(* the cancellation probe, the probes' verdicts, the profile, the stages.  *)
(***************************************************************************)
EXTENDS Backend, FiniteSetTheorems, TLAPS

(***************************************************************************)
(* setup_network_policy.                                                   *)
(***************************************************************************)
\* A namespace with one link and one loopback has nothing but the loopback.
LEMMA LoopbackIsAll ==
    ASSUME IsFiniteSet(links), OnlyLoopback
    PROVE  \A l \in links : l.loopback
<1>1. PICK x : links = {x}
  BY Zenon, FS_Singleton DEF OnlyLoopback
<1>2. IsFiniteSet(Loopbacks)
  BY Zenon, FS_Subset DEF Loopbacks
<1>3. PICK y : Loopbacks = {y}
  BY Zenon, <1>2, FS_Singleton DEF OnlyLoopback
<1>4. y \in links /\ y.loopback
  BY Zenon, <1>3 DEF Loopbacks
<1> QED
  BY Zenon, <1>1, <1>4

\* The tests of snapshot_matches give what the policy promises.
LEMMA MatchIsThePolicy ==
    ASSUME IsFiniteSet(links), SnapshotMatches, private
    PROVE  NetworkIs(policy)
<1>1. \A l \in links : l.loopback
  BY Zenon, LoopbackIsAll DEF SnapshotMatches
<1>2. \A l \in links : l.up = WantsUp
  BY Zenon, <1>1 DEF SnapshotMatches, Loopbacks
<1> QED
  BY Zenon, <1>1, <1>2 DEF NetworkIs, WantsUp

\* Configuring the links leaves finitely many.
LEMMA SetLinkUpIsFinite ==
    ASSUME NetInv, SetLinkUp
    PROVE  IsFiniteSet(links')
<1>1. CASE links' = {[l EXCEPT !.up = IF l.loopback THEN WantsUp ELSE @] : l \in links}
  <2> DEFINE f == [l \in links |-> [l EXCEPT !.up = IF l.loopback THEN WantsUp ELSE @]]
  <2>1. links' = {f[l] : l \in links}
    BY Zenon, <1>1
  <2>2. f \in Surjection(links, links')
    BY Zenon, <2>1 DEF Surjection
  <2> QED
    BY Zenon, <2>2, FS_Surjection DEF NetInv
<1>2. CASE UNCHANGED links
  BY Zenon, <1>2 DEF NetInv
<1> QED
  BY Zenon, <1>1, <1>2 DEF SetLinkUp

\* setup_network_policy keeps the invariant of the namespace.
LEMMA NetStepKeeps ==
    ASSUME NetInv, NEW granted, NetStep(granted)
    PROVE  NetInv'
<1>1. CASE Unshare(granted)
  BY Zenon, <1>1, ViewAssumption DEF Unshare, NetInv, NetworkIs
<1>2. CASE InspectLinks
  BY Zenon, <1>2 DEF InspectLinks, NetInv, NetworkIs
<1>3. CASE SetLinkUp
  <2>1. IsFiniteSet(links')
    BY Zenon, <1>3, SetLinkUpIsFinite
  <2>2. private /\ UNCHANGED <<host_links, policy, private>>
    BY Zenon, <1>3 DEF SetLinkUp, NetInv
  <2>3. step' \in {"verify", "failed"}
    BY Zenon, <1>3 DEF SetLinkUp
  <2> QED
    BY Zenon, <2>1, <2>2, <2>3 DEF NetInv
<1>4. CASE VerifyLinks
  <2>1. SnapshotMatches => NetworkIs(policy)
    BY Zenon, <1>4, MatchIsThePolicy DEF VerifyLinks, NetInv
  <2> QED
    BY Zenon, <1>4, <2>1 DEF VerifyLinks, NetInv, NetworkIs
<1> QED
  BY Zenon, <1>1, <1>2, <1>3, <1>4 DEF NetStep

\* No step of setup_network_policy changes a link of the host.
LEMMA NetStepKeepsTheHost ==
    ASSUME NetInv, NEW granted, NetStep(granted)
    PROVE  UNCHANGED host_links
BY Zenon DEF NetStep, NetInv, Unshare, InspectLinks, SetLinkUp, VerifyLinks

\* A process that enters or leaves starts from the host's links.
LEMMA EnterKeeps ==
    ASSUME NetInv, NEW p, SetupNetwork(p) \/ LeaveNetwork
    PROVE  NetInv'
BY Zenon DEF NetInv, SetupNetwork, LeaveNetwork, NetworkIs

(***************************************************************************)
(* probe_pidfd_cancellation.                                               *)
(***************************************************************************)
\* The probe, its processes and the signals keep the invariant of the probe.
LEMMA CancelKeeps ==
    ASSUME CancelInv,
           \/ BeginCancellationProbe \/ ProbeStep \/ ProbedStep \/ LeaderKilled
           \/ EndCancellationProbe
    PROVE  CancelInv'
<1> USE DEF CancelInv, LeaderAlive, MemberInGroup, inherited
<1>1. CASE BeginCancellationProbe
  BY Zenon, <1>1 DEF BeginCancellationProbe
<1>2. CASE EndCancellationProbe
  BY Zenon, <1>2 DEF EndCancellationProbe
<1>3. CASE LeaderKilled
  BY Zenon, <1>3 DEF LeaderKilled, LeaderEnds
<1>4. CASE LeaderSession \/ LeaderForks \/ LeaderReady
  BY <1>4 DEF LeaderSession, LeaderForks, LeaderReady, LeaderEnds
<1>5. CASE TermTakesEffect \/ MemberReaped
  BY <1>5 DEF TermTakesEffect, MemberReaped, LeaderEnds
<1>6. CASE ReadReady \/ OpenLeader \/ Abandon
  BY <1>6 DEF ReadReady, OpenLeader, Abandon
<1>7. CASE SignalMembers \/ SignalLeader \/ PollLeader
  BY <1>7 DEF SignalMembers, SignalLeader, PollLeader
<1>8. CASE WaitMembers \/ ObserveLeader \/ ReapLeader
  BY Zenon, <1>8 DEF WaitMembers, ObserveLeader, ReapLeader, CancellationVerdict
<1> QED
  BY Zenon, <1>1, <1>2, <1>3, <1>4, <1>5, <1>6, <1>7, <1>8 DEF ProbeStep, ProbedStep

(***************************************************************************)
(* A step of the backend, part by part.                                    *)
(***************************************************************************)
\* The steps that leave the probes' variables, or the namespace, as they were.
LEMMA OutsideTheProbe ==
    ASSUME UNCHANGED probevars
    PROVE  (CancelInv <=> CancelInv') /\ UNCHANGED <<autoreap, missed>>
BY Zenon DEF probevars, CancelInv, LeaderAlive, MemberInGroup

LEMMA OutsideTheNetwork ==
    ASSUME UNCHANGED netvars
    PROVE  NetInv <=> NetInv'
BY Zenon DEF netvars, NetInv, NetworkIs

\* Which steps concern the namespace: a probe or the child enters, configures or
\* leaves one, and no other step touches it.
LEMMA NetworkSteps ==
    ASSUME [Next]_vars
    PROVE  \/ UNCHANGED netvars
           \/ \E granted : NetStep(granted)
           \/ \E p : SetupNetwork(p)
           \/ LeaveNetwork
<1>1. CASE UNCHANGED vars
  BY Zenon, <1>1 DEF vars
<1>2. CASE ProbeContainment \/ ProbeFileSize \/ ProbeOpenFiles \/ ProbeDrop
  BY Zenon, <1>2 DEF ProbeContainment, ProbeFileSize, ProbeOpenFiles, ProbeDrop, ProbeIn, beside
<1>3. CASE ProbeDescriptor \/ ProbeFilesystem \/ SealProfile
  BY Zenon, <1>3 DEF ProbeDescriptor, ProbeFilesystem, SealProfile, beside
<1>4. CASE \/ ProbeCancellation \/ CancellationProbed \/ CancellationProbeProcesses
           \/ ProbeIsKilled \/ HostChanges
  BY Zenon, <1>4 DEF ProbeCancellation, CancellationProbed, CancellationProbeProcesses,
     ProbeIsKilled, HostChanges
<1>5. CASE ProbeNetwork
  BY Zenon, <1>5 DEF ProbeNetwork
<1>6. CASE NetworkStep
  BY Zenon, <1>6 DEF NetworkStep
<1>7. CASE NetworkProbed
  BY Zenon, <1>7 DEF NetworkProbed
<1>8. CASE EnterNetwork
  BY Zenon, <1>8 DEF EnterNetwork
<1>9. CASE Execute \/ CheckShape \/ NetworkStage
  BY Zenon, <1>9 DEF Execute, CheckShape, NetworkStage, beside
<1>10. CASE MountStage \/ DropStage \/ LimitStage \/ ContainStage \/ ExecStage
  BY Zenon, <1>10 DEF MountStage, DropStage, LimitStage, ContainStage, ExecStage, Stage, beside
<1> QED
  BY Zenon, <1>1, <1>2, <1>3, <1>4, <1>5, <1>6, <1>7, <1>8, <1>9, <1>10
     DEF Next, Probing, Executing

\* The namespace's part of the invariant, and the host's links.
LEMMA NetworkKept ==
    ASSUME NetInv, [Next]_vars
    PROVE  NetInv' /\ UNCHANGED host_links
<1>1. CASE UNCHANGED netvars
  BY Zenon, <1>1, OutsideTheNetwork DEF netvars
<1>2. CASE \E granted : NetStep(granted)
  BY Zenon, <1>2, NetStepKeeps, NetStepKeepsTheHost
<1>3. CASE \E p : SetupNetwork(p)
  BY Zenon, <1>3, EnterKeeps DEF SetupNetwork
<1>4. CASE LeaveNetwork
  BY Zenon, <1>4, EnterKeeps DEF LeaveNetwork
<1> QED
  BY Zenon, <1>1, <1>2, <1>3, <1>4, NetworkSteps

\* Which steps concern the cancellation probe.
LEMMA CancellationSteps ==
    ASSUME [Next]_vars
    PROVE  \/ UNCHANGED probevars
           \/ /\ pc = "cancellation"
              /\ \/ BeginCancellationProbe \/ ProbeStep \/ ProbedStep \/ LeaderKilled
                 \/ EndCancellationProbe
<1>1. CASE UNCHANGED vars
  BY Zenon, <1>1 DEF vars
<1>2. CASE ProbeContainment \/ ProbeFileSize \/ ProbeOpenFiles \/ ProbeDrop
  BY Zenon, <1>2 DEF ProbeContainment, ProbeFileSize, ProbeOpenFiles, ProbeDrop, ProbeIn, beside
<1>3. CASE ProbeDescriptor \/ ProbeFilesystem \/ SealProfile
  BY Zenon, <1>3 DEF ProbeDescriptor, ProbeFilesystem, SealProfile, beside
<1>4. CASE \/ ProbeCancellation \/ CancellationProbed \/ CancellationProbeProcesses
           \/ ProbeIsKilled
  BY Zenon, <1>4 DEF ProbeCancellation, CancellationProbed, CancellationProbeProcesses,
     ProbeIsKilled
<1>5. CASE ProbeNetwork \/ NetworkStep \/ NetworkProbed \/ EnterNetwork \/ HostChanges
  BY Zenon, <1>5 DEF ProbeNetwork, NetworkStep, NetworkProbed, EnterNetwork, HostChanges
<1>6. CASE Execute \/ CheckShape \/ NetworkStage
  BY Zenon, <1>6 DEF Execute, CheckShape, NetworkStage, beside
<1>7. CASE MountStage \/ DropStage \/ LimitStage \/ ContainStage \/ ExecStage
  BY Zenon, <1>7 DEF MountStage, DropStage, LimitStage, ContainStage, ExecStage, Stage, beside
<1> QED
  BY Zenon, <1>1, <1>2, <1>3, <1>4, <1>5, <1>6, <1>7 DEF Next, Probing, Executing

\* The cancellation probe's part of the invariant; how the host treats its
\* children does not change, and what was missed is not forgotten.
LEMMA CancellationKept ==
    ASSUME CancelInv, [Next]_vars
    PROVE  CancelInv' /\ UNCHANGED autoreap /\ missed \subseteq missed'
<1>1. CancelInv'
  BY Zenon, CancellationSteps, CancelKeeps, OutsideTheProbe
<1>2. UNCHANGED autoreap /\ missed \subseteq missed'
  <2>1. CASE UNCHANGED probevars
    BY Zenon, <2>1 DEF probevars
  <2>2. CASE BeginCancellationProbe \/ LeaderKilled \/ EndCancellationProbe
    BY Zenon, <2>2 DEF BeginCancellationProbe, LeaderKilled, EndCancellationProbe, inherited
  <2>3. CASE ProbedStep
    BY Zenon, <2>3 DEF ProbedStep, LeaderSession, LeaderForks, LeaderReady, TermTakesEffect,
       MemberReaped, inherited
  <2>4. CASE ProbeStep
    BY Zenon, <2>4 DEF ProbeStep, ReadReady, OpenLeader, Abandon, SignalMembers, SignalLeader,
       PollLeader, WaitMembers, ObserveLeader, ReapLeader, inherited
  <2> QED
    BY Zenon, <2>1, <2>2, <2>3, <2>4, CancellationSteps
<1> QED
  BY Zenon, <1>1, <1>2

(***************************************************************************)
(* The verdicts of the probes.                                             *)
(***************************************************************************)
\* The exceptions stay exceptions.
LEMMA ExceptionsStay ==
    ASSUME CancelInv, [Next]_vars
    PROVE  MayBeUnproven \subseteq MayBeUnproven'
<1>1. UNCHANGED autoreap /\ (missed # {} => missed' # {})
  BY Zenon, CancellationKept
<1>2. Given(autoreap, TrustStatus) = Given(autoreap, TrustStatus)'
  BY Zenon, <1>1 DEF Given, TrustStatus, LimitKinds
<1>3. Given(missed # {}, {"cancellation"}) \subseteq Given(missed # {}, {"cancellation"})'
  BY Zenon, <1>1 DEF Given
<1> QED
  BY Zenon, <1>2, <1>3 DEF MayBeUnproven

\* A probe whose child was not reaped by the host proves what it says.
LEMMA StatusProbeKeeps ==
    ASSUME BackendInv, Next, NEW name \in TrustStatus, NEW says, NEW did,
           Note(name, says, did), says => did \/ autoreap
    PROVE  ProbeInv'
<1>1. UNCHANGED autoreap /\ autoreap \in BOOLEAN
  BY Zenon, CancellationKept DEF BackendInv, ProbeInv
<1>2. unproven \subseteq MayBeUnproven'
  BY Zenon, ExceptionsStay DEF BackendInv, ProbeInv
<1>3. autoreap => name \in MayBeUnproven'
  BY Zenon, <1>1 DEF MayBeUnproven, Given, TrustStatus, LimitKinds
<1>4. unproven' = unproven \/ (unproven' = unproven \cup {name} /\ autoreap)
  BY Zenon DEF Note
<1> QED
  BY Zenon, <1>1, <1>2, <1>3, <1>4 DEF ProbeInv

\* The probes that only look at the status of one child.
LEMMA ForkedProbeKeeps ==
    ASSUME BackendInv, Next, NEW name \in TrustStatus, NEW features, NEW next,
           ProbeIn(name, features, next)
    PROVE  ProbeInv'
<1>1. PICK end \in Endings(features) : Note(name, StatusIsZero(end), end = "done")
  BY Zenon DEF ProbeIn
<1> QED
  BY Zenon, <1>1, StatusProbeKeeps DEF StatusIsZero

\* Every probe of make() adds nothing unproven but the exceptions; the network
\* probes never do.
LEMMA ProbingKeepsProof ==
    ASSUME BackendInv, Probing
    PROVE  ProbeInv'
<1>0. Next
  BY Zenon DEF Next
<1>t. TrustStatus = {"containment", "drop", "filesystem", "file_size", "open_files"}
  BY Zenon DEF TrustStatus, LimitKinds
<1>1. CASE ProbeContainment
  BY Zenon, <1>0, <1>1, <1>t, ForkedProbeKeeps DEF ProbeContainment
<1>2. CASE ProbeFileSize
  BY Zenon, <1>0, <1>2, <1>t, ForkedProbeKeeps DEF ProbeFileSize
<1>3. CASE ProbeOpenFiles
  BY Zenon, <1>0, <1>3, <1>t, ForkedProbeKeeps DEF ProbeOpenFiles
<1>4. CASE ProbeDrop
  BY Zenon, <1>0, <1>4, <1>t, ForkedProbeKeeps DEF ProbeDrop
<1>5. CASE ProbeFilesystem
  <2>1. PICK one, two \in Endings({"mount", "capset"}), removed \in BOOLEAN :
          Note("filesystem", StatusIsZero(one) /\ StatusIsZero(two) /\ removed,
               one = "done" /\ two = "done" /\ removed)
    BY Zenon, <1>5 DEF ProbeFilesystem
  <2>2. StatusIsZero(one) /\ StatusIsZero(two) /\ removed =>
          (one = "done" /\ two = "done" /\ removed) \/ autoreap
    BY Zenon DEF StatusIsZero
  <2> QED
    BY Zenon, <1>0, <1>t, <2>1, <2>2, StatusProbeKeeps
<1>6. CASE ProbeDescriptor \/ NetworkProbed \/ ProbeCancellation \/ ProbeNetwork
           \/ NetworkStep \/ SealProfile
  <2>1. unproven' = unproven
    BY Zenon, <1>6 DEF ProbeDescriptor, NetworkProbed, NetworkVerdict, Note, ProbeCancellation,
       ProbeNetwork, NetworkStep, SealProfile
  <2> QED
    BY Zenon, <1>0, <2>1, ExceptionsStay, CancellationKept DEF BackendInv, ProbeInv
<1>7. CASE CancellationProbed
  <2>1. at = "yes" => cause = "term" /\ (~MemberInGroup \/ missed # {})
    BY Zenon DEF BackendInv, CancelInv
  <2>2. UNCHANGED <<autoreap, missed>>
    BY Zenon, <1>7 DEF CancellationProbed, EndCancellationProbe
  <2>3. unproven' = unproven \/ (unproven' = unproven \cup {"cancellation"} /\ missed # {})
    BY Zenon, <1>7, <2>1 DEF CancellationProbed, Note
  <2> QED
    BY Zenon, <2>2, <2>3 DEF BackendInv, ProbeInv, MayBeUnproven, Given
<1> QED
  BY Zenon, <1>1, <1>2, <1>3, <1>4, <1>5, <1>6, <1>7 DEF Probing

\* No other step adds to what is unproven.
LEMMA ProofKept ==
    ASSUME BackendInv, [Next]_vars
    PROVE  ProbeInv'
<1>1. CASE Probing
  BY Zenon, <1>1, ProbingKeepsProof
<1>2. CASE ~Probing
  <2>1. UNCHANGED unproven
    BY Zenon, <1>2 DEF Next, vars, CancellationProbeProcesses, ProbeIsKilled, HostChanges,
       Executing, Execute, CheckShape, MountStage, EnterNetwork, NetworkStage, DropStage,
       LimitStage, ContainStage, ExecStage, Stage
  <2> QED
    BY Zenon, <2>1, ExceptionsStay, CancellationKept DEF BackendInv, ProbeInv
<1> QED
  BY Zenon, <1>1, <1>2

(***************************************************************************)
(* The profile and the stages.                                             *)
(***************************************************************************)
\* While make() probes there is no execution, and nothing is established.
LEMMA StillProbing ==
    ASSUME Probing, ~SealProfile, pc # "network"
    PROVE  ~Sealed /\ ~Sealed' /\ UNCHANGED <<isolated, got, profile>>
<1> USE DEF Sealed, Ended
<1>1. CASE ProbeContainment \/ ProbeFileSize \/ ProbeOpenFiles \/ ProbeDrop
  BY Zenon, <1>1 DEF ProbeContainment, ProbeFileSize, ProbeOpenFiles, ProbeDrop, ProbeIn, Note,
     beside
<1>2. CASE ProbeDescriptor \/ ProbeFilesystem
  BY Zenon, <1>2 DEF ProbeDescriptor, ProbeFilesystem, Note, beside
<1>3. CASE ProbeCancellation \/ CancellationProbed
  BY Zenon, <1>3 DEF ProbeCancellation, CancellationProbed, Note
<1>4. CASE ProbeNetwork \/ NetworkStep \/ NetworkProbed
  BY Zenon, <1>4 DEF ProbeNetwork, NetworkStep, NetworkProbed, Note, Policies
<1> QED
  BY Zenon, <1>1, <1>2, <1>3, <1>4 DEF Probing

\* The steps that are not an execution's.
LEMMA BesideAnExecution ==
    ASSUME Next, ~Executing, ~SealProfile, ~Probing \/ pc = "network"
    PROVE  /\ UNCHANGED <<isolated, found, profile, request, got, pc, policy>>
           /\ pc # "network" => UNCHANGED netvars
<1>1. CASE Probing
  <2>1. pc = "network"
    BY Zenon, <1>1
  <2>2. NetworkStep
    BY Zenon, <1>1, <2>1 DEF Probing, ProbeContainment, ProbeFileSize, ProbeOpenFiles, ProbeDrop,
       ProbeIn, ProbeDescriptor, ProbeFilesystem, ProbeCancellation, CancellationProbed,
       ProbeNetwork, NetworkProbed, Policies
  <2> QED
    BY Zenon, <2>1, <2>2 DEF NetworkStep, NetStep, Unshare, InspectLinks, SetLinkUp, VerifyLinks
<1>2. CASE CancellationProbeProcesses \/ ProbeIsKilled \/ HostChanges
  BY Zenon, <1>2 DEF CancellationProbeProcesses, ProbeIsKilled, HostChanges, netvars
<1> QED
  BY Zenon, <1>1, <1>2 DEF Next

\* The profile stays what the probes gave.
LEMMA ProfileKept ==
    ASSUME BackendInv, [Next]_vars
    PROVE  ProfileInv'
<1> USE DEF BackendInv, ProfileInv
<1>1. CASE Probing /\ ~SealProfile /\ pc # "network"
  BY Zenon, <1>1, StillProbing
<1>2. CASE SealProfile
  BY <1>2 DEF SealProfile, beside, IsolatedGuarantees, HostGuarantees, LimitGuarantees
<1>3. CASE Next /\ ~Executing /\ ~SealProfile /\ (~Probing \/ pc = "network")
  BY <1>3, BesideAnExecution DEF Sealed, Ended, IsolatedGuarantees, HostGuarantees,
     LimitGuarantees
<1>4. CASE Executing
  <2>1. UNCHANGED <<isolated, found, profile>> /\ Sealed
    BY Zenon, <1>4 DEF Executing, Execute, CheckShape, MountStage, EnterNetwork, NetworkStage,
       DropStage, LimitStage, ContainStage, ExecStage, Stage, beside, Sealed
  <2> QED
    BY <2>1 DEF IsolatedGuarantees, HostGuarantees, LimitGuarantees
<1>5. CASE UNCHANGED vars
  BY <1>5 DEF vars, Sealed, Ended, IsolatedGuarantees, HostGuarantees, LimitGuarantees
<1> QED
  BY Zenon, <1>1, <1>2, <1>3, <1>4, <1>5 DEF Next

\* Every stage of the child establishes its part or ends the execution.
LEMMA StagesKept ==
    ASSUME BackendInv, [Next]_vars
    PROVE  StageInv'
<1> USE DEF BackendInv, StageInv, AtShape, AtMount, AtEnter, AtCapabilities, AtLimits,
            AtContain, AtExec
<1>1. CASE Probing /\ ~SealProfile /\ pc # "network"
  BY Zenon, <1>1, StillProbing DEF Sealed, Ended
<1>2. CASE SealProfile
  BY Zenon, <1>2 DEF SealProfile, beside
<1>3. CASE Next /\ ~Executing /\ ~SealProfile /\ (~Probing \/ pc = "network")
  BY <1>3, BesideAnExecution DEF netvars, NetworkIs, Required, IsolatedShape, HostShape,
     Settable
<1>4. CASE Execute
  BY Zenon, <1>4 DEF Execute, beside
<1>5. CASE CheckShape
  BY Zenon, <1>5 DEF CheckShape, beside, ProfileInv, HostShape, NetworkIs
<1>6. CASE MountStage
  BY Zenon, <1>6 DEF MountStage, Stage, beside
<1>7. CASE EnterNetwork
  BY Zenon, <1>7 DEF EnterNetwork, SetupNetwork
<1>8. CASE NetworkStage
  BY Zenon, <1>8 DEF NetworkStage, beside, netvars, NetInv, NetworkIs
<1>9. CASE DropStage
  BY Zenon, <1>9 DEF DropStage, Stage, beside, netvars, NetworkIs
<1>10. CASE LimitStage
  BY Zenon, <1>10 DEF LimitStage, Stage, Settable, LimitKinds, beside, netvars, NetworkIs
<1>11. CASE ContainStage
  BY Zenon, <1>11 DEF ContainStage, Stage, Settable, beside, netvars, NetworkIs
<1>12. CASE ExecStage
  BY Zenon, <1>12 DEF ExecStage, Stage, Settable, beside, netvars, NetworkIs
<1>13. CASE UNCHANGED vars
  BY Zenon, <1>13 DEF vars, netvars, Settable, NetworkIs, Required, IsolatedShape, HostShape
<1> QED
  BY Zenon, <1>1, <1>2, <1>3, <1>4, <1>5, <1>6, <1>7, <1>8, <1>9, <1>10, <1>11, <1>12, <1>13
     DEF Next, Executing

(***************************************************************************)
(* The theorems.                                                           *)
(***************************************************************************)
\* The invariant holds where make() starts.
LEMMA BackendInvInit == Init => BackendInv
<1> SUFFICES ASSUME Init PROVE BackendInv
  BY Zenon
<1>1. NetInv
  BY Zenon, ViewAssumption DEF Init, NetInit, NetInv
<1>2. CancelInv
  BY Zenon DEF Init, ProbeInit, CancelInv, MemberInGroup
<1>3. ProbeInv /\ ProfileInv /\ StageInv
  BY Zenon DEF Init, ProbeInit, ProbeInv, ProfileInv, StageInv, Sealed, Ended, AtShape, AtMount,
     AtEnter, AtCapabilities, AtLimits, AtContain, AtExec
<1> QED
  BY Zenon, <1>1, <1>2, <1>3 DEF BackendInv

\* A backend always satisfies its inductive invariant.
THEOREM BackendInvariant == Spec => []BackendInv
<1>1. BackendInv /\ [Next]_vars => BackendInv'
  BY Zenon, NetworkKept, CancellationKept, ProofKept, ProfileKept, StagesKept DEF BackendInv
<1> QED
  BY <1>1, BackendInvInit, PTL DEF Spec

\* Neither make() nor execute() configures a link of the host's namespace,
\* whatever the kernel refuses on the way (network_isolation.cpp:321-345).
THEOREM HostNetworkAlwaysKept == Spec => HostNetworkIsKept
<1>1. BackendInv /\ [Next]_vars => [UNCHANGED host_links]_vars
  BY Zenon, NetworkKept DEF BackendInv
<1> QED
  BY <1>1, BackendInvariant, PTL DEF Spec, HostNetworkIsKept

\* Every limit a covered request names is one the child installs.
LEMMA CoveredLimits ==
    ASSUME ProfileInv, Sealed, request \in Requests, Required(request) \subseteq profile
    PROVE  request.limits \subseteq LimitKinds
<1> SUFFICES ASSUME NEW k \in request.limits PROVE k \in LimitKinds
  BY Zenon
<1>1. k \in LimitKinds \cup {"cpu_time"}
  BY Zenon, BackendAssumption DEF RequestType
<1>2. k \in profile
  BY Zenon DEF Required, Given
<1>3. "cpu_time" \notin profile
  BY DEF ProfileInv, IsolatedGuarantees, HostGuarantees, LimitGuarantees, Always, Given,
     LimitKinds
<1> QED
  BY Zenon, <1>1, <1>2, <1>3

\* A program runs only with all its request asks for, on every host, however
\* what the host grants has changed since the profile was sealed.
THEOREM ProgramRunsAsRequired == Spec => []RunsAsRequired
<1>1. BackendInv => RunsAsRequired
  <2> SUFFICES ASSUME BackendInv, pc = "program" PROVE RunsAsRequired
    BY Zenon DEF RunsAsRequired
  <2> USE DEF BackendInv, StageInv, AtShape, AtMount, AtEnter, AtCapabilities, AtLimits,
              AtContain, AtExec
  <2>1. request \in RequestType
    BY Zenon, BackendAssumption
  <2>2. NetworkIs(request.network) /\ "contained" \in got /\ (isolated => "dropped" \in got)
    BY Zenon
  <2>3. request.limits \subseteq got
    BY Zenon, CoveredLimits DEF Sealed, Ended, Settable
  <2>4. request.credentials = "current"
    BY Zenon DEF IsolatedShape, HostShape
  <2>5. isolated \in BOOLEAN /\ request.root \in {"current", "view"}
    BY Zenon, <2>1 DEF ProfileInv, RequestType
  <2>6. ("private_root" \in got) = (request.root = "view")
    BY <2>5 DEF IsolatedShape, HostShape
  <2>7. request.read_only => "private_root" \in got
    BY Zenon, <2>5 DEF IsolatedShape, HostShape
  <2> QED
    BY Zenon, <2>2, <2>3, <2>4, <2>6, <2>7 DEF RunsAsRequired
<1> QED
  BY <1>1, BackendInvariant, PTL

\* What the sealed profile advertises was probed, and the probes were carried out
\* to the end, but for those that do not test waitpid in a host that reaps their
\* children, and cancellation where /proc/PID/stat cannot be read.
THEOREM ProfileIsProven == Spec => []AdvertisedIsProven
<1>1. BackendInv => AdvertisedIsProven
  <2> SUFFICES ASSUME BackendInv, Sealed PROVE AdvertisedIsProven
    BY Zenon DEF AdvertisedIsProven
  <2>1. unproven \subseteq MayBeUnproven
    BY Zenon DEF BackendInv, ProbeInv
  <2>2. ASSUME NEW g \in profile \cap DOMAIN Proof PROVE Proof[g] \subseteq found
    <3>1. profile = IF isolated THEN IsolatedGuarantees ELSE HostGuarantees
      BY Zenon DEF BackendInv, ProfileInv
    <3>2. CASE isolated
      BY <2>2, <3>1, <3>2 DEF IsolatedGuarantees, LimitGuarantees, Always, Given, Proof,
         LimitKinds
    <3>3. CASE ~isolated
      BY <2>2, <3>1, <3>3 DEF HostGuarantees, LimitGuarantees, Always, Given, Proof,
         LimitKinds
    <3> QED
      BY Zenon, <3>2, <3>3
  <2> QED
    BY Zenon, <2>1, <2>2 DEF AdvertisedIsProven
<1> QED
  BY <1>1, BackendInvariant, PTL
=============================================================================
