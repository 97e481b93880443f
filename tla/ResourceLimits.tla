--------------------------- MODULE ResourceLimits ---------------------------
(***************************************************************************)
(* Resource limits of a process of the backend: the leader of an execution *)
(* (setup_resource_limits, then the containment filter, then the program)  *)
(* or the child of a capability probe (probe_one).  Whether a change of a  *)
(* limit passes the filter is decided by running its program.              *)
(***************************************************************************)
EXTENDS ContainmentFilter

CONSTANTS
    MaxRlim,        \* the largest rlim_t, which is RLIM_INFINITY
    Values,         \* requested values; some may not fit into rlim_t
    HardLimits,     \* inherited hard limits
    Preferred,      \* the value a probe tries first
    None,           \* std::nullopt
    LimitFaults     \* calls that may fail: fork, getrlimit, setrlimit, containment

Infinity == MaxRlim

ASSUME LimitAssumption ==
    /\ MaxRlim \in Nat /\ Preferred \in 3..(MaxRlim - 1)
    /\ Values \subseteq Nat /\ HardLimits \subseteq 0..MaxRlim
    /\ None \notin Nat

\* The order of setup_resource_limits.
Kinds == <<"address_space", "file_size", "open_files">>
Kind  == {Kinds[i] : i \in DOMAIN Kinds}

ASSUME NoneIsNoKind == None \notin Kind

VARIABLES
    filter,         \* the filters the library was compiled with
    probing,        \* the kind probe_one is about, or None
    privileged,     \* CAP_SYS_RESOURCE: may raise a hard limit
    request,        \* resource_limits: a value or None for each kind
    inherited,      \* history: the limits before the process was set up
    limit,          \* soft (cur) and hard (max) limit of each kind
    sealed,         \* the filter was asked to seal the limits
    phase, next,
    faulted         \* history: a call failed by itself

vars == <<filter, probing, privileged, request, inherited, limit, sealed, phase, next,
          faulted>>

fixed == <<filter, probing, privileged, inherited>>

(***************************************************************************)
(* The kernel.                                                             *)
(***************************************************************************)
Contained == phase \in {"attempt", "program"}

\* setrlimit to a soft and hard value v is allowed.
MaySet(k, v) == /\ Contained => filter[sealed].open
                /\ privileged \/ v <= limit[k].max

SetTo(k, v) == limit' = [limit EXCEPT ![k] = [cur |-> v, max |-> v]]

(***************************************************************************)
(* setup_resource_limits                                                   *)
(***************************************************************************)
\* exact_value
ExactValue(v) == v <= MaxRlim /\ v # Infinity

\* Faulty: the inherited hard limit is left to the kernel to defend.
WithinCeiling_Kernel(k, v) == TRUE

WithinCeiling(k, v) == limit[k].max # Infinity => v <= limit[k].max

Failed(fault) == /\ phase' = "failed" /\ faulted' = fault
                 /\ UNCHANGED <<limit, next>>

\* setup_one for the next kind, if it is requested.
SetupOne ==
    /\ phase = "setup" /\ next <= Len(Kinds)
    /\ LET k == Kinds[next]
           v == request[k]
       IN IF v = None
            THEN next' = next + 1 /\ UNCHANGED <<limit, phase, faulted>>
            ELSE \/ /\ ExactValue(v) /\ WithinCeiling(k, v) /\ MaySet(k, v)
                    /\ SetTo(k, v)
                    /\ next' = next + 1
                    /\ UNCHANGED <<phase, faulted>>
                 \/ /\ ~(ExactValue(v) /\ WithinCeiling(k, v) /\ MaySet(k, v))
                    /\ Failed(FALSE)
                 \/ /\ LimitFaults \cap {"getrlimit", "setrlimit"} # {}
                    /\ Failed(TRUE)
                 \/ /\ "getrlimit" \in LimitFaults   \* the limit is reread
                    /\ ExactValue(v) /\ WithinCeiling(k, v) /\ MaySet(k, v)
                    /\ SetTo(k, v)
                    /\ phase' = "failed" /\ faulted' = TRUE
                    /\ UNCHANGED next
    /\ UNCHANGED <<fixed, request, sealed>>

\* install_process_group_containment(!limits.empty()); a probe always seals.
Seals == probing # None \/ \E k \in Kind : request[k] # None

Contain ==
    /\ phase = "setup" /\ next > Len(Kinds)
    /\ \/ /\ filter[Seals].loads /\ sealed' = Seals
          /\ phase' = IF probing = None THEN "program" ELSE "attempt"
          /\ UNCHANGED <<limit, next, faulted>>
       \/ /\ "containment" \in LimitFaults
          /\ Failed(TRUE)
          /\ UNCHANGED sealed
    /\ UNCHANGED <<fixed, request>>

\* The program, or a process it forked, tries to change a limit.
ProgramSets ==
    /\ phase = "program"
    /\ \E k \in Kind, v \in 0..MaxRlim : MaySet(k, v) /\ SetTo(k, v)
    /\ UNCHANGED <<fixed, request, sealed, phase, next, faulted>>

(***************************************************************************)
(* probe_one                                                               *)
(***************************************************************************)
\* Faulty: the preferred value whatever the inherited limit is.
ProbeValue_Preferred(hard) == Preferred

\* probe_value
ProbeValue(hard) ==
    CASE hard # Infinity /\ Preferred >= hard /\ hard <= 2 -> None
      [] hard # Infinity /\ Preferred >= hard /\ hard > 2  -> hard - 1
      [] OTHER                                             -> Preferred

ChooseProbeValue ==
    /\ phase = "probe"
    /\ LET v == ProbeValue(limit[probing].max) IN
       \/ /\ v = None
          /\ phase' = "failed" /\ UNCHANGED <<request, faulted>>
       \/ /\ v # None
          /\ phase' = "setup" /\ request' = [request EXCEPT ![probing] = v]
          /\ UNCHANGED faulted
       \/ /\ LimitFaults \cap {"fork", "getrlimit"} # {}
          /\ phase' = "failed" /\ faulted' = TRUE
          /\ UNCHANGED request
    /\ UNCHANGED <<fixed, limit, sealed, next>>

\* The probe tries to raise its limit by one and rereads it.
AttemptRaise ==
    /\ phase = "attempt"
    /\ LET raised == (request[probing] + 1) % (MaxRlim + 1) IN
       IF MaySet(probing, raised)
         THEN SetTo(probing, raised) /\ phase' = "failed" /\ UNCHANGED faulted
         ELSE /\ \/ phase' = "supported" /\ UNCHANGED faulted
                 \/ /\ "getrlimit" \in LimitFaults
                    /\ phase' = "failed" /\ faulted' = TRUE
              /\ UNCHANGED limit
    /\ UNCHANGED <<fixed, request, sealed, next>>

Terminated == phase \in {"failed", "supported", "program"} /\ UNCHANGED vars

Unlimited == [k \in Kind |-> None]

Init ==
    /\ filter \in {Installs(build) : build \in Builds}
    /\ privileged \in BOOLEAN
    /\ \E hard \in [Kind -> HardLimits], lowered \in BOOLEAN :
         limit = [k \in Kind |-> [cur |-> IF lowered THEN 0 ELSE hard[k],
                                  max |-> hard[k]]]
    /\ inherited = limit
    /\ sealed = FALSE /\ next = 1 /\ faulted = FALSE
    /\ \/ /\ probing = None /\ phase = "setup"
          /\ request \in [Kind -> Values \cup {None}]
       \/ /\ probing \in Kind /\ phase = "probe"
          /\ request = Unlimited

Next ==
    \/ SetupOne \/ Contain \/ ProgramSets
    \/ ChooseProbeValue \/ AttemptRaise
    \/ Terminated

Spec == Init /\ [][Next]_vars

(***************************************************************************)
(* Properties.                                                             *)
(***************************************************************************)
\* From the start of a program with limits, and whatever it tries, privileged
\* or not, every requested limit is exactly the request and every other one is
\* the inherited one.  The kernel is one that serves no x32 calls: the filter
\* does not test their numbers, setrlimit and prlimit64 among them.
LimitsStayExact ==
    phase = "program" /\ (\E k \in Kind : request[k] # None) =>
        \A k \in Kind :
            limit[k] = IF request[k] = None THEN inherited[k]
                       ELSE [cur |-> request[k], max |-> request[k]]

\* About a call whose number it tests the compiled filter decides as DESIGN.md has
\* it: it denies the ones that would leave the session, group, namespaces or mounts,
\* or change a sealed limit, and lets the others through.  Jump offsets are right in
\* every build, a 64-bit pointer is tested in both halves, and the call number is
\* back in the accumulator after the clone flags were.  Every number it does not
\* test it lets through, whatever the call does: one that old headers did not define
\* (clone3, open_tree, move_mount, mount_setattr) and every x32 number.  DESIGN.md
\* (189-191) makes no such exception.
FilterDecides == Contained => filter[sealed].decides

\* The backend raises no hard limit on the way to the program, not even when it
\* is privileged to.
CeilingIsKept ==
    [][phase # "program" => \A k \in Kind : limit'[k].max <= limit[k].max]_vars

\* A probe says no only because a call failed or the inherited limit leaves no
\* room below it: the value it picks is one setup_one accepts, and the seal
\* holds against the raise.
ProbeFailsForCause ==
    probing # None /\ phase = "failed" =>
        faulted \/ inherited[probing].max <= 2

(***************************************************************************)
(* The inductive invariant.                                                *)
(***************************************************************************)
Rlimits == [cur : 0..MaxRlim, max : 0..MaxRlim]

TypeOK ==
    /\ probing \in Kind \cup {None} /\ privileged \in BOOLEAN
    /\ request \in [Kind -> Nat \cup {None}]
    /\ inherited \in [Kind -> Rlimits] /\ limit \in [Kind -> Rlimits]
    /\ sealed \in BOOLEAN /\ faulted \in BOOLEAN
    /\ phase \in {"probe", "setup", "attempt", "program", "failed", "supported"}
    /\ next \in 1..(Len(Kinds) + 1)

\* The limit of kind k once setup_one was done with it.
Settled(k) == IF request[k] = None THEN inherited[k]
              ELSE [cur |-> request[k], max |-> request[k]]

\* setup_resource_limits goes through the kinds in their order; from then on the
\* seal keeps what it left.
SetupInv ==
    /\ phase = "probe" => next = 1 /\ limit = inherited /\ request = Unlimited
    /\ phase = "setup" =>
         \A i \in DOMAIN Kinds :
           limit[Kinds[i]] = IF i < next THEN Settled(Kinds[i]) ELSE inherited[Kinds[i]]
    /\ Contained => sealed = Seals
    /\ Contained /\ sealed => \A k \in Kind : limit[k] = Settled(k)

\* A probe asks for one limit, at a value it can have.
ProbeInv ==
    /\ probing = None => phase \in {"setup", "program", "failed"}
    /\ probing # None /\ phase \in {"setup", "attempt"} =>
         request = [Unlimited EXCEPT ![probing] = ProbeValue(inherited[probing].max)]
    /\ probing # None => phase # "program"
    /\ probing # None /\ phase \in {"setup", "attempt"} => request[probing] # None
    /\ ProbeFailsForCause

IsBuilt == \E build \in Builds : filter = Installs(build)

LimitInv == IsBuilt /\ TypeOK /\ SetupInv /\ ProbeInv
=============================================================================
