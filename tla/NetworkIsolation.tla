-------------------------- MODULE NetworkIsolation --------------------------
(***************************************************************************)
(* setup_network_policy: a process moves into a network namespace of its   *)
(* own and leaves the loopback as its only link, up or down.  It runs in   *)
(* the child of a probe and in the leader of an isolated execution.        *)
(*                                                                         *)
(* The route socket answers one request at a time, so a dump and an        *)
(* acknowledged change are one step each; what a step may not do is fail   *)
(* and go on.                                                              *)
(***************************************************************************)
EXTENDS Naturals, FiniteSets

CONSTANTS
    HostViews,      \* the sets of links a host may have
    FreshViews,     \* the sets of links of a new network namespace
    NetFaults       \* calls that may fail by themselves: route, link

VARIABLES
    host_links,     \* the links of the host's namespace
    policy,         \* network_policy: allowed, denied or loopback_only
    step,           \* idle, unshare, inspect, configure, verify, ready, failed
    private,        \* the process has left the host's namespace
    links           \* the links the process sees

netvars == <<host_links, policy, step, private, links>>

\* A link is its name, whether it is a loopback, and whether it is up.
Link(name, loopback, up) == [name |-> name, loopback |-> loopback, up |-> up]

ASSUME ViewAssumption ==
    \A view \in HostViews \cup FreshViews :
      /\ IsFiniteSet(view)
      /\ \A l \in view : l = Link(l.name, l.loopback, l.up)

NetInit ==
    /\ host_links \in HostViews
    /\ policy = "allowed" /\ step = "idle" /\ private = FALSE
    /\ links = host_links

\* A forked process calls setup_network_policy(p).
SetupNetwork(p) ==
    /\ policy' = p
    /\ step' = IF p = "allowed" THEN "ready" ELSE "unshare"
    /\ private' = FALSE
    /\ links' = host_links
    /\ UNCHANGED host_links

\* The process that called it is gone.
LeaveNetwork == step' = "idle" /\ private' = FALSE /\ links' = host_links
                /\ UNCHANGED <<host_links, policy>>

\* Faulty: going on in the host's namespace when a new one is not granted.
Unshare_Ignored(granted) ==
    /\ step = "unshare"
    /\ step' = "inspect"
    /\ IF granted THEN private' = TRUE /\ links' \in FreshViews
                  ELSE UNCHANGED <<private, links>>
    /\ UNCHANGED <<host_links, policy>>

\* unshare(CLONE_NEWNET)
Unshare(granted) ==
    /\ step = "unshare"
    /\ \/ /\ granted
          /\ step' = "inspect" /\ private' = TRUE /\ links' \in FreshViews
       \/ /\ ~granted
          /\ step' = "failed" /\ UNCHANGED <<private, links>>
    /\ UNCHANGED <<host_links, policy>>

Loopbacks == {l \in links : l.loopback}

\* The count tests on a link_snapshot.
OnlyLoopback == Cardinality(links) = 1 /\ Cardinality(Loopbacks) = 1

\* open_route_socket, inspect_links and the test of the initial snapshot.
InspectLinks ==
    /\ step = "inspect"
    /\ \/ step' = IF OnlyLoopback THEN "configure" ELSE "failed"
       \/ "route" \in NetFaults /\ step' = "failed"
    /\ UNCHANGED <<host_links, policy, private, links>>

WantsUp == policy = "loopback_only"

\* set_link_up with the acknowledgement.
SetLinkUp ==
    /\ step = "configure"
    /\ \/ /\ step' = "verify"
          /\ links' = {[l EXCEPT !.up = IF l.loopback THEN WantsUp ELSE @] : l \in links}
          /\ host_links' = IF private THEN host_links ELSE links'
       \/ /\ "link" \in NetFaults
          /\ step' = "failed" /\ UNCHANGED <<links, host_links>>
    /\ UNCHANGED <<policy, private>>

\* snapshot_matches on the second dump.
SnapshotMatches == OnlyLoopback /\ \A l \in Loopbacks : l.up = WantsUp

VerifyLinks ==
    /\ step = "verify"
    /\ \/ step' = IF SnapshotMatches THEN "ready" ELSE "failed"
       \/ "route" \in NetFaults /\ step' = "failed"
    /\ UNCHANGED <<host_links, policy, private, links>>

NetStep(granted) == Unshare(granted) \/ InspectLinks \/ SetLinkUp \/ VerifyLinks

\* What the policy promises of the links a program sees.
NetworkIs(p) ==
    p # "allowed" =>
      /\ private
      /\ \A l \in links : l.loopback /\ l.up = (p = "loopback_only")

\* Inductive: links are looked at and changed only in a namespace of one's own,
\* and who gets through has what the policy promises.
NetInv ==
    /\ step \in {"inspect", "configure", "verify"} => private
    /\ IsFiniteSet(links) /\ IsFiniteSet(host_links)
    /\ step = "ready" => NetworkIs(policy)
=============================================================================
