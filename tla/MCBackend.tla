----------------------------- MODULE MCBackend ------------------------------
(***************************************************************************)
(* Values for the constants of Backend.                                    *)
(***************************************************************************)
EXTENDS Backend

\* A host grants everything, or withholds one feature, or cannot isolate at all.
SomeHosts == {Features} \cup {Features \ {f} : f \in {"seccomp", "netns", "open_files"}}
             \cup {Features \ {"capset", "mount", "netns"}}

Plain == [network |-> "allowed", root |-> "current", read_only |-> FALSE,
          credentials |-> "current", limits |-> {}, cancellation |-> FALSE]

Isolated == [Plain EXCEPT !.root = "view", !.read_only = TRUE]

SomeRequests ==
    {Plain, [Plain EXCEPT !.cancellation = TRUE, !.limits = {"open_files"}],
     [Plain EXCEPT !.limits = {"open_files", "cpu_time"}],
     [Plain EXCEPT !.network = "denied"], [Plain EXCEPT !.credentials = "other"],
     Isolated, [Isolated EXCEPT !.network = "denied"],
     [Isolated EXCEPT !.network = "loopback_only", !.limits = {"file_size"}],
     [Isolated EXCEPT !.credentials = "other"]}

Lo(up) == Link("lo", TRUE, up)

HostLinks == {{Lo(TRUE)}, {Lo(TRUE), Link("eth0", FALSE, TRUE)}}

\* Some kernels put a fallback tunnel device into every new namespace.
NewLinks == {{Lo(FALSE)}, {Lo(FALSE), Link("tunl0", FALSE, FALSE)}}
=============================================================================
