------------------------------- MODULE Launch -------------------------------
(***************************************************************************)
(* The descriptors of an execution, from the inspection of an interpreter  *)
(* to execveat: the interpreter is opened by its path and hashed through   *)
(* the descriptor, the pipes are made, and the forked child installs its   *)
(* standard streams and closes what it inherited.  Meanwhile other         *)
(* processes replace the file at the interpreter's path, and other threads *)
(* of the host open descriptors without close-on-exec and close such ones, *)
(* the standard ones excepted.                                             *)
(*                                                                         *)
(* An open file is its name; the contents of a regular file are the file.  *)
(* The table is the host's up to the fork and then the child's.            *)
(***************************************************************************)
EXTENDS Integers, FiniteSetsExt

CONSTANTS
    Top,            \* the largest descriptor number
    Standards,      \* sets of standard descriptors a host may have open
    Others,         \* sets of further descriptors a host may have open
    Setups,         \* close_range is available, requested open_files limit,
                    \* inherited soft limit
    Streams,        \* what requests ask of stdin, stdout and stderr
    None,           \* std::nullopt
    MaxReplaced,    \* bound on the replacements of the interpreter's file
    MaxOpened,      \* bound on the descriptors other threads open
    MaxClosed       \* bound on the times other threads close descriptors

\* The stdin_policy and stream_policy values the code accepts.
Policies == [stdin : {"closed", "null"}, stdout : {"capture", "discard"},
             stderr : {"capture", "discard"}]

ASSUME LaunchAssumption ==
    /\ Top \in Nat /\ MaxReplaced \in Nat /\ MaxOpened \in Nat /\ MaxClosed \in Nat
    /\ \A s \in Standards : s \subseteq 0..2
    /\ \A s \in Others : s \subseteq 3..Top
    /\ Setups \subseteq [close_range : BOOLEAN, open_files : 0..Top \cup {None},
                         soft : 0..(Top + 1)]
    /\ Streams \subseteq Policies
    /\ None \notin Nat

Fd == 0..Top

\* What the interpreter's path may name: regular files with their contents, of which
\* the first is the one it may name at the start, or something that is not a regular
\* file.
Regular == {"first", "second"}
Special == "fifo"

\* The pipes in the order they are made, each with its read and its write end.
PipeEnds == [output  |-> <<"output_r", "output_w">>,
             error   |-> <<"error_r", "error_w">>,
             control |-> <<"control_r", "control_w">>,
             ready   |-> <<"ready_r", "ready_w">>,
             start   |-> <<"start_r", "start_w">>]

AfterPipe == [output |-> "error", error |-> "control", control |-> "ready",
              ready |-> "start", start |-> "fork"]

\* The ends of the parent, which the child resets.
ParentEnds == {"output_r", "error_r", "control_r", "ready_r", "start_w"}

Handles == ParentEnds \cup {"output_w", "error_w", "control_w", "ready_w", "start_r",
                            "root_view", "resource", "interpreter"}

VARIABLES
    pc,
    path,           \* what the interpreter's path names
    bound,          \* interpreter_binding::content_digest
    setup, isolated, policy,
    file,           \* the open file of each descriptor, or "none"
    cloexec,        \* the descriptors with FD_CLOEXEC
    at,             \* the number each handle of the code holds, or -1
    limit,          \* soft RLIMIT_NOFILE
    ran,            \* the file that was executed, or None
    reported,       \* a failure record was written to the control pipe
    replaced, opened, closed

chosen == <<setup, isolated, policy>>
table  == <<file, cloexec, at>>
vars   == <<pc, path, bound, chosen, table, limit, ran, reported, replaced,
            opened, closed>>

(***************************************************************************)
(* The kernel's descriptor table.                                          *)
(***************************************************************************)
\* The numbers that may be given away, which are below the soft limit.
Free(f) == {n \in Fd : n < limit /\ f[n] = "none"}

Lowest(f) == Min(Free(f))

\* open with O_CLOEXEC takes the lowest free number, if there is one.
Open(what, handle) ==
    /\ Free(file) # {}
    /\ LET n == Lowest(file)
       IN  /\ file' = [file EXCEPT ![n] = what]
           /\ cloexec' = cloexec \cup {n}
           /\ at' = [at EXCEPT ![handle] = n]

\* pipe2 with O_CLOEXEC takes two.
Pipe2(ends) ==
    LET r == Lowest(file)
        one == [file EXCEPT ![r] = ends[1]]
        w == Lowest(one)
    IN  /\ Free(file) # {} /\ Free(one) # {}
        /\ file' = [one EXCEPT ![w] = ends[2]]
        /\ cloexec' = cloexec \cup {r, w}
        /\ at' = [at EXCEPT ![ends[1]] = r, ![ends[2]] = w]

Close(ns) ==
    /\ file' = [n \in Fd |-> IF n \in ns THEN "none" ELSE file[n]]
    /\ cloexec' = cloexec \ ns

\* dup2 makes a copy without FD_CLOEXEC, and does nothing to a descriptor that
\* is already the target.
Dup2(n, target) ==
    IF n = target THEN UNCHANGED <<file, cloexec>>
    ELSE /\ file' = [file EXCEPT ![target] = file[n]]
         /\ cloexec' = cloexec \ {target}

\* unique_fd::reset on some handles
Reset(hs) ==
    /\ Close({at[h] : h \in hs})
    /\ at' = [h \in Handles |-> IF h \in hs THEN -1 ELSE at[h]]

(***************************************************************************)
(* The inspection of the interpreter and the parent's part.                *)
(***************************************************************************)
Init ==
    /\ pc = "inspect"
    /\ path \in {"first", Special}
    /\ bound = None
    /\ setup \in Setups /\ isolated \in BOOLEAN /\ policy \in Streams
    /\ \E s \in Standards, o \in Others :
         file = [n \in Fd |-> IF n \in s \cup o THEN "host" ELSE "none"]
    /\ cloexec = {}
    /\ at = [h \in Handles |-> -1]
    /\ limit = setup.soft
    /\ ran = None /\ reported = FALSE /\ replaced = 0 /\ opened = 0 /\ closed = 0

\* interpreter_binding::inspect: stat, then the digest of a second look-up.
Inspect ==
    /\ pc = "inspect"
    /\ pc' = IF path \in Regular THEN "hash" ELSE "rejected"
    /\ UNCHANGED <<path, bound, chosen, table, limit, ran, reported, replaced, opened, closed>>

\* digest_file
InspectHash ==
    /\ pc = "hash"
    /\ IF path \in Regular THEN pc' = "admit" /\ bound' = path
                           ELSE pc' = "rejected" /\ UNCHANGED bound
    /\ UNCHANGED <<path, chosen, table, limit, ran, reported, replaced, opened, closed>>

Refuse == pc' = "refused" /\ UNCHANGED table

\* admit_isolated_resources keeps the root view and then the resources open.
AdmitRoot ==
    /\ pc = "admit"
    /\ \/ ~isolated /\ pc' = "open" /\ UNCHANGED table
       \/ isolated /\ pc' = "resource" /\ Open("root_view", "root_view")
       \/ isolated /\ Refuse
    /\ UNCHANGED <<path, bound, chosen, limit, ran, reported, replaced, opened, closed>>

AdmitResource ==
    /\ pc = "resource"
    /\ \/ pc' = "open" /\ Open("resource", "resource")
       \/ Refuse
    /\ UNCHANGED <<path, bound, chosen, limit, ran, reported, replaced, opened, closed>>

OpenInterpreter ==
    /\ pc = "open"
    /\ \/ pc' = "digest" /\ Open(path, "interpreter")
       \/ Refuse
    /\ UNCHANGED <<path, bound, chosen, limit, ran, reported, replaced, opened, closed>>

\* Faulty: a digest of the path instead of the open descriptor.
DigestMatches_ByPath == path = bound

\* fstat and digest_fd on the open descriptor.
DigestMatches ==
    /\ file[at["interpreter"]] \in Regular
    /\ file[at["interpreter"]] = bound

Digest ==
    /\ pc = "digest"
    /\ pc' = IF DigestMatches THEN "output" ELSE "refused"
    /\ UNCHANGED <<path, bound, chosen, table, limit, ran, reported, replaced, opened, closed>>

MakePipe ==
    /\ pc \in DOMAIN PipeEnds
    /\ \/ pc' = AfterPipe[pc] /\ Pipe2(PipeEnds[pc])
       \/ Refuse
    /\ UNCHANGED <<path, bound, chosen, limit, ran, reported, replaced, opened, closed>>

Fork ==
    /\ pc = "fork"
    /\ \/ pc' = "stdin" /\ Reset(ParentEnds)
       \/ Refuse
    /\ UNCHANGED <<path, bound, chosen, limit, ran, reported, replaced, opened, closed>>

(***************************************************************************)
(* The child.                                                              *)
(***************************************************************************)
Report == /\ pc' = "failed"
          /\ reported' = (file[at["control_w"]] = "control_w")

\* open of /dev/null, dup2 to the target, and close of what open returned, which
\* may have been the target.
NullOn(target) ==
    /\ Free(file) # {}
    /\ LET n == Lowest(file)
       IN  /\ file' = [m \in Fd |-> IF m = n THEN "none"
                                   ELSE IF m = target THEN "null" ELSE file[m]]
           /\ cloexec' = cloexec \ {n, target}
    /\ UNCHANGED at

StandardInput ==
    /\ pc = "stdin"
    /\ \/ /\ pc' = "stdout" /\ UNCHANGED reported
          /\ \/ policy.stdin = "closed" /\ Close({0}) /\ UNCHANGED at
             \/ policy.stdin = "null" /\ NullOn(0)
       \/ policy.stdin = "null" /\ Report /\ UNCHANGED table
    /\ UNCHANGED <<path, bound, chosen, limit, ran, replaced, opened, closed>>

\* The lambda redirect of child_main.
Redirect(target, handle, what) ==
    \/ what = "capture" /\ Dup2(at[handle], target) /\ UNCHANGED at
    \/ what = "discard" /\ NullOn(target)

StandardOutput ==
    /\ pc = "stdout"
    /\ \/ pc' = "stderr" /\ Redirect(1, "output_w", policy.stdout) /\ UNCHANGED reported
       \/ Report /\ UNCHANGED table
    /\ UNCHANGED <<path, bound, chosen, limit, ran, replaced, opened, closed>>

StandardError ==
    /\ pc = "stderr"
    /\ \/ /\ pc' = IF isolated THEN "mount" ELSE "limits"
          /\ Redirect(2, "error_w", policy.stderr) /\ UNCHANGED reported
       \/ Report /\ UNCHANGED table
    /\ UNCHANGED <<path, bound, chosen, limit, ran, replaced, opened, closed>>

\* create_private_root clones the trees of the admitted descriptors; attaching
\* anything but the admitted directories fails, and so may every other call.
Mount ==
    /\ pc = "mount"
    /\ \/ /\ \A h \in {"root_view", "resource"} : file[at[h]] = h
          /\ pc' = "limits" /\ UNCHANGED reported
       \/ Report
    /\ UNCHANGED <<path, bound, chosen, table, limit, ran, replaced, opened, closed>>

\* The stages up to the containment filter, then the ready byte and the start
\* gate, at which the parent may end the child without a program.
Limits ==
    /\ pc = "limits"
    /\ \/ /\ pc' \in {"close", "aborted"} /\ UNCHANGED reported
          /\ limit' = IF setup.open_files = None THEN limit ELSE setup.open_files
          /\ Reset({"ready_w", "start_r"})
       \/ Report /\ UNCHANGED <<table, limit>>
    /\ UNCHANGED <<path, bound, chosen, ran, replaced, opened, closed>>

\* Faulty: ranges that begin at descriptor 0.
KeptBelow_Zero == 0

\* The ranges that are closed begin above the standard streams.
KeptBelow == 3

\* The descriptors of the three close_range calls.
Ranges(first, second) ==
    (IF first > KeptBelow THEN KeptBelow..(first - 1) ELSE {})
      \cup (first + 1)..(second - 1) \cup (second + 1)..Top

\* The loop up to sysconf(_SC_OPEN_MAX), the soft limit that is in force, or up to
\* 65536, which is above Top, if that is 0.
Looped(first, second) ==
    LET upper == IF limit > 0 THEN limit ELSE Top + 1
    IN (KeptBelow..(upper - 1)) \ {first, second}

\* Faulty: a second range that begins one descriptor too high.
CloseFdsExcept_OffByOne(first, second) ==
    LET low  == Min({first, second})
        high == Max({first, second})
    IN  Close(Ranges(low, high) \ {low + 1})

\* Faulty: close_fds_except that keeps the interpreter only.
CloseFdsExcept_Second(first, second) == Close((KeptBelow..Top) \ {second})

CloseFdsExcept(first, second) ==
    LET low  == Min({first, second})
        high == Max({first, second})
    IN  Close(IF setup.close_range THEN Ranges(low, high) ELSE Looped(low, high))

CloseFds ==
    /\ pc = "close"
    /\ pc' = "exec"
    /\ CloseFdsExcept(at["control_w"], at["interpreter"])
    /\ UNCHANGED <<path, bound, chosen, at, limit, ran, reported, replaced, opened, closed>>

\* execveat on the descriptor; only a regular file can be executed, and then the
\* descriptors marked close-on-exec are closed.
Execute ==
    /\ pc = "exec"
    /\ \/ /\ file[at["interpreter"]] \in Regular
          /\ pc' = "program"
          /\ ran' = file[at["interpreter"]]
          /\ Close(cloexec)
          /\ UNCHANGED <<at, reported>>
       \/ Report /\ UNCHANGED <<table, ran>>
    /\ UNCHANGED <<path, bound, chosen, limit, replaced, opened, closed>>

(***************************************************************************)
(* The environment.                                                        *)
(***************************************************************************)
Ended == pc \in {"rejected", "refused", "failed", "aborted", "program"}

\* Another process renames a file over the interpreter's path.
Replace ==
    /\ ~Ended /\ replaced < MaxReplaced
    /\ replaced' = replaced + 1
    /\ path' \in (Regular \cup {Special}) \ {path}
    /\ UNCHANGED <<pc, bound, chosen, table, limit, ran, reported, opened, closed>>

\* The host's other threads matter up to the fork: what they do later is not done
\* to the child's table.
BeforeFork == {"admit", "resource", "open", "digest", "fork"} \cup DOMAIN PipeEnds

\* Another thread opens a file.
HostOpens ==
    /\ pc \in BeforeFork
    /\ opened < MaxOpened /\ Free(file) # {}
    /\ opened' = opened + 1
    /\ file' = [file EXCEPT ![Lowest(file)] = "host"]
    /\ UNCHANGED <<pc, path, bound, chosen, cloexec, at, limit, ran, reported,
                   replaced, closed>>

\* Other threads close descriptors of the host, but not a standard one.
HostCloses ==
    /\ pc \in BeforeFork
    /\ closed < MaxClosed
    /\ closed' = closed + 1
    /\ \E ns \in (SUBSET {n \in 3..Top : file[n] = "host"}) \ {{}} : Close(ns)
    /\ UNCHANGED <<pc, path, bound, chosen, at, limit, ran, reported, replaced,
                   opened>>

Next ==
    \/ Inspect \/ InspectHash \/ AdmitRoot \/ AdmitResource \/ OpenInterpreter
    \/ Digest \/ MakePipe \/ Fork \/ StandardInput \/ StandardOutput
    \/ StandardError \/ Mount \/ Limits \/ CloseFds \/ Execute
    \/ Replace \/ HostOpens \/ HostCloses

Spec == Init /\ [][Next]_vars

(***************************************************************************)
(* Properties.                                                             *)
(***************************************************************************)
\* Descriptor n is one that the loop which stands in for close_range does not reach.
BeyondLoop(n) == ~setup.close_range /\ 0 < limit /\ limit <= n

Wanted(what, handle) == IF what = "capture" THEN handle ELSE "null"

\* The file that runs has the digest that was bound when the interpreter was
\* inspected, whatever was renamed over its path at any moment, and whichever
\* number the open descriptor had (backend.cpp:639-663, 378-382).
ExactInterpreter == pc = "program" => ran = bound

\* "inherited descriptors are closed" (DESIGN.md:146): the program has no
\* descriptor but its standard streams.
OnlyStreamsSurvive == pc = "program" => \A n \in 3..Top : file[n] = "none"

\* What is left to the program besides its standard streams is a descriptor of the
\* host, never one of the execution, and only where close_range does not work, at or
\* above the soft limit that is in force, inherited or requested
\* (process_control.cpp:529-536).
SurvivorsAreAboveLimit ==
    pc = "program" =>
      \A n \in 3..Top : file[n] # "none" => file[n] = "host" /\ BeyondLoop(n)

\* A program that runs has the standard streams of its request, also when the
\* host was started without some of its own, so that a descriptor of the
\* execution was given a standard number (backend.cpp:283-317).
StreamsAsRequested ==
    pc = "program" =>
      /\ file[0] = IF policy.stdin = "closed" THEN "none" ELSE "null"
      /\ file[1] = Wanted(policy.stdout, "output_w")
      /\ file[2] = Wanted(policy.stderr, "error_w")

\* A child that fails before the program has a control pipe to say so, after
\* close_fds_except too; a silent failure would read as a started program.
FailureIsReported == pc = "failed" => reported

(***************************************************************************)
(* The inductive invariant.                                                *)
(***************************************************************************)
Files == {"none", "host", "null", Special} \cup Regular \cup Handles

PastStart   == {"fork"}
PastReady   == {"start"} \cup PastStart
PastControl == {"ready"} \cup PastReady
PastError   == {"control"} \cup PastControl
PastOutput  == {"error"} \cup PastError
PastDigest  == {"output"} \cup PastOutput
Parent == {"inspect", "hash", "admit", "resource", "open", "digest"} \cup PastDigest
PastStderr == {"mount", "limits", "close", "exec"}
PastStdout == {"stderr"} \cup PastStderr
PastStdin  == {"stdout"} \cup PastStdout
InChild    == {"stdin"} \cup PastStdin

TableType == file \in [Fd -> Files] /\ cloexec \subseteq Fd /\ at \in [Handles -> -1..Top]

TypeOK ==
    /\ pc \in Parent \cup InChild \cup {"rejected", "refused", "failed", "aborted", "program"}
    /\ path \in Regular \cup {Special} /\ bound \in Regular \cup {None}
    /\ setup \in Setups /\ isolated \in BOOLEAN /\ policy \in Policies
    /\ TableType
    /\ limit \in 0..(Top + 1)
    /\ setup.open_files = None => limit = setup.soft

\* The files a handle may hold.
Holds(h) == IF h = "interpreter" THEN Regular \cup {Special} ELSE {h}

\* The handles hold their files, and no standard number up to one of theirs is
\* free: nobody closes those meanwhile.
Packed ==
    \A h \in Handles : at[h] # -1 =>
      /\ at[h] \in cloexec /\ file[at[h]] \in Holds(h)
      /\ \A n \in 0..2 : n <= at[h] => file[n] # "none"

PackedInv == pc \in Parent => Packed

\* Only an open descriptor is marked close-on-exec, and above the streams every
\* one that is not the host's is.
MarkedInv == /\ \A n \in cloexec : file[n] # "none"
             /\ \A n \in 3..Top : file[n] \in {"none", "host"} \/ n \in cloexec

\* The interpreter and the output pipe fill the standard numbers, so that the pipes
\* made after them are above.
OrderInv ==
    /\ pc \in {"digest"} \cup PastDigest => at["interpreter"] # -1
    /\ pc \in PastOutput => /\ at["output_w"] >= 2
                            /\ at["interpreter"] >= 3 => at["output_r"] >= 3
    /\ pc \in PastError => at["error_r"] >= 3 /\ at["error_w"] >= 3
    /\ pc \in PastControl => at["control_r"] >= 3 /\ at["control_w"] >= 3
    /\ pc \in PastReady => at["ready_r"] >= 3 /\ at["ready_w"] >= 3
    /\ pc \in PastStart => at["start_r"] >= 3 /\ at["start_w"] >= 3

\* What the child needs of its descriptors outlives the standard streams.
ChildInv ==
    /\ pc \in InChild =>
         /\ at["control_w"] \in 3..Top /\ at["control_w"] \in cloexec
         /\ file[at["control_w"]] = "control_w"
         /\ at["interpreter"] \in Fd /\ at["interpreter"] # at["control_w"]
         /\ at["interpreter"] >= 3 => at["interpreter"] \in cloexec
    /\ pc \in {"stdin", "stdout"} =>
         at["output_w"] \in 2..Top /\ file[at["output_w"]] = "output_w"
    /\ pc \in {"stdin", "stdout", "stderr"} =>
         at["error_w"] \in 3..Top /\ file[at["error_w"]] = "error_w"
    /\ pc \in InChild \ {"close", "exec"} =>
         \A h \in {"ready_w", "start_r"} :
           at[h] \in 3..Top /\ at[h] \notin {at["control_w"], at["interpreter"]}
    /\ FailureIsReported

\* Standard descriptor n is the one that was asked for, or is still to be done.
Stream(n) == IF n = 0 THEN IF policy.stdin = "closed" THEN "none" ELSE "null"
             ELSE IF n = 1 THEN Wanted(policy.stdout, "output_w")
                           ELSE Wanted(policy.stderr, "error_w")

Done(n) == \/ n = 0 /\ pc \in PastStdin
           \/ n = 1 /\ pc \in PastStdout
           \/ n = 2 /\ pc \in PastStderr

\* Where the interpreter has a standard number, that number is not a program
\* any more once it was a target; otherwise all of them were taken.
StreamInv ==
    /\ pc \in InChild =>
         \A n \in 0..2 :
           /\ Done(n) => file[n] \notin Regular
           /\ at["interpreter"] >= 3 =>
                IF Done(n) THEN file[n] = Stream(n) /\ n \notin cloexec
                           ELSE file[n] # "none"
    /\ StreamsAsRequested

\* No open regular file but the one that was hashed.
ExactInv ==
    /\ pc \in Parent \ ({"digest"} \cup PastDigest) => \A n \in Fd : file[n] \notin Regular
    /\ pc = "digest" => \A n \in Fd : file[n] \in Regular => n = at["interpreter"]
    /\ pc \in PastDigest \cup InChild => \A n \in Fd : file[n] \in Regular => file[n] = bound
    /\ ExactInterpreter

ClosedInv ==
    /\ pc = "exec" /\ at["interpreter"] >= 3 =>
         \A n \in 3..Top : n \notin {at["control_w"], at["interpreter"]} =>
           file[n] = "none" \/ BeyondLoop(n)
    /\ SurvivorsAreAboveLimit

LaunchInv == /\ TypeOK /\ PackedInv /\ MarkedInv /\ OrderInv /\ ChildInv /\ StreamInv
             /\ ExactInv /\ ClosedInv
=============================================================================
