-------------------------- MODULE ContainmentFilter --------------------------
(***************************************************************************)
(* The seccomp program of install_process_group_containment.  A system     *)
(* call is what a filter sees: architecture, number, and the words of the  *)
(* two arguments the program looks at; and what it does, which the filter  *)
(* can only tell from the number.  The instructions are the                *)
(* ones of the source, jump offsets included; which of them are compiled   *)
(* depends on the call numbers the headers define.                         *)
(***************************************************************************)
EXTENDS Naturals, Sequences

\* Calls denied by their number alone.
DeniedByNumber == {
    "setsid", "setpgid", "unshare", "setns", "clone3", "mount", "umount2",
    "pivot_root", "chroot", "open_tree", "move_mount", "mount_setattr"}

Numbers == DeniedByNumber \cup {"clone", "setrlimit", "prlimit64"}

\* The call numbers (__NR_...) headers of three ages define: before open_tree,
\* before mount_setattr, current.
Builds ==
    LET old == Numbers \ {"clone3", "open_tree", "move_mount", "mount_setattr"}
    IN {old, Numbers \ {"mount_setattr"}, Numbers}

Native == "x86_64"

\* What a load puts into the accumulator: an architecture, a call number, or a
\* 32-bit word of an argument, which is zero, a flag of a new namespace, the value
\* that is also the number of setsid, or anything else.  x32 is any number of the
\* x32 table, which has all these calls, with a bit that no __NR_ value has, under
\* the native architecture.
Words == {Native, "i386", "read", "x32", "zero", "new_namespace", "other"} \cup Numbers

Calls ==
    {c \in [arch : {Native, "i386"}, nr : Numbers \cup {"read", "x32"},
            does : Numbers \cup {"read"}, arg0 : {"new_namespace", "setsid", "other"},
            new_limit_low : {"zero", "other"}, new_limit_high : {"zero", "other"}] :
        c.nr # "x32" => c.does = c.nr}

(***************************************************************************)
(* BPF_STMT and BPF_JUMP                                                   *)
(***************************************************************************)
Load(word)        == [op |-> "load", k |-> word]
Return(action)    == [op |-> "return", k |-> action]
IfEqual(k, t, f)  == [op |-> "equal", k |-> k, jt |-> t, jf |-> f]
IfAnySet(k, t, f) == [op |-> "any_set", k |-> k, jt |-> t, jf |-> f]

\* Faulty: the pointer is tested by its low word only.
Prlimit64Block_LowWord(sealed) == <<
    IfEqual("prlimit64", 0, 3),
    Load("new_limit_low"), IfEqual("zero", 1, 0),
    Return(sealed)>>

Prlimit64Block(sealed) == <<
    IfEqual("prlimit64", 0, 5),
    Load("new_limit_low"), IfEqual("zero", 0, 2),
    Load("new_limit_high"), IfEqual("zero", 1, 0),
    Return(sealed)>>

\* Faulty: the call number is not loaded again after the flags were.
CloneBlock_FlagsKept == <<
    IfEqual("clone", 0, 3),
    Load("arg0"), IfAnySet("new_namespace", 0, 1), Return("EPERM")>>

CloneBlock == <<
    IfEqual("clone", 0, 3),
    Load("arg0"), IfAnySet("new_namespace", 0, 1), Return("EPERM"),
    Load("nr")>>

DenyBlock(nr, action) == <<IfEqual(nr, 0, 1), Return(action)>>

\* The program for a build, with or without the seal on resource limits.
Filter(build, seal) ==
    LET sealed == IF seal THEN "EPERM" ELSE "allow"
        Compiled(nr, block) == IF nr \in build THEN block ELSE <<>>
        Denied(nr) == Compiled(nr, DenyBlock(nr, "EPERM"))
    IN <<Load("arch"), IfEqual(Native, 1, 0), Return("kill"), Load("nr")>>
       \o Compiled("clone", CloneBlock)
       \o Denied("setsid") \o Denied("setpgid") \o Denied("unshare")
       \o Denied("setns") \o Compiled("clone3", DenyBlock("clone3", "ENOSYS"))
       \o Denied("mount") \o Denied("umount2") \o Denied("pivot_root")
       \o Denied("chroot") \o Denied("open_tree") \o Denied("move_mount")
       \o Denied("mount_setattr")
       \o Compiled("setrlimit", DenyBlock("setrlimit", sealed))
       \o Compiled("prlimit64", Prlimit64Block(sealed))
       \o <<Return("allow")>>

(***************************************************************************)
(* The kernel: what it accepts as a program, and how it runs one.          *)
(***************************************************************************)
Loadable(filter) ==
    /\ filter[Len(filter)].op = "return"
    /\ \A pc \in DOMAIN filter :
           filter[pc].op \in {"equal", "any_set"} =>
               pc + 1 + filter[pc].jt <= Len(filter)
               /\ pc + 1 + filter[pc].jf <= Len(filter)

\* By place in the program and accumulator, which starts as zero.
Run(filter, call) ==
    LET run[s \in (1..Len(filter)) \X Words] ==
            LET at == filter[s[1]] IN
            CASE at.op = "load"   -> run[<<s[1] + 1, call[at.k]>>]
              [] at.op = "return" -> at.k
              [] OTHER ->
                   run[<<s[1] + 1 + IF s[2] = at.k THEN at.jt ELSE at.jf, s[2]>>]
    IN run

Verdict(filter, call) == Run(filter, call)[<<1, "zero">>]

(***************************************************************************)
(* What the program is for, as DESIGN.md puts it.                          *)
(***************************************************************************)
\* Moves the caller out of its session, group, namespaces or mount tree.
LeavesContainment(call) ==
    \/ call.does \in DeniedByNumber
    \/ call.does = "clone" /\ call.arg0 = "new_namespace"

\* setrlimit, or prlimit64 with a new limit behind its pointer.
ChangesLimits(call) ==
    \/ call.does = "setrlimit"
    \/ /\ call.does = "prlimit64"
       /\ ~(call.new_limit_low = "zero" /\ call.new_limit_high = "zero")

Expected(seal, call) ==
    IF call.arch # Native THEN "kill"
    ELSE IF call.does = "clone3" THEN "ENOSYS"
    ELSE IF LeavesContainment(call) \/ (seal /\ ChangesLimits(call)) THEN "EPERM"
    ELSE "allow"

\* The program has no test for the number of the call: the headers did not define
\* it, or it is one of the x32 table.
Untested(build, call) == call.arch = Native /\ call.nr \notin build

DecidesAsExpected(build, seal) ==
    LET filter == Filter(build, seal) IN
    \A call \in Calls :
        Verdict(filter, call) =
          IF Untested(build, call) THEN "allow" ELSE Expected(seal, call)

\* A change of a limit passes, by some call and some pointer, on a kernel that
\* serves no x32 calls.
LetsLimitsChange(build, seal) ==
    LET filter == Filter(build, seal) IN
    \E call \in {c \in Calls : c.arch = Native /\ c.nr # "x32" /\ ChangesLimits(c)} :
        Verdict(filter, call) = "allow"

\* What a library of some build installs, unsealed and sealed.
Installs(build) ==
    [seal \in BOOLEAN |->
        [loads |-> Loadable(Filter(build, seal)),
         decides |-> DecidesAsExpected(build, seal),
         open |-> LetsLimitsChange(build, seal)]]
=============================================================================
