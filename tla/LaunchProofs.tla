---------------------------- MODULE LaunchProofs ----------------------------
(***************************************************************************)
(* The descriptors of an execution, for every size of the descriptor       *)
(* table, every set of descriptors a host may start with, every inherited  *)
(* limit, and any number of files renamed over the interpreter and of      *)
(* descriptors that other threads of the host open and close.              *)
(***************************************************************************)
EXTENDS Launch, WellFoundedInduction, TLAPS

(***************************************************************************)
(* The descriptor table.                                                   *)
(***************************************************************************)
\* The lowest free number is free, and every number below it is taken.
LEMMA LowestIsFree ==
    ASSUME TypeOK, NEW f, Free(f) # {}
    PROVE  /\ Lowest(f) \in Fd /\ f[Lowest(f)] = "none"
           /\ \A n \in Fd : n < Lowest(f) => f[n] # "none"
<1>1. Free(f) \subseteq Nat
  BY LaunchAssumption DEF Free, Fd
<1>2. PICK x \in Free(f) : \A y \in Free(f) : ~(<<y, x>> \in OpToRel(<, Nat))
  BY Zenon, <1>1, NatLessThanWellFounded, WFMin
<1>3. \A y \in Free(f) : x <= y
  <2> TAKE y \in Free(f)
  <2>1. ~(<<y, x>> \in {ss \in Nat \X Nat : ss[1] < ss[2]})
    BY Zenon, <1>2 DEF OpToRel
  <2>2. <<y, x>> \in Nat \X Nat
    BY Zenon, <1>1
  <2>3. ~(y < x)
    BY Zenon, <2>1, <2>2
  <2> QED
    BY <1>1, <2>3
<1>4. Lowest(f) \in Free(f) /\ \A y \in Free(f) : Lowest(f) <= y
  BY Zenon, <1>3 DEF Lowest, Min
<1>5. limit \in Int /\ Lowest(f) \in Int /\ \A n \in Fd : n \in Int
  BY <1>1, <1>4, LaunchAssumption DEF TypeOK, Fd
<1>6. \A n \in Fd : n < Lowest(f) => n < limit /\ n \notin Free(f)
  BY <1>4, <1>5 DEF Free
<1> QED
  BY Zenon, <1>4, <1>6 DEF Free

\* open takes a free number, and every number below it is taken.
LEMMA OpenFacts ==
    ASSUME TypeOK, NEW what, NEW handle, Open(what, handle)
    PROVE  \E n \in Fd :
             /\ file[n] = "none" /\ \A m \in Fd : m < n => file[m] # "none"
             /\ file' = [file EXCEPT ![n] = what] /\ cloexec' = cloexec \cup {n}
             /\ at' = [at EXCEPT ![handle] = n]
BY Zenon, LowestIsFree DEF Open

\* pipe2 takes two, in increasing order.
LEMMA Pipe2Facts ==
    ASSUME TypeOK, NEW ends, ends[1] # "none", Pipe2(ends)
    PROVE  \E r, w \in Fd :
             /\ r < w /\ file[r] = "none" /\ file[w] = "none"
             /\ \A m \in Fd : m < w /\ m # r => file[m] # "none"
             /\ file' = [file EXCEPT ![r] = ends[1], ![w] = ends[2]]
             /\ cloexec' = cloexec \cup {r, w}
             /\ at' = [at EXCEPT ![ends[1]] = r, ![ends[2]] = w]
<1> DEFINE r == Lowest(file)
           one == [file EXCEPT ![r] = ends[1]]
           w == Lowest(one)
<1>1. r \in Fd /\ file[r] = "none" /\ \A m \in Fd : m < r => file[m] # "none"
  BY Zenon, LowestIsFree DEF Pipe2
<1>2. Free(one) # {}
  BY Zenon DEF Pipe2
<1> HIDE DEF r
<1>3. \A m \in Fd : one[m] = IF m = r THEN ends[1] ELSE file[m]
  BY Zenon, <1>1 DEF TypeOK, TableType
<1>4. w \in Fd /\ one[w] = "none" /\ \A m \in Fd : m < w => one[m] # "none"
  BY Zenon, <1>2, LowestIsFree
<1>5. /\ file' = [one EXCEPT ![w] = ends[2]] /\ cloexec' = cloexec \cup {r, w}
      /\ at' = [at EXCEPT ![ends[1]] = r, ![ends[2]] = w]
  BY Zenon DEF Pipe2, r
<1> HIDE DEF w
<1>6. w # r /\ file[w] = "none"
  BY Zenon, <1>3, <1>4
<1>7. r < w
  BY <1>1, <1>4, <1>6, LaunchAssumption DEF Fd
<1>8. \A m \in Fd : m < w /\ m # r => file[m] # "none"
  BY Zenon, <1>3, <1>4
<1>9. file' = [file EXCEPT ![r] = ends[1], ![w] = ends[2]]
  BY Zenon, <1>5
<1> QED
  BY Zenon, <1>1, <1>4, <1>5, <1>6, <1>7, <1>8, <1>9

\* /dev/null on a standard descriptor passes through a free number.
LEMMA NullFacts ==
    ASSUME TypeOK, NEW target, NullOn(target)
    PROVE  /\ UNCHANGED at
           /\ \E n \in Fd :
                /\ file[n] = "none"
                /\ file' = [m \in Fd |-> IF m = n THEN "none"
                                        ELSE IF m = target THEN "null" ELSE file[m]]
                /\ cloexec' = cloexec \ {n, target}
BY Zenon, LowestIsFree DEF NullOn

\* The pipes and their ends.
LEMMA PipeFacts ==
    /\ DOMAIN PipeEnds = {"output", "error", "control", "ready", "start"}
    /\ \A p \in DOMAIN PipeEnds :
         /\ PipeEnds[p][1] \in Handles /\ PipeEnds[p][2] \in Handles
         /\ PipeEnds[p][1] # "none" /\ AfterPipe[p] \in PastOutput
BY DEF PipeEnds, AfterPipe, Handles, ParentEnds, PastOutput, PastError, PastControl,
   PastReady, PastStart

(***************************************************************************)
(* Types.                                                                  *)
(***************************************************************************)
\* The initial states are typed.
LEMMA InitType == Init => TypeOK
<1> SUFFICES ASSUME Init PROVE TypeOK
  BY Zenon
<1>1. file \in [Fd -> Files] /\ cloexec \subseteq Fd
  BY Zenon DEF Init, Files
<1>2. at \in [Handles -> -1..Top]
  BY LaunchAssumption DEF Init
<1>3. limit = setup.soft /\ limit \in 0..(Top + 1)
  BY LaunchAssumption DEF Init
<1>4. path \in Regular \cup {Special} /\ policy \in Policies
  BY Zenon, LaunchAssumption DEF Init, Regular
<1> QED
  BY Zenon, <1>1, <1>2, <1>3, <1>4 DEF Init, TypeOK, TableType, Parent

\* open keeps the type of the table.
LEMMA OpenType ==
    ASSUME TypeOK, NEW what \in Files, NEW handle \in Handles, Open(what, handle)
    PROVE  TableType'
<1>1. PICK n \in Fd : /\ file' = [file EXCEPT ![n] = what] /\ cloexec' = cloexec \cup {n}
                      /\ at' = [at EXCEPT ![handle] = n]
  BY OpenFacts
<1>2. n \in -1..Top
  BY LaunchAssumption DEF Fd
<1> QED
  BY Zenon, <1>1, <1>2 DEF TypeOK, TableType

\* pipe2 keeps the type of the table.
LEMMA Pipe2Type ==
    ASSUME TypeOK, NEW p \in DOMAIN PipeEnds, Pipe2(PipeEnds[p])
    PROVE  TableType'
<1> DEFINE ends == PipeEnds[p]
<1>1. ends[1] \in Handles /\ ends[2] \in Handles /\ ends[1] # "none"
  BY Zenon, PipeFacts
<1>2. PICK r, w \in Fd : /\ file' = [file EXCEPT ![r] = ends[1], ![w] = ends[2]]
                         /\ cloexec' = cloexec \cup {r, w}
                         /\ at' = [at EXCEPT ![ends[1]] = r, ![ends[2]] = w]
  BY <1>1, Pipe2Facts
<1>3. r \in -1..Top /\ w \in -1..Top
  BY LaunchAssumption DEF Fd
<1>4. ends[1] \in Files /\ ends[2] \in Files
  BY Zenon, <1>1 DEF Files
<1> HIDE DEF ends
<1> QED
  BY Zenon, <1>1, <1>2, <1>3, <1>4 DEF TypeOK, TableType

\* close does.
LEMMA CloseType ==
    ASSUME TypeOK, NEW ns, Close(ns)
    PROVE  file' \in [Fd -> Files] /\ cloexec' \subseteq Fd
BY Zenon DEF TypeOK, TableType, Close, Files

\* unique_fd::reset does.
LEMMA ResetType ==
    ASSUME TypeOK, NEW hs, Reset(hs)
    PROVE  TableType'
<1>1. file' \in [Fd -> Files] /\ cloexec' \subseteq Fd
  BY Zenon, CloseType DEF Reset
<1>2. at' \in [Handles -> -1..Top]
  BY LaunchAssumption DEF Reset, TypeOK, TableType
<1> QED
  BY Zenon, <1>1, <1>2 DEF TableType

\* /dev/null on a standard descriptor does.
LEMMA NullType ==
    ASSUME TypeOK, NEW target, NullOn(target)
    PROVE  TableType'
BY Zenon, NullFacts DEF TypeOK, TableType, Files

\* The redirection of a standard stream does.
LEMMA RedirectType ==
    ASSUME TypeOK, NEW target \in Fd, NEW handle \in Handles, NEW what, at[handle] \in Fd,
           Redirect(target, handle, what)
    PROVE  TableType'
<1>1. CASE NullOn(target)
  BY Zenon, <1>1, NullType
<1>2. CASE Dup2(at[handle], target) /\ UNCHANGED at
  BY Zenon, <1>2 DEF Dup2, TypeOK, TableType
<1> QED
  BY Zenon, <1>1, <1>2 DEF Redirect

\* Every step keeps the types.
LEMMA TypeKept ==
    ASSUME LaunchInv, [Next]_vars
    PROVE  TypeOK'
<1> USE DEF LaunchInv
<1>1. CASE Inspect \/ InspectHash \/ Digest \/ Mount
  BY Zenon, <1>1 DEF Inspect, InspectHash, Digest, Mount, Report, table, chosen, TypeOK, TableType,
     Parent, InChild, PastStdin, PastStdout, PastStderr, PastDigest
<1>2. CASE AdmitRoot \/ AdmitResource \/ OpenInterpreter
  <2>1. TableType'
    BY Zenon, <1>2, OpenType DEF AdmitRoot, AdmitResource, OpenInterpreter, Refuse, table, TypeOK,
       TableType, Files, Handles
  <2> QED
    BY Zenon, <1>2, <2>1 DEF AdmitRoot, AdmitResource, OpenInterpreter, Refuse, chosen, TypeOK,
       Parent
<1>3. CASE MakePipe
  <2>1. TableType'
    BY Zenon, <1>3, Pipe2Type DEF MakePipe, Refuse, table, TypeOK, TableType
  <2>2. pc' \in PastOutput \cup {"refused"} /\ UNCHANGED <<path, bound, chosen, limit>>
    BY Zenon, <1>3, PipeFacts DEF MakePipe, Refuse
  <2> QED
    BY Zenon, <2>1, <2>2 DEF chosen, TypeOK, Parent, PastDigest
<1>4. CASE Fork
  <2>1. TableType'
    BY Zenon, <1>4, ResetType DEF Fork, Refuse, table, TypeOK, TableType
  <2> QED
    BY Zenon, <1>4, <2>1 DEF Fork, Refuse, chosen, TypeOK, InChild
<1>5. CASE StandardInput
  <2>1. TableType'
    BY Zenon, <1>5, NullType, CloseType DEF StandardInput, Report, table, TypeOK, TableType
  <2> QED
    BY Zenon, <1>5, <2>1 DEF StandardInput, Report, chosen, TypeOK, InChild, PastStdin
<1>6. CASE StandardOutput
  <2>1. at["output_w"] \in Fd /\ 1 \in Fd
    BY <1>6, LaunchAssumption DEF StandardOutput, ChildInv, Fd
  <2>2. TableType'
    BY Zenon, <1>6, <2>1, RedirectType DEF StandardOutput, Report, table, TypeOK, TableType, Handles
  <2> QED
    BY Zenon, <1>6, <2>2 DEF StandardOutput, Report, chosen, TypeOK, InChild, PastStdin, PastStdout
<1>7. CASE StandardError
  <2>1. at["error_w"] \in Fd /\ 2 \in Fd
    BY <1>7, LaunchAssumption DEF StandardError, ChildInv, Fd
  <2>2. TableType'
    BY Zenon, <1>7, <2>1, RedirectType DEF StandardError, Report, table, TypeOK, TableType, Handles
  <2> QED
    BY Zenon, <1>7, <2>2 DEF StandardError, Report, chosen, TypeOK, InChild, PastStdin, PastStdout,
       PastStderr
<1>8. CASE Limits
  <2>1. TableType'
    BY Zenon, <1>8, ResetType DEF Limits, Report, table, TypeOK, TableType
  <2>2. setup.open_files \in 0..Top \cup {None}
    BY Zenon, LaunchAssumption DEF TypeOK
  <2>3. limit' \in 0..(Top + 1) /\ (setup.open_files = None => limit' = setup.soft)
    BY <1>8, <2>2, LaunchAssumption DEF Limits, TypeOK
  <2> QED
    BY Zenon, <1>8, <2>1, <2>3 DEF Limits, Report, chosen, TypeOK, InChild, PastStdin, PastStdout,
       PastStderr
<1>9. CASE CloseFds
  <2>1. TableType'
    BY Zenon, <1>9, CloseType DEF CloseFds, CloseFdsExcept, TypeOK, TableType
  <2> QED
    BY Zenon, <1>9, <2>1 DEF CloseFds, chosen, TypeOK, InChild, PastStdin, PastStdout, PastStderr
<1>10. CASE Execute
  <2>1. TableType'
    BY Zenon, <1>10, CloseType DEF Execute, table, TypeOK, TableType
  <2> QED
    BY Zenon, <1>10, <2>1 DEF Execute, Report, chosen, TypeOK
<1>11. CASE Replace
  BY Zenon, <1>11 DEF Replace, table, chosen, TypeOK, TableType
<1>12. CASE HostOpens
  <2>1. TableType'
    BY Zenon, <1>12, LowestIsFree DEF HostOpens, TypeOK, TableType, Files
  <2> QED
    BY Zenon, <1>12, <2>1 DEF HostOpens, chosen, TypeOK
<1>13. CASE HostCloses
  <2>1. TableType'
    BY Zenon, <1>13, CloseType DEF HostCloses, TypeOK, TableType
  <2> QED
    BY Zenon, <1>13, <2>1 DEF HostCloses, chosen, TypeOK
<1>14. CASE UNCHANGED vars
  BY Zenon, <1>14 DEF vars, table, chosen, TypeOK, TableType
<1> QED
  BY Zenon, <1>1, <1>2, <1>3, <1>4, <1>5, <1>6, <1>7, <1>8, <1>9, <1>10, <1>11, <1>12, <1>13,
     <1>14 DEF Next

(***************************************************************************)
(* Up to the fork.                                                         *)
(***************************************************************************)
\* A free number is above the streams or above every descriptor of the execution.
LEMMA FreeIsAbove ==
    ASSUME TypeOK, Packed, NEW n \in Fd, file[n] = "none", NEW h \in Handles
    PROVE  n >= 3 \/ at[h] < n
<1>1. at[h] \in -1..Top /\ n \in 0..Top /\ Top \in Nat
  BY Zenon, LaunchAssumption DEF TypeOK, TableType, Fd
<1>2. CASE at[h] = -1
  BY <1>1, <1>2
<1>3. CASE at[h] # -1
  <2>1. \A m \in 0..2 : m <= at[h] => file[m] # "none"
    BY Zenon, <1>3 DEF Packed
  <2> QED
    BY <1>1, <2>1
<1> QED
  BY Zenon, <1>2, <1>3

\* open leaves the table packed.
LEMMA OpenPacked ==
    ASSUME TypeOK, Packed, NEW handle \in Handles, NEW what \in Holds(handle), what # "none",
           Open(what, handle)
    PROVE  Packed'
<1>1. PICK n \in Fd :
        /\ file[n] = "none" /\ \A m \in Fd : m < n => file[m] # "none"
        /\ file' = [file EXCEPT ![n] = what] /\ cloexec' = cloexec \cup {n}
        /\ at' = [at EXCEPT ![handle] = n]
  BY OpenFacts
<1> SUFFICES ASSUME NEW h \in Handles, at'[h] # -1
             PROVE  /\ at'[h] \in cloexec' /\ file'[at'[h]] \in Holds(h)
                    /\ \A m \in 0..2 : m <= at'[h] => file'[m] # "none"
  BY Zenon DEF Packed, Holds
<1>2. at[h] \in -1..Top /\ n \in 0..Top /\ Top \in Nat
  BY Zenon, LaunchAssumption DEF TypeOK, TableType, Fd
<1>3. \A m \in Fd : file[m] # "none" => file'[m] = file[m]
  BY Zenon, <1>1 DEF TypeOK, TableType
<1>4. CASE h = handle
  <2>1. at'[h] = n /\ file'[n] = what
    BY Zenon, <1>1, <1>4 DEF TypeOK, TableType
  <2>2. \A m \in 0..2 : m <= n => m = n \/ (m \in Fd /\ m < n)
    BY <1>2 DEF Fd
  <2>3. \A m \in 0..2 : m <= n => file'[m] # "none"
    BY Zenon, <1>1, <1>3, <2>1, <2>2
  <2>4. n \in cloexec' /\ file'[n] \in Holds(h)
    BY Zenon, <1>1, <1>4, <2>1
  <2> QED
    BY <2>1, <2>3, <2>4
<1>5. CASE h # handle
  <2>1. at'[h] = at[h]
    BY Zenon, <1>1, <1>5 DEF TypeOK, TableType
  <2>2. /\ at[h] \in cloexec /\ file[at[h]] \in Holds(h)
        /\ \A m \in 0..2 : m <= at[h] => file[m] # "none"
    BY Zenon, <2>1 DEF Packed
  <2>3. at[h] \in Fd /\ \A m \in 0..2 : m <= at[h] => m \in Fd
    BY <1>2, <2>1 DEF Fd
  <2>4. file[at[h]] # "none"
    BY Zenon, <2>2 DEF Holds, Regular, Special, Handles, ParentEnds
  <2>5. at[h] \in cloexec' /\ file'[at[h]] \in Holds(h)
    BY Zenon, <1>1, <1>3, <2>2, <2>3, <2>4
  <2>6. \A m \in 0..2 : m <= at[h] => file'[m] # "none"
    BY Zenon, <1>3, <2>2, <2>3
  <2> QED
    BY <2>1, <2>5, <2>6
<1> QED
  BY Zenon, <1>4, <1>5

\* pipe2 leaves the table packed.
LEMMA Pipe2Packed ==
    ASSUME TypeOK, Packed, NEW p \in DOMAIN PipeEnds, Pipe2(PipeEnds[p])
    PROVE  Packed'
<1> DEFINE ends == PipeEnds[p]
<1>1. /\ ends[1] \in Handles /\ ends[2] \in Handles /\ ends[1] # "none" /\ ends[2] # "none"
      /\ ends[1] # ends[2] /\ ends[1] \in Holds(ends[1]) /\ ends[2] \in Holds(ends[2])
  BY PipeFacts DEF PipeEnds, Handles, ParentEnds, Holds
<1>2. PICK r, w \in Fd :
        /\ r < w /\ file[r] = "none" /\ file[w] = "none"
        /\ \A m \in Fd : m < w /\ m # r => file[m] # "none"
        /\ file' = [file EXCEPT ![r] = ends[1], ![w] = ends[2]]
        /\ cloexec' = cloexec \cup {r, w}
        /\ at' = [at EXCEPT ![ends[1]] = r, ![ends[2]] = w]
  BY Zenon, <1>1, Pipe2Facts
<1> HIDE DEF ends
<1> SUFFICES ASSUME NEW h \in Handles, at'[h] # -1
             PROVE  /\ at'[h] \in cloexec' /\ file'[at'[h]] \in Holds(h)
                    /\ \A m \in 0..2 : m <= at'[h] => file'[m] # "none"
  BY Zenon DEF Packed, Holds
<1>3. at[h] \in -1..Top /\ r \in 0..Top /\ w \in 0..Top /\ Top \in Nat
  BY Zenon, LaunchAssumption DEF TypeOK, TableType, Fd
<1>4. r # w
  BY <1>2, <1>3
<1>5. /\ \A m \in Fd : file[m] # "none" => file'[m] = file[m]
      /\ file'[r] = ends[1] /\ file'[w] = ends[2]
  BY Zenon, <1>2, <1>4 DEF TypeOK, TableType
<1>6. \A m \in Fd : m <= w => file'[m] # "none"
  <2> SUFFICES ASSUME NEW m \in Fd, m <= w PROVE file'[m] # "none"
    BY Zenon
  <2>1. m = r \/ m = w \/ (m < w /\ m # r)
    BY <1>3 DEF Fd
  <2> QED
    BY Zenon, <1>1, <1>2, <1>5, <2>1
<1>7. CASE h \in {ends[1], ends[2]}
  <2>1. \/ h = ends[1] /\ at'[h] = r
        \/ h = ends[2] /\ at'[h] = w
    BY Zenon, <1>1, <1>2, <1>7 DEF TypeOK, TableType
  <2>2. at'[h] \in cloexec' /\ file'[at'[h]] \in Holds(h)
    <3>1. /\ r \in cloexec' /\ file'[r] \in Holds(ends[1])
          /\ w \in cloexec' /\ file'[w] \in Holds(ends[2])
      BY Zenon, <1>1, <1>2, <1>5
    <3> QED
      BY <2>1, <3>1
  <2>3. \A m \in 0..2 : m <= at'[h] => m \in Fd /\ m <= w
    BY <1>2, <1>3, <2>1 DEF Fd
  <2> QED
    BY Zenon, <1>6, <2>2, <2>3
<1>8. CASE h \notin {ends[1], ends[2]}
  <2>1. at'[h] = at[h]
    BY Zenon, <1>1, <1>2, <1>8 DEF TypeOK, TableType
  <2>2. /\ at[h] \in cloexec /\ file[at[h]] \in Holds(h)
        /\ \A m \in 0..2 : m <= at[h] => file[m] # "none"
    BY Zenon, <2>1 DEF Packed
  <2>3. at[h] \in Fd /\ \A m \in 0..2 : m <= at[h] => m \in Fd
    BY <1>3, <2>1 DEF Fd
  <2>4. file[at[h]] # "none"
    BY Zenon, <2>2 DEF Holds, Regular, Special, Handles, ParentEnds
  <2>5. at[h] \in cloexec' /\ file'[at[h]] \in Holds(h)
    BY Zenon, <1>2, <1>5, <2>2, <2>3, <2>4
  <2>6. \A m \in 0..2 : m <= at[h] => file'[m] # "none"
    BY Zenon, <1>5, <2>2, <2>3
  <2> QED
    BY <2>1, <2>5, <2>6
<1> QED
  BY Zenon, <1>7, <1>8

\* What other threads do leaves the files of the handles and the standard numbers
\* that are taken.
LEMMA HostKeepsTaken ==
    ASSUME LaunchInv, pc \in Parent, HostOpens \/ HostCloses
    PROVE  /\ UNCHANGED <<pc, at>>
           /\ \A h \in Handles : at[h] # -1 =>
                file'[at[h]] = file[at[h]] /\ (at[h] \in cloexec => at[h] \in cloexec')
           /\ \A n \in 0..2 : n \in Fd /\ file[n] # "none" => file'[n] # "none"
<1> USE DEF LaunchInv
<1>0. UNCHANGED <<pc, at>>
  BY Zenon DEF HostOpens, HostCloses
<1>1. ASSUME NEW h \in Handles, at[h] # -1
      PROVE  at[h] \in Fd /\ file[at[h]] \notin {"none", "host"}
  <2>1. at[h] \in Fd
    BY <1>1, LaunchAssumption DEF TypeOK, TableType, Fd
  <2>2. file[at[h]] \in Holds(h)
    BY Zenon, <1>1 DEF PackedInv, Packed
  <2> QED
    BY Zenon, <2>1, <2>2 DEF Holds, Regular, Special, Handles, ParentEnds
<1>2. CASE HostOpens
  <2>1. PICK n \in Fd : file[n] = "none" /\ file' = [file EXCEPT ![n] = "host"]
    BY Zenon, <1>2, LowestIsFree DEF HostOpens
  <2>2. \A m \in Fd : file[m] # "none" => file'[m] = file[m]
    BY Zenon, <2>1 DEF TypeOK, TableType
  <2> QED
    BY Zenon, <1>0, <1>1, <1>2, <2>2 DEF HostOpens
<1>3. CASE HostCloses
  <2>1. PICK ns \in SUBSET {n \in 3..Top : file[n] = "host"} : Close(ns)
    BY Zenon, <1>3 DEF HostCloses
  <2>2. \A n \in 0..2 : n \notin ns
    BY <2>1, LaunchAssumption
  <2>3. \A h \in Handles : at[h] # -1 => at[h] \notin ns
    BY Zenon, <1>1, <2>1
  <2> QED
    BY Zenon, <1>0, <1>1, <2>1, <2>2, <2>3 DEF Close
<1> QED
  BY Zenon, <1>2, <1>3

\* The parent's table stays packed.
LEMMA PackedKept ==
    ASSUME LaunchInv, [Next]_vars
    PROVE  PackedInv'
<1> USE DEF LaunchInv, PackedInv
<1>1. CASE pc \notin Parent
  <2>1. pc' \notin Parent
    BY Zenon, <1>1, PipeFacts DEF Next, vars, Parent, PastDigest, PastOutput, PastError, PastControl,
       PastReady, PastStart, Inspect, InspectHash, AdmitRoot, AdmitResource, OpenInterpreter,
       Digest, MakePipe, Fork, StandardInput, StandardOutput, StandardError, Mount, Limits,
       CloseFds, Execute, Replace, HostOpens, HostCloses, Report
  <2> QED
    BY Zenon, <2>1
<1>2. CASE UNCHANGED table
  BY Zenon, <1>1, <1>2 DEF table, Packed
<1>3. CASE Open("root_view", "root_view") \/ Open("resource", "resource")
  <2>1. /\ "root_view" \in Handles /\ "root_view" \in Holds("root_view")
        /\ "resource" \in Handles /\ "resource" \in Holds("resource")
    BY Zenon DEF Handles, Holds
  <2> QED
    BY Zenon, <1>1, <1>3, <2>1, OpenPacked
<1>4. CASE Open(path, "interpreter")
  <2>1. path # "none" /\ path \in Holds("interpreter") /\ "interpreter" \in Handles
    BY Zenon DEF TypeOK, Regular, Special, Holds, Handles
  <2> QED
    BY Zenon, <1>1, <1>4, <2>1, OpenPacked
<1>5. CASE pc \in DOMAIN PipeEnds /\ Pipe2(PipeEnds[pc])
  BY Zenon, <1>1, <1>5, Pipe2Packed
<1>6. CASE (HostOpens \/ HostCloses) /\ pc \in Parent
  <2>1. \A h \in Handles : \A m \in 0..2 : m <= at[h] => m \in Fd
    BY LaunchAssumption DEF TypeOK, TableType, Fd
  <2>2. \A h \in Handles : at[h] # -1 =>
          /\ at[h] \in cloexec /\ file[at[h]] \in Holds(h)
          /\ \A n \in 0..2 : n <= at[h] => file[n] # "none"
    BY Zenon, <1>6 DEF Packed
  <2>3. \A h \in Handles : at'[h] # -1 =>
          /\ at'[h] \in cloexec' /\ file'[at'[h]] \in Holds(h)
          /\ \A n \in 0..2 : n <= at'[h] => file'[n] # "none"
    BY Zenon, <1>6, <2>1, <2>2, HostKeepsTaken
  <2> QED
    BY Zenon, <2>3 DEF Packed, Holds
<1>7. CASE pc' \notin Parent
  BY Zenon, <1>7
<1>8. pc \in Parent =>
        \/ UNCHANGED table \/ pc' \notin Parent \/ HostOpens \/ HostCloses
        \/ Open("root_view", "root_view") \/ Open("resource", "resource")
        \/ Open(path, "interpreter") \/ (pc \in DOMAIN PipeEnds /\ Pipe2(PipeEnds[pc]))
  BY DEF Next, vars, Parent, PastDigest, PastOutput, PastError, PastControl,
     PastReady, PastStart, Inspect, InspectHash, AdmitRoot, AdmitResource, OpenInterpreter,
     Digest, MakePipe, Fork, StandardInput, StandardOutput, StandardError, Mount, Limits,
     CloseFds, Execute, Replace, Refuse
<1> QED
  BY Zenon, <1>1, <1>2, <1>3, <1>4, <1>5, <1>6, <1>7, <1>8

\* A pipe is made above the streams or above every descriptor of the execution.
LEMMA PipeIsAbove ==
    ASSUME TypeOK, Packed, NEW p \in DOMAIN PipeEnds, Pipe2(PipeEnds[p]),
           NEW rd, NEW wr, PipeEnds[p] = <<rd, wr>>, rd # wr
    PROVE  /\ at'[rd] \in Fd /\ at'[wr] \in Fd /\ at'[rd] < at'[wr]
           /\ \A h \in Handles \ {rd, wr} : at'[h] = at[h]
           /\ at'[rd] >= 3 \/ \A h \in Handles : at[h] < at'[rd]
<1>1. rd \in Handles /\ wr \in Handles /\ rd # "none"
  BY PipeFacts
<1>2. Pipe2(<<rd, wr>>)
  BY Zenon
<1>3. PICK r, w \in Fd :
        /\ r < w /\ file[r] = "none" /\ file[w] = "none"
        /\ at' = [at EXCEPT ![rd] = r, ![wr] = w]
  BY <1>1, <1>2, Pipe2Facts
<1>4. at'[rd] = r /\ at'[wr] = w
  BY Zenon, <1>1, <1>3 DEF TypeOK, TableType
<1>5. \A h \in Handles \ {rd, wr} : at'[h] = at[h]
  BY Zenon, <1>1, <1>3 DEF TypeOK, TableType
<1>6. \A h \in Handles : r >= 3 \/ at[h] < r
  BY Zenon, <1>3, FreeIsAbove
<1> QED
  BY Zenon, <1>3, <1>4, <1>5, <1>6

\* So the first pipe is made above the interpreter, the second one above that, and
\* with it above the streams, and so are the others.
LEMMA MakePipeKeepsOrder ==
    ASSUME LaunchInv, MakePipe, pc' # "refused"
    PROVE  OrderInv'
<1>1. pc \in DOMAIN PipeEnds /\ pc' = AfterPipe[pc] /\ Pipe2(PipeEnds[pc])
  BY Zenon DEF MakePipe, Refuse
<1>2. pc \in Parent /\ Packed /\ TypeOK
  BY Zenon, <1>1, PipeFacts DEF LaunchInv, PackedInv, Parent, PastDigest, PastOutput, PastError,
     PastControl, PastReady, PastStart
<1>3. \A h \in Handles : at[h] \in -1..Top
  BY Zenon, <1>2 DEF TypeOK, TableType
<1> USE DEF LaunchInv, OrderInv, PastDigest, PastOutput, PastError, PastControl, PastReady,
            PastStart, Handles, ParentEnds
<1>4. CASE pc = "output"
  <2>1. PipeEnds[pc] = <<"output_r", "output_w">> /\ pc' = "error"
    BY Zenon, <1>1, <1>4 DEF PipeEnds, AfterPipe
  <2>2. /\ at'["output_r"] \in Fd /\ at'["output_w"] \in Fd /\ at'["output_r"] < at'["output_w"]
        /\ \A h \in Handles \ {"output_r", "output_w"} : at'[h] = at[h]
        /\ at'["output_r"] >= 3 \/ at["interpreter"] < at'["output_r"]
    BY <1>1, <1>2, <2>1, PipeIsAbove
  <2>3. at'["output_w"] >= 2 /\ (at'["interpreter"] >= 3 => at'["output_r"] >= 3)
    BY <1>3, <1>4, <2>2, LaunchAssumption DEF Fd
  <2> QED
    BY Zenon, <1>4, <2>1, <2>2, <2>3
<1>5. CASE pc = "error"
  <2>1. PipeEnds[pc] = <<"error_r", "error_w">> /\ pc' = "control"
    BY Zenon, <1>1, <1>5 DEF PipeEnds, AfterPipe
  <2>2. /\ at'["error_r"] \in Fd /\ at'["error_w"] \in Fd /\ at'["error_r"] < at'["error_w"]
        /\ \A h \in Handles \ {"error_r", "error_w"} : at'[h] = at[h]
        /\ at'["error_r"] >= 3 \/ at["output_w"] < at'["error_r"]
    BY <1>1, <1>2, <2>1, PipeIsAbove
  <2>3. at'["error_r"] >= 3 /\ at'["error_w"] >= 3
    BY <1>3, <1>5, <2>2, LaunchAssumption DEF Fd
  <2> QED
    BY Zenon, <1>5, <2>1, <2>2, <2>3
<1>6. CASE pc = "control"
  <2>1. PipeEnds[pc] = <<"control_r", "control_w">> /\ pc' = "ready"
    BY Zenon, <1>1, <1>6 DEF PipeEnds, AfterPipe
  <2>2. /\ at'["control_r"] \in Fd /\ at'["control_w"] \in Fd /\ at'["control_r"] < at'["control_w"]
        /\ \A h \in Handles \ {"control_r", "control_w"} : at'[h] = at[h]
        /\ at'["control_r"] >= 3 \/ at["error_w"] < at'["control_r"]
    BY <1>1, <1>2, <2>1, PipeIsAbove
  <2>3. at'["control_r"] >= 3 /\ at'["control_w"] >= 3
    BY <1>3, <1>6, <2>2, LaunchAssumption DEF Fd
  <2> QED
    BY Zenon, <1>6, <2>1, <2>2, <2>3
<1>7. CASE pc = "ready"
  <2>1. PipeEnds[pc] = <<"ready_r", "ready_w">> /\ pc' = "start"
    BY Zenon, <1>1, <1>7 DEF PipeEnds, AfterPipe
  <2>2. /\ at'["ready_r"] \in Fd /\ at'["ready_w"] \in Fd /\ at'["ready_r"] < at'["ready_w"]
        /\ \A h \in Handles \ {"ready_r", "ready_w"} : at'[h] = at[h]
        /\ at'["ready_r"] >= 3 \/ at["error_w"] < at'["ready_r"]
    BY <1>1, <1>2, <2>1, PipeIsAbove
  <2>3. at'["ready_r"] >= 3 /\ at'["ready_w"] >= 3
    BY <1>3, <1>7, <2>2, LaunchAssumption DEF Fd
  <2> QED
    BY Zenon, <1>7, <2>1, <2>2, <2>3
<1>8. CASE pc = "start"
  <2>1. PipeEnds[pc] = <<"start_r", "start_w">> /\ pc' = "fork"
    BY Zenon, <1>1, <1>8 DEF PipeEnds, AfterPipe
  <2>2. /\ at'["start_r"] \in Fd /\ at'["start_w"] \in Fd /\ at'["start_r"] < at'["start_w"]
        /\ \A h \in Handles \ {"start_r", "start_w"} : at'[h] = at[h]
        /\ at'["start_r"] >= 3 \/ at["error_w"] < at'["start_r"]
    BY <1>1, <1>2, <2>1, PipeIsAbove
  <2>3. at'["start_r"] >= 3 /\ at'["start_w"] >= 3
    BY <1>3, <1>8, <2>2, LaunchAssumption DEF Fd
  <2> QED
    BY Zenon, <1>8, <2>1, <2>2, <2>3
<1> QED
  BY Zenon, <1>1, <1>4, <1>5, <1>6, <1>7, <1>8, PipeFacts

\* The order of the numbers is kept up to the fork.
LEMMA OrderKept ==
    ASSUME LaunchInv, [Next]_vars
    PROVE  OrderInv'
<1> DEFINE Late == {"digest"} \cup PastDigest
<1> USE DEF PastDigest, PastOutput, PastError, PastControl, PastReady, PastStart
<1>1. CASE pc' \notin Late
  BY Zenon, <1>1 DEF OrderInv
<1>2. CASE OpenInterpreter /\ pc' \in Late
  <2>1. Open(path, "interpreter") /\ pc' = "digest"
    BY Zenon, <1>2 DEF OpenInterpreter, Refuse
  <2>2. PICK n \in Fd : at' = [at EXCEPT !["interpreter"] = n]
    <3>1. TypeOK
      BY Zenon DEF LaunchInv
    <3>2. \E n \in Fd :
            /\ file[n] = "none" /\ \A m \in Fd : m < n => file[m] # "none"
            /\ file' = [file EXCEPT ![n] = path] /\ cloexec' = cloexec \cup {n}
            /\ at' = [at EXCEPT !["interpreter"] = n]
      BY <2>1, <3>1, OpenFacts
    <3> QED
      BY Zenon, <3>2
  <2>3. at'["interpreter"] = n /\ n # -1
    BY <2>2, LaunchAssumption DEF LaunchInv, TypeOK, TableType, Handles, Fd
  <2> QED
    BY Zenon, <2>1, <2>3 DEF OrderInv
<1>3. CASE MakePipe /\ pc' \in Late
  BY Zenon, <1>3, MakePipeKeepsOrder
<1>4. CASE HostOpens \/ HostCloses
  BY Zenon, <1>4 DEF HostOpens, HostCloses, LaunchInv, OrderInv
<1>5. CASE Digest \/ Replace \/ UNCHANGED vars
  BY Zenon, <1>5 DEF Digest, Replace, vars, table, LaunchInv, OrderInv
<1>6. \/ pc' \notin Late \/ OpenInterpreter \/ MakePipe \/ HostOpens \/ HostCloses \/ Digest
      \/ Replace \/ UNCHANGED vars
  BY Zenon DEF Next, Inspect, InspectHash, AdmitRoot, AdmitResource, Refuse, Fork, StandardInput,
     StandardOutput, StandardError, Mount, Limits, CloseFds, Execute, Report
<1> QED
  BY Zenon, <1>1, <1>2, <1>3, <1>4, <1>5, <1>6

(***************************************************************************)
(* Close-on-exec.                                                          *)
(***************************************************************************)
\* Every call on the table marks open descriptors only, and above the streams all
\* that it opens.
LEMMA MarkedKept ==
    ASSUME LaunchInv, [Next]_vars
    PROVE  MarkedInv'
<1> USE DEF LaunchInv, MarkedInv
<1>0. \A n \in 3..Top : n \in Fd /\ n \notin 0..2
  BY LaunchAssumption DEF Fd
<1>1. /\ \A n \in cloexec : n \in Fd /\ file[n] # "none"
      /\ \A n \in 3..Top : file[n] \in {"none", "host"} \/ n \in cloexec
  BY Zenon DEF TypeOK, TableType
<1>2. ASSUME NEW what, what # "none", NEW h, Open(what, h) PROVE MarkedInv'
  <2>1. PICK n \in Fd : file' = [file EXCEPT ![n] = what] /\ cloexec' = cloexec \cup {n}
    BY Zenon, <1>2, OpenFacts
  <2> QED
    BY Zenon, <1>0, <1>1, <1>2, <2>1 DEF TypeOK, TableType
<1>3. ASSUME NEW ns, Close(ns) PROVE MarkedInv'
  BY Zenon, <1>0, <1>1, <1>3 DEF Close
<1>4. ASSUME NEW target \in 0..2, NullOn(target) PROVE MarkedInv'
  <2>1. PICK n \in Fd :
          /\ file[n] = "none"
          /\ file' = [m \in Fd |-> IF m = n THEN "none" ELSE IF m = target THEN "null" ELSE file[m]]
          /\ cloexec' = cloexec \ {n, target}
    BY Zenon, <1>4, NullFacts
  <2>2. \A m \in 3..Top : m # target
    BY Zenon, <1>0
  <2>3. \A m \in Fd : m # n /\ m # target => file'[m] = file[m]
    BY Zenon, <2>1
  <2>4. file'[n] = "none"
    BY Zenon, <2>1
  <2>5. \A m \in 3..Top : file'[m] \in {"none", "host"} \/ m \in cloexec'
    BY Zenon, <1>0, <1>1, <2>1, <2>2, <2>3, <2>4
  <2>6. \A m \in cloexec' : file'[m] # "none"
    BY Zenon, <1>1, <2>1, <2>3
  <2> QED
    BY Zenon, <2>5, <2>6
<1>5. ASSUME NEW target \in 0..2, NEW n, Dup2(n, target) PROVE MarkedInv'
  BY Zenon, <1>0, <1>1, <1>5 DEF Dup2, TypeOK, TableType
<1>6. CASE UNCHANGED <<file, cloexec>>
  BY Zenon, <1>6
<1>7. CASE MakePipe
  <2> DEFINE ends == PipeEnds[pc]
  <2>1. CASE Pipe2(ends) /\ pc \in DOMAIN PipeEnds
    <3>1. ends[1] # "none" /\ ends[2] # "none"
      BY Zenon, <2>1, PipeFacts DEF Handles, ParentEnds
    <3>2. PICK r, w \in Fd : /\ file' = [file EXCEPT ![r] = ends[1], ![w] = ends[2]]
                             /\ cloexec' = cloexec \cup {r, w}
      BY <2>1, <3>1, Pipe2Facts
    <3> HIDE DEF ends
    <3> QED
      BY Zenon, <1>0, <1>1, <3>1, <3>2 DEF TypeOK, TableType
  <2> QED
    BY Zenon, <1>6, <1>7, <2>1 DEF MakePipe, Refuse, table
<1>8. CASE AdmitRoot \/ AdmitResource \/ OpenInterpreter
  <2>1. path # "none"
    BY Zenon DEF TypeOK, Regular, Special
  <2> QED
    BY Zenon, <1>2, <1>6, <1>8, <2>1 DEF AdmitRoot, AdmitResource, OpenInterpreter, Refuse, table
<1>9. CASE Fork \/ Limits
  BY Zenon, <1>3, <1>6, <1>9 DEF Fork, Limits, Reset, Refuse, table
<1>10. CASE StandardInput \/ StandardOutput \/ StandardError
  <2>1. 0 \in 0..2 /\ 1 \in 0..2 /\ 2 \in 0..2
    OBVIOUS
  <2> QED
    BY Zenon, <1>3, <1>4, <1>5, <1>6, <1>10, <2>1
       DEF StandardInput, StandardOutput, StandardError, Redirect, table
<1>11. CASE HostCloses
  BY Zenon, <1>3, <1>11 DEF HostCloses
<1>12. CASE CloseFds \/ Execute
  BY Zenon, <1>3, <1>6, <1>12 DEF CloseFds, CloseFdsExcept, Execute, table
<1>13. CASE HostOpens
  <2>1. PICK n \in Fd : file' = [file EXCEPT ![n] = "host"]
    BY Zenon, <1>13, LowestIsFree DEF HostOpens
  <2> QED
    BY Zenon, <1>0, <1>1, <1>13, <2>1 DEF HostOpens, TypeOK, TableType
<1>14. CASE Inspect \/ InspectHash \/ Digest \/ Mount \/ Replace \/ UNCHANGED vars
  BY Zenon, <1>6, <1>14 DEF Inspect, InspectHash, Digest, Mount, Replace, vars, table
<1> QED
  BY Zenon, <1>7, <1>8, <1>9, <1>10, <1>11, <1>12, <1>13, <1>14 DEF Next

(***************************************************************************)
(* The child.                                                              *)
(***************************************************************************)
\* A redirection changes its target and no other descriptor.
LEMMA OnlyTheTarget ==
    ASSUME TypeOK, MarkedInv, NEW target \in 0..2,
           \/ NullOn(target)
           \/ Close({target}) /\ UNCHANGED at
           \/ \E n \in Fd \ {target} : Dup2(n, target) /\ UNCHANGED at
    PROVE  /\ UNCHANGED at /\ cloexec' = cloexec \ {target}
           /\ \A m \in Fd \ {target} : file'[m] = file[m]
<1>1. CASE NullOn(target)
  <2>1. PICK n \in Fd :
          /\ file[n] = "none"
          /\ file' = [m \in Fd |-> IF m = n THEN "none"
                                  ELSE IF m = target THEN "null" ELSE file[m]]
          /\ cloexec' = cloexec \ {n, target}
    BY Zenon, <1>1, NullFacts
  <2>2. n \notin cloexec
    BY Zenon, <2>1 DEF MarkedInv
  <2> QED
    BY Zenon, <1>1, <2>1, <2>2, NullFacts
<1>2. CASE Close({target}) /\ UNCHANGED at
  BY Zenon, <1>2 DEF Close
<1>3. CASE \E n \in Fd \ {target} : Dup2(n, target) /\ UNCHANGED at
  BY Zenon, <1>3 DEF Dup2, TypeOK, TableType
<1> QED
  BY Zenon, <1>1, <1>2, <1>3

\* What the target becomes: nothing, /dev/null or a copy; nothing only where it
\* is closed or was free.
LEMMA TheTarget ==
    ASSUME TypeOK, NEW target \in Fd
    PROVE  /\ NullOn(target) => file'[target] \in {"none", "null"}
           /\ NullOn(target) /\ file[target] # "none" => file'[target] = "null"
           /\ Close({target}) => file'[target] = "none"
           /\ \A n \in Fd \ {target} : Dup2(n, target) => file'[target] = file[n]
<1>1. ASSUME NullOn(target) PROVE /\ file'[target] \in {"none", "null"}
                                  /\ file[target] # "none" => file'[target] = "null"
  BY Zenon, <1>1, NullFacts
<1>2. Close({target}) => file'[target] = "none"
  BY Zenon DEF Close
<1>3. \A n \in Fd \ {target} : Dup2(n, target) => file'[target] = file[n]
  BY Zenon DEF Dup2, TypeOK, TableType
<1> QED
  BY Zenon, <1>1, <1>2, <1>3

\* A stream step that succeeds installs the stream of its own number and touches
\* no other descriptor.
LEMMA StandardStep ==
    ASSUME LaunchInv, StandardInput \/ StandardOutput \/ StandardError, pc' # "failed"
    PROVE  \E t \in 0..2 :
             /\ \/ t = 0 /\ pc = "stdin" /\ pc' = "stdout"
                \/ t = 1 /\ pc = "stdout" /\ pc' = "stderr"
                \/ t = 2 /\ pc = "stderr" /\ pc' \in {"mount", "limits"}
             /\ UNCHANGED <<at, policy, setup, bound, ran, reported, isolated>>
             /\ cloexec' = cloexec \ {t}
             /\ \A m \in Fd \ {t} : file'[m] = file[m]
             /\ file'[t] \notin Regular
             /\ file[t] # "none" => file'[t] = Stream(t)
<1> USE DEF LaunchInv
<1>1. (0 \in Fd /\ 1 \in Fd /\ 2 \in Fd) \/ ~(pc \in InChild)
  BY LaunchAssumption DEF ChildInv, Fd
<1>2. policy.stdin \in {"closed", "null"} /\ policy.stdout \in {"capture", "discard"}
      /\ policy.stderr \in {"capture", "discard"}
  BY Zenon DEF TypeOK, Policies
<1>3. CASE StandardInput
  <2>1. pc = "stdin" /\ pc' = "stdout" /\ 0 \in Fd
    BY Zenon, <1>1, <1>3 DEF StandardInput, Report, InChild
  <2>2. \/ policy.stdin = "closed" /\ Close({0}) /\ UNCHANGED at
        \/ policy.stdin = "null" /\ NullOn(0)
    BY Zenon, <1>3, <2>1 DEF StandardInput, Report
  <2>3. /\ UNCHANGED at /\ cloexec' = cloexec \ {0}
        /\ \A m \in Fd \ {0} : file'[m] = file[m]
    BY <2>2, OnlyTheTarget
  <2>4. file'[0] \in {"none", "null"} /\ (file[0] # "none" => file'[0] = Stream(0))
    BY Zenon, <2>1, <2>2, TheTarget DEF Stream
  <2>5. UNCHANGED <<policy, setup, bound, ran, reported, isolated>>
    BY Zenon, <1>3, <2>1 DEF StandardInput, Report, chosen
  <2> WITNESS 0 \in 0..2
  <2> QED
    BY Zenon, <2>1, <2>3, <2>4, <2>5 DEF Regular
<1>4. CASE StandardOutput
  <2>1. pc = "stdout" /\ pc' = "stderr" /\ 1 \in Fd
    BY Zenon, <1>1, <1>4 DEF StandardOutput, Report, InChild, PastStdin
  <2>2. Redirect(1, "output_w", policy.stdout)
    BY Zenon, <1>4, <2>1 DEF StandardOutput, Report
  <2>3. at["output_w"] \in Fd \ {1} /\ file[at["output_w"]] = "output_w"
    BY <2>1, LaunchAssumption DEF ChildInv, Fd
  <2>4. /\ UNCHANGED at /\ cloexec' = cloexec \ {1}
        /\ \A m \in Fd \ {1} : file'[m] = file[m]
    BY <2>2, <2>3, OnlyTheTarget DEF Redirect
  <2>5. /\ file'[1] \in {"none", "null", "output_w"}
        /\ file[1] # "none" => file'[1] = Stream(1)
    <3>1. CASE policy.stdout = "capture"
      <4>1. Dup2(at["output_w"], 1)
        BY Zenon, <2>2, <3>1 DEF Redirect
      <4>2. file'[1] = "output_w"
        BY Zenon, <2>1, <2>3, <4>1, TheTarget
      <4> QED
        BY <3>1, <4>2 DEF Stream, Wanted
    <3>2. CASE policy.stdout = "discard"
      <4>1. NullOn(1)
        BY Zenon, <2>2, <3>2 DEF Redirect
      <4> QED
        <5>1. /\ file'[1] \in {"none", "null"}
              /\ file[1] # "none" => file'[1] = "null"
          BY Zenon, <2>1, <4>1, TheTarget
        <5>2. Stream(1) = "null"
          BY <3>2 DEF Stream, Wanted
        <5> QED
          BY Zenon, <5>1, <5>2
    <3> QED
      BY Zenon, <1>2, <3>1, <3>2
  <2>6. UNCHANGED <<policy, setup, bound, ran, reported, isolated>>
    BY Zenon, <1>4, <2>1 DEF StandardOutput, Report, chosen
  <2> WITNESS 1 \in 0..2
  <2> QED
    BY Zenon, <2>1, <2>4, <2>5, <2>6 DEF Regular
<1>5. CASE StandardError
  <2>1. pc = "stderr" /\ pc' \in {"mount", "limits"} /\ 2 \in Fd
    BY Zenon, <1>1, <1>5 DEF StandardError, Report, InChild, PastStdin, PastStdout
  <2>2. Redirect(2, "error_w", policy.stderr)
    BY Zenon, <1>5, <2>1 DEF StandardError, Report
  <2>3. at["error_w"] \in Fd \ {2} /\ file[at["error_w"]] = "error_w"
    BY <2>1, LaunchAssumption DEF ChildInv, Fd
  <2>4. /\ UNCHANGED at /\ cloexec' = cloexec \ {2}
        /\ \A m \in Fd \ {2} : file'[m] = file[m]
    BY <2>2, <2>3, OnlyTheTarget DEF Redirect
  <2>5. /\ file'[2] \in {"none", "null", "error_w"}
        /\ file[2] # "none" => file'[2] = Stream(2)
    <3>1. CASE policy.stderr = "capture"
      <4>1. Dup2(at["error_w"], 2)
        BY Zenon, <2>2, <3>1 DEF Redirect
      <4>2. file'[2] = "error_w"
        BY Zenon, <2>1, <2>3, <4>1, TheTarget
      <4> QED
        BY <3>1, <4>2 DEF Stream, Wanted
    <3>2. CASE policy.stderr = "discard"
      <4>1. NullOn(2)
        BY Zenon, <2>2, <3>2 DEF Redirect
      <4> QED
        <5>1. /\ file'[2] \in {"none", "null"}
              /\ file[2] # "none" => file'[2] = "null"
          BY Zenon, <2>1, <4>1, TheTarget
        <5>2. Stream(2) = "null"
          BY <3>2 DEF Stream, Wanted
        <5> QED
          BY Zenon, <5>1, <5>2
    <3> QED
      BY Zenon, <1>2, <3>1, <3>2
  <2>6. UNCHANGED <<policy, setup, bound, ran, reported, isolated>>
    BY Zenon, <1>5, <2>1 DEF StandardError, Report, chosen
  <2> WITNESS 2 \in 0..2
  <2> QED
    BY Zenon, <2>1, <2>4, <2>5, <2>6 DEF Regular
<1> QED
  BY Zenon, <1>3, <1>4, <1>5

\* A step that reports has the control pipe to do so.
LEMMA ReportIsWritten ==
    ASSUME LaunchInv, pc \in InChild, Report
    PROVE  reported' = TRUE
BY Zenon DEF LaunchInv, ChildInv, Report

\* After the fork: what the child resets is none of what it needs.
LEMMA ForkedChild ==
    ASSUME LaunchInv, Fork, pc' = "stdin"
    PROVE  ChildInv' /\ StreamInv'
<1> USE DEF LaunchInv
<1>1. pc = "fork" /\ Reset(ParentEnds) /\ UNCHANGED <<policy, bound, ran, reported>>
  BY Zenon DEF Fork, Refuse, chosen
<1> DEFINE gone == {at[h] : h \in ParentEnds}
<1>2. \A h \in Handles : at[h] \in -1..Top
  BY Zenon DEF TypeOK, TableType
<1>3. /\ at["interpreter"] # -1 /\ at["output_w"] >= 2 /\ at["error_w"] >= 3
      /\ at["control_w"] >= 3 /\ at["ready_w"] >= 3 /\ at["start_r"] >= 3
  BY Zenon, <1>1 DEF OrderInv, PastDigest, PastOutput, PastError, PastControl, PastReady, PastStart
<1>g. at["interpreter"] >= 3 => \A g \in ParentEnds : at[g] >= 3
  BY Zenon, <1>1 DEF OrderInv, ParentEnds, PastDigest, PastOutput, PastError, PastControl, PastReady,
     PastStart
<1>4. pc \in Parent /\ Packed
  BY Zenon, <1>1 DEF PackedInv, Parent, PastDigest, PastOutput, PastError, PastControl, PastReady,
     PastStart
<1>5. /\ file' = [n \in Fd |-> IF n \in gone THEN "none" ELSE file[n]]
      /\ cloexec' = cloexec \ gone
      /\ \A h \in Handles \ ParentEnds : at'[h] = at[h]
  BY Zenon, <1>1 DEF Reset, Close
<1> DEFINE Kept == {"interpreter", "output_w", "error_w", "control_w", "ready_w", "start_r"}
<1>k. /\ Kept \subseteq Handles \ ParentEnds /\ ParentEnds \subseteq Handles
      /\ \A h \in Kept : at[h] \in Fd /\ at[h] # -1
  <2>1. Kept \subseteq Handles \ ParentEnds /\ ParentEnds \subseteq Handles
    BY Zenon DEF Handles, ParentEnds
  <2>2. \A h \in Kept : at[h] \in -1..Top /\ at[h] # -1
    BY <1>2, <1>3, <2>1
  <2> QED
    BY <2>1, <2>2, LaunchAssumption DEF Fd
<1>d. \A h \in Kept, g \in Handles : g # h => at[g] # at[h]
  <2> SUFFICES ASSUME NEW h \in Kept, NEW g \in Handles, g # h, at[g] = at[h] PROVE FALSE
    BY Zenon
  <2>1. file[at[h]] \in Holds(h) /\ file[at[h]] \in Holds(g)
    BY Zenon, <1>4, <1>k DEF Packed
  <2>2. CASE h = "interpreter"
    BY Zenon, <2>1, <2>2 DEF Holds, Regular, Special, Handles, ParentEnds
  <2>3. CASE g = "interpreter"
    <3>1. h # "interpreter" /\ file[at[h]] = h
      BY Zenon, <2>1, <2>3 DEF Holds
    <3>2. h \in {"first", "second", "fifo"}
      BY Zenon, <2>1, <2>3, <3>1 DEF Holds, Regular, Special
    <3> QED
      BY Zenon, <3>2
  <2>4. CASE h # "interpreter" /\ g # "interpreter"
    BY Zenon, <2>1, <2>4 DEF Holds
  <2> QED
    BY Zenon, <2>2, <2>3, <2>4
<1>6. \A h \in Kept :
        /\ at'[h] = at[h] /\ at[h] \in Fd /\ at[h] \in cloexec /\ at[h] \notin gone
  <2> TAKE h \in Kept
  <2>1. h \in Handles \ ParentEnds /\ at[h] \in Fd /\ at[h] # -1
    BY Zenon, <1>k
  <2>2. at[h] \in cloexec
    BY Zenon, <1>4, <2>1 DEF Packed
  <2>3. at[h] \notin gone
    BY Zenon, <1>d, <1>k, <2>1 DEF gone
  <2> QED
    BY Zenon, <1>5, <2>1, <2>2, <2>3
<1>7. /\ at["output_w"] \in 2..Top /\ at["error_w"] \in 3..Top /\ at["control_w"] \in 3..Top
      /\ at["ready_w"] \in 3..Top /\ at["start_r"] \in 3..Top
      /\ at["ready_w"] \notin {at["control_w"], at["interpreter"]}
      /\ at["start_r"] \notin {at["control_w"], at["interpreter"]}
      /\ at["interpreter"] # at["control_w"]
  <2>1. \A h \in Kept : at[h] \in 0..Top
    BY Zenon, <1>k DEF Fd
  <2>2. /\ at["output_w"] \in 2..Top /\ at["error_w"] \in 3..Top /\ at["control_w"] \in 3..Top
        /\ at["ready_w"] \in 3..Top /\ at["start_r"] \in 3..Top
    BY <1>3, <2>1, LaunchAssumption
  <2>3. Kept \subseteq Handles
    BY Zenon, <1>k
  <2>4. /\ at["ready_w"] \notin {at["control_w"], at["interpreter"]}
        /\ at["start_r"] \notin {at["control_w"], at["interpreter"]}
        /\ at["interpreter"] # at["control_w"]
    BY Zenon, <1>d, <2>3
  <2> QED
    BY Zenon, <2>2, <2>4
<1>8. /\ file[at["output_w"]] = "output_w" /\ file[at["error_w"]] = "error_w"
      /\ file[at["control_w"]] = "control_w"
  BY Zenon, <1>4, <1>k DEF Packed, Holds
<1>9. ChildInv'
  <2>1. \A h \in {"output_w", "error_w", "control_w"} : file'[at'[h]] = h
    BY Zenon, <1>5, <1>6, <1>8
  <2> QED
    BY Zenon, <1>5, <1>6, <1>7, <2>1 DEF ChildInv, FailureIsReported
<1>10. StreamInv'
  <2>1. \A n \in 0..2 : ~Done(n)'
    BY Zenon DEF Done, PastStdin, PastStdout, PastStderr
  <2>2. ASSUME NEW n \in 0..2, at["interpreter"] >= 3 PROVE file'[n] # "none"
    <3>1. n \in Fd /\ n <= at["interpreter"]
      BY <1>2, <2>2, LaunchAssumption DEF Fd, Handles
    <3>2. file[n] # "none"
      BY Zenon, <1>3, <1>4, <3>1 DEF Packed, Handles
    <3>3. n \notin gone
      <4> SUFFICES ASSUME NEW g \in ParentEnds, at[g] = n PROVE FALSE
        BY Zenon DEF gone
      <4> QED
        BY <1>g, <2>2
    <3> QED
      BY Zenon, <1>5, <3>1, <3>2, <3>3
  <2> QED
    BY Zenon, <1>6, <2>1, <2>2 DEF StreamInv, StreamsAsRequested
<1> QED
  BY Zenon, <1>9, <1>10

\* close_fds_except closes neither of the two it keeps; both above the streams, it
\* closes no stream and everything else that the loop reaches.
LEMMA CloseFdsFacts ==
    ASSUME TypeOK, NEW a \in Fd, NEW b \in Fd, a # b, CloseFdsExcept(a, b)
    PROVE  /\ file' \in [Fd -> Files] /\ cloexec' \subseteq cloexec
           /\ \A n \in Fd : file'[n] \in {file[n], "none"}
           /\ \A n \in {a, b} : file'[n] = file[n] /\ (n \in cloexec => n \in cloexec')
           /\ a >= 3 /\ b >= 3 =>
                /\ \A n \in Fd : n < 3 => file'[n] = file[n]
                /\ \A n \in 3..Top : n \notin {a, b} => file'[n] = "none" \/ BeyondLoop(n)
<1>1. a \in 0..Top /\ b \in 0..Top /\ Top \in Nat /\ limit \in 0..(Top + 1)
  BY Zenon, LaunchAssumption DEF Fd, TypeOK
<1> DEFINE low == Min({a, b})
           high == Max({a, b})
           ns == IF setup.close_range THEN Ranges(low, high) ELSE Looped(low, high)
<1>2. low \in {a, b} /\ low <= a /\ low <= b
  <2>1. \E x \in {a, b} : \A y \in {a, b} : x <= y
    BY <1>1
  <2> QED
    BY Zenon, <2>1 DEF Min
<1>3. high \in {a, b} /\ high >= a /\ high >= b
  <2>1. \E x \in {a, b} : \A y \in {a, b} : x >= y
    BY <1>1
  <2> QED
    BY Zenon, <2>1 DEF Max
<1>4. Close(ns)
  BY Zenon DEF CloseFdsExcept
<1> HIDE DEF low, high
<1>5. low \in 0..Top /\ high \in 0..Top /\ low < high /\ {low, high} = {a, b}
  BY <1>1, <1>2, <1>3
<1>6. a \notin ns /\ b \notin ns
  BY <1>1, <1>5 DEF Ranges, Looped, KeptBelow
<1>7. ASSUME a >= 3, b >= 3
      PROVE  /\ \A n \in Fd : n < 3 => n \notin ns
             /\ \A n \in 3..Top : n \notin {a, b} => n \in ns \/ BeyondLoop(n)
  <2>1. \A n \in Fd : n < 3 => n \notin ns
    BY <1>1, <1>5, <1>7 DEF Ranges, Looped, KeptBelow, Fd
  <2>2. ASSUME setup.close_range, NEW n \in 3..Top, n \notin {a, b} PROVE n \in ns
    BY <1>1, <1>5, <1>7, <2>2 DEF Ranges, KeptBelow
  <2>3. ASSUME ~setup.close_range, NEW n \in 3..Top, n \notin {a, b}
        PROVE  n \in ns \/ BeyondLoop(n)
    BY <1>1, <1>5, <2>3 DEF Looped, KeptBelow, BeyondLoop
  <2> QED
    BY Zenon, <2>1, <2>2, <2>3
<1> HIDE DEF ns
<1>8. file \in [Fd -> Files] /\ "none" \in Files
  BY Zenon DEF TypeOK, TableType, Files
<1>9. 3..Top \subseteq Fd
  BY <1>1 DEF Fd
<1> QED
  BY Zenon, <1>4, <1>6, <1>7, <1>8, <1>9 DEF Close

\* What the child needs is there through every step.
LEMMA ChildKept ==
    ASSUME LaunchInv, [Next]_vars
    PROVE  ChildInv'
<1> USE DEF LaunchInv
<1>1. CASE pc' \notin InChild /\ (pc' = "failed" => pc = "failed" /\ UNCHANGED reported)
  BY <1>1 DEF ChildInv, FailureIsReported, InChild, PastStdin, PastStdout
<1>2. CASE pc \in InChild /\ Report
  <2>1. pc' = "failed" /\ reported'
    BY Zenon, <1>2, ReportIsWritten DEF Report
  <2> QED
    BY Zenon, <2>1 DEF ChildInv, FailureIsReported, InChild, PastStdin, PastStdout, PastStderr
<1>3. CASE UNCHANGED <<pc, file, cloexec, at, reported>>
  BY Zenon, <1>3 DEF ChildInv, FailureIsReported
<1>4. CASE Inspect \/ InspectHash \/ AdmitRoot \/ AdmitResource \/ OpenInterpreter \/ Digest
           \/ MakePipe
  <2>1. pc' \notin InChild /\ pc' # "failed"
    BY Zenon, <1>4, PipeFacts DEF Inspect, InspectHash, AdmitRoot, AdmitResource, OpenInterpreter,
       Digest, MakePipe, Refuse, InChild, PastStdin, PastStdout, PastStderr, PastOutput,
       PastError, PastControl, PastReady, PastStart
  <2> QED
    BY Zenon, <1>1, <2>1
<1>5. CASE Fork
  <2>1. pc' = "stdin" \/ pc' = "refused"
    BY Zenon, <1>5 DEF Fork, Refuse
  <2> QED
    BY Zenon, <1>1, <1>5, <2>1, ForkedChild DEF InChild, PastStdin, PastStdout, PastStderr
<1>6. CASE StandardInput \/ StandardOutput \/ StandardError
  <2>1. pc \in InChild
    BY Zenon, <1>6 DEF StandardInput, StandardOutput, StandardError, InChild, PastStdin, PastStdout
  <2>2. CASE pc' = "failed"
    BY Zenon, <1>2, <1>6, <2>1, <2>2 DEF StandardInput, StandardOutput, StandardError
  <2>3. CASE pc' # "failed"
    <3>1. PICK t \in 0..2 :
             /\ \/ t = 0 /\ pc = "stdin" /\ pc' = "stdout"
                \/ t = 1 /\ pc = "stdout" /\ pc' = "stderr"
                \/ t = 2 /\ pc = "stderr" /\ pc' \in {"mount", "limits"}
             /\ UNCHANGED at
             /\ cloexec' = cloexec \ {t}
             /\ \A m \in Fd \ {t} : file'[m] = file[m]
      BY Zenon, <1>6, <2>3, StandardStep
    <3>2. /\ at["control_w"] \in 3..Top /\ at["control_w"] \in cloexec
          /\ file[at["control_w"]] = "control_w" /\ at["interpreter"] \in Fd
          /\ at["interpreter"] # at["control_w"]
          /\ at["interpreter"] >= 3 => at["interpreter"] \in cloexec
          /\ \A h \in {"ready_w", "start_r"} :
               at[h] \in 3..Top /\ at[h] \notin {at["control_w"], at["interpreter"]}
          /\ at["error_w"] \in 3..Top /\ file[at["error_w"]] = "error_w"
          /\ t = 0 => at["output_w"] \in 2..Top /\ file[at["output_w"]] = "output_w"
      BY <2>1, <3>1 DEF ChildInv
    <3>3. \A n \in 3..Top : n \in Fd /\ n # t
      BY LaunchAssumption DEF Fd
    <3>4. t = 0 => \A n \in 2..Top : n \in Fd /\ n # t
      BY LaunchAssumption DEF Fd
    <3>5. /\ file'[at["control_w"]] = "control_w" /\ file'[at["error_w"]] = "error_w"
          /\ t = 0 => file'[at["output_w"]] = "output_w"
          /\ at["control_w"] \in cloexec'
      BY Zenon, <3>1, <3>2, <3>3, <3>4
    <3>6. at["interpreter"] >= 3 => at["interpreter"] \in cloexec'
      BY <3>1, <3>2
    <3>7. pc' # "failed" /\ pc' \notin {"stdin", "close", "exec"} /\ (pc' = "stdout" => t = 0)
          /\ UNCHANGED at
      BY Zenon, <3>1
    <3> QED
      BY Zenon, <3>2, <3>5, <3>6, <3>7 DEF ChildInv, FailureIsReported
  <2> QED
    BY Zenon, <2>2, <2>3
<1>7. CASE Mount
  <2>1. pc \in InChild
    BY Zenon, <1>7 DEF Mount, InChild, PastStdin, PastStdout, PastStderr
  <2>2. CASE pc' = "limits" /\ UNCHANGED table
    BY Zenon, <1>7, <2>1, <2>2 DEF Mount, table, ChildInv, FailureIsReported, InChild, PastStdin,
       PastStdout, PastStderr
  <2> QED
    BY Zenon, <1>2, <1>7, <2>1, <2>2 DEF Mount
<1>8. CASE Limits
  <2>1. pc = "limits" /\ pc \in InChild
    BY Zenon, <1>8 DEF Limits, InChild, PastStdin, PastStdout, PastStderr
  <2>2. CASE pc' = "aborted"
    BY Zenon, <1>1, <2>2 DEF InChild, PastStdin, PastStdout, PastStderr
  <2>3. CASE pc' = "close"
    <3>1. Reset({"ready_w", "start_r"})
      BY Zenon, <1>8, <2>3 DEF Limits, Report
    <3> DEFINE gone == {at[h] : h \in {"ready_w", "start_r"}}
    <3>2. /\ file' = [n \in Fd |-> IF n \in gone THEN "none" ELSE file[n]]
          /\ cloexec' = cloexec \ gone
          /\ at'["control_w"] = at["control_w"] /\ at'["interpreter"] = at["interpreter"]
      BY Zenon, <3>1 DEF Reset, Close, Handles
    <3>3. at["control_w"] \notin gone /\ at["interpreter"] \notin gone
      BY Zenon, <2>1 DEF ChildInv
    <3>4. at["control_w"] \in Fd
      BY <2>1, LaunchAssumption DEF ChildInv, Fd
    <3> HIDE DEF gone
    <3> QED
      BY Zenon, <2>1, <2>3, <3>2, <3>3, <3>4 DEF ChildInv, FailureIsReported, InChild, PastStdin,
         PastStdout, PastStderr
  <2> QED
    BY Zenon, <1>2, <1>8, <2>1, <2>2, <2>3 DEF Limits
<1>9. CASE CloseFds
  <2>1. /\ pc = "close" /\ pc' = "exec" /\ UNCHANGED at
        /\ CloseFdsExcept(at["control_w"], at["interpreter"])
    BY Zenon, <1>9 DEF CloseFds
  <2>2. at["control_w"] \in Fd /\ at["interpreter"] \in Fd /\ at["control_w"] # at["interpreter"]
    BY <2>1, LaunchAssumption DEF ChildInv, Fd, InChild, PastStdin, PastStdout, PastStderr
  <2>3. \A n \in {at["control_w"], at["interpreter"]} :
          file'[n] = file[n] /\ (n \in cloexec => n \in cloexec')
    BY Zenon, <2>1, <2>2, CloseFdsFacts
  <2> QED
    BY Zenon, <2>1, <2>3 DEF ChildInv, FailureIsReported, InChild, PastStdin, PastStdout, PastStderr
<1>10. CASE Execute
  <2>1. pc \in InChild /\ (pc' = "program" \/ Report)
    BY Zenon, <1>10 DEF Execute, InChild, PastStdin, PastStdout, PastStderr
  <2> QED
    BY Zenon, <1>1, <1>2, <2>1 DEF InChild, PastStdin, PastStdout, PastStderr
<1>11. CASE Replace \/ UNCHANGED vars
  BY Zenon, <1>3, <1>11 DEF Replace, vars, table
<1>12. CASE HostOpens \/ HostCloses
  <2>1. pc' \notin InChild /\ pc' # "failed"
    BY Zenon, <1>12, PipeFacts DEF HostOpens, HostCloses, BeforeFork, InChild, PastStdin, PastStdout,
       PastStderr
  <2> QED
    BY Zenon, <1>1, <2>1
<1> QED
  BY Zenon, <1>4, <1>5, <1>6, <1>7, <1>8, <1>9, <1>10, <1>11, <1>12 DEF Next

\* A program is executed only from a descriptor above the streams.
LEMMA ProgramIsAbove ==
    ASSUME LaunchInv, pc = "exec", file[at["interpreter"]] \in Regular
    PROVE  at["interpreter"] \in 3..Top
<1>1. at["interpreter"] \in 0..Top /\ Top \in Nat
  BY Zenon, LaunchAssumption DEF LaunchInv, ChildInv, Fd, InChild, PastStdin, PastStdout, PastStderr
<1>2. \A n \in 0..2 : file[n] \notin Regular
  BY DEF LaunchInv, StreamInv, Done, InChild, PastStdin, PastStdout, PastStderr
<1>3. at["interpreter"] \notin 0..2
  BY Zenon, <1>2
<1> QED
  BY <1>1, <1>3

\* The streams that were installed stay, and the others stay taken.
LEMMA StreamKept ==
    ASSUME LaunchInv, [Next]_vars
    PROVE  StreamInv'
<1> USE DEF LaunchInv
<1>1. CASE pc' \notin InChild /\ pc' # "program"
  BY Zenon, <1>1 DEF StreamInv, StreamsAsRequested
<1>2. CASE UNCHANGED <<pc, policy, file, cloexec, at>>
  BY Zenon, <1>2 DEF StreamInv, StreamsAsRequested, Done, Stream, Wanted
<1>3. pc \in InChild => 3 <= Top /\ \A n \in 0..2 : n \in Fd
  <2>1. pc \in InChild => at["control_w"] \in 3..Top
    BY Zenon DEF ChildInv
  <2> QED
    BY <2>1, LaunchAssumption DEF Fd
<1>4. CASE Inspect \/ InspectHash \/ AdmitRoot \/ AdmitResource \/ OpenInterpreter \/ Digest
           \/ MakePipe
  <2>1. pc' \notin InChild /\ pc' # "program"
    BY Zenon, <1>4, PipeFacts DEF Inspect, InspectHash, AdmitRoot, AdmitResource, OpenInterpreter,
       Digest, MakePipe, Refuse, InChild, PastStdin, PastStdout, PastStderr, PastOutput,
       PastError, PastControl, PastReady, PastStart
  <2> QED
    BY Zenon, <1>1, <2>1
<1>5. CASE Fork
  <2>1. pc' = "stdin" \/ pc' = "refused"
    BY Zenon, <1>5 DEF Fork, Refuse
  <2> QED
    BY Zenon, <1>1, <1>5, <2>1, ForkedChild DEF InChild, PastStdin, PastStdout, PastStderr
<1>6. CASE StandardInput \/ StandardOutput \/ StandardError
  <2>1. pc \in InChild
    BY Zenon, <1>6 DEF StandardInput, StandardOutput, StandardError, InChild, PastStdin, PastStdout
  <2>2. CASE pc' = "failed"
    BY Zenon, <1>1, <2>2 DEF InChild, PastStdin, PastStdout, PastStderr
  <2>3. CASE pc' # "failed"
    <3>1. PICK t \in 0..2 :
             /\ \/ t = 0 /\ pc = "stdin" /\ pc' = "stdout"
                \/ t = 1 /\ pc = "stdout" /\ pc' = "stderr"
                \/ t = 2 /\ pc = "stderr" /\ pc' \in {"mount", "limits"}
             /\ UNCHANGED <<at, policy>>
             /\ cloexec' = cloexec \ {t}
             /\ \A m \in Fd \ {t} : file'[m] = file[m]
             /\ file'[t] \notin Regular
             /\ file[t] # "none" => file'[t] = Stream(t)
      BY Zenon, <1>6, <2>3, StandardStep
    <3>2. \A n \in 0..2 : /\ Done(n)' <=> Done(n) \/ n = t
                          /\ Done(n) => n # t
                          /\ Stream(n)' = Stream(n)
      BY <3>1 DEF Done, Stream, Wanted, PastStdin, PastStdout, PastStderr
    <3>3. \A n \in 0..2 : n # t => file'[n] = file[n]
      BY Zenon, <1>3, <2>1, <3>1
    <3>4. \A n \in 0..2 :
            /\ Done(n) => file[n] \notin Regular
            /\ at["interpreter"] >= 3 =>
                 IF Done(n) THEN file[n] = Stream(n) /\ n \notin cloexec ELSE file[n] # "none"
      BY Zenon, <2>1 DEF StreamInv
    <3>5. ASSUME NEW n \in 0..2
          PROVE  /\ Done(n)' => file'[n] \notin Regular
                 /\ at'["interpreter"] >= 3 =>
                      IF Done(n)' THEN file'[n] = Stream(n)' /\ n \notin cloexec'
                                  ELSE file'[n] # "none"
      <4>1. CASE n = t
        BY Zenon, <3>1, <3>2, <3>4, <4>1
      <4>2. CASE n # t
        BY Zenon, <3>1, <3>2, <3>3, <3>4, <4>2
      <4> QED
        BY Zenon, <4>1, <4>2
    <3> QED
      BY Zenon, <3>1, <3>5 DEF StreamInv, StreamsAsRequested
  <2> QED
    BY Zenon, <2>2, <2>3
<1>7. CASE Mount
  <2>1. CASE pc' = "limits" /\ UNCHANGED table
    BY Zenon, <1>7, <2>1 DEF Mount, table, chosen, StreamInv, StreamsAsRequested, Done, Stream,
       Wanted, InChild, PastStdin, PastStdout, PastStderr
  <2> QED
    BY Zenon, <1>1, <1>7, <2>1 DEF Mount, Report, InChild, PastStdin, PastStdout, PastStderr
<1>8. CASE Limits \/ CloseFds
  <2>1. CASE pc' \notin {"close", "exec"}
    BY Zenon, <1>1, <1>8, <2>1 DEF Limits, CloseFds, Report, InChild, PastStdin, PastStdout, PastStderr
  <2>2. CASE pc' \in {"close", "exec"}
    <3>1. pc \in {"limits", "close"} /\ pc \in InChild /\ UNCHANGED policy
      BY Zenon, <1>8, <2>2 DEF Limits, CloseFds, chosen, InChild, PastStdin, PastStdout, PastStderr
    <3>2. /\ at'["interpreter"] = at["interpreter"]
          /\ cloexec' \subseteq cloexec
          /\ \A n \in 0..2 : file'[n] \in {file[n], "none"}
          /\ at["interpreter"] >= 3 => \A n \in 0..2 : file'[n] = file[n]
      <4>1. CASE CloseFds
        <5>1. /\ at["control_w"] \in 3..Top /\ at["interpreter"] \in Fd
              /\ at["control_w"] # at["interpreter"]
          BY Zenon, <3>1 DEF ChildInv
        <5>2. at["control_w"] \in Fd /\ at["control_w"] >= 3
          BY <5>1, LaunchAssumption DEF Fd
        <5>3. CloseFdsExcept(at["control_w"], at["interpreter"]) /\ UNCHANGED at
          BY Zenon, <4>1 DEF CloseFds
        <5> QED
          BY <1>3, <3>1, <5>1, <5>2, <5>3, CloseFdsFacts
      <4>2. CASE Limits
        <5>1. pc = "limits" /\ Reset({"ready_w", "start_r"})
          BY Zenon, <2>2, <4>2 DEF Limits, Report
        <5>2. \A h \in {"ready_w", "start_r"} : at[h] \in 3..Top
          BY Zenon, <5>1 DEF ChildInv, InChild, PastStdin, PastStdout, PastStderr
        <5>3. \A n \in 0..2 : n \notin {at[h] : h \in {"ready_w", "start_r"}}
          BY <5>2, LaunchAssumption
        <5> QED
          BY Zenon, <1>3, <3>1, <5>1, <5>3 DEF Reset, Close, Handles
      <4> QED
        BY Zenon, <1>8, <4>1, <4>2
    <3>3. \A n \in 0..2 : Done(n) /\ Done(n)' /\ Stream(n)' = Stream(n)
      BY <2>2, <3>1 DEF Done, Stream, Wanted, PastStdin, PastStdout, PastStderr
    <3>4. "none" \notin Regular
      BY Zenon DEF Regular
    <3> QED
      BY Zenon, <2>2, <3>1, <3>2, <3>3, <3>4 DEF StreamInv, StreamsAsRequested
  <2> QED
    BY Zenon, <2>1, <2>2
<1>9. CASE Execute
  <2>1. CASE pc' = "failed"
    BY Zenon, <1>1, <2>1 DEF InChild, PastStdin, PastStdout, PastStderr
  <2>2. CASE pc' = "program"
    <3>1. /\ pc = "exec" /\ file[at["interpreter"]] \in Regular /\ Close(cloexec)
          /\ UNCHANGED policy /\ pc \in InChild
      BY Zenon, <1>9, <2>2 DEF Execute, Report, chosen, InChild, PastStdin, PastStdout, PastStderr
    <3>2. at["interpreter"] >= 3
      BY <3>1, ProgramIsAbove, LaunchAssumption
    <3>3. \A n \in 0..2 : file[n] = Stream(n) /\ n \notin cloexec
      BY <3>1, <3>2 DEF StreamInv, Done, PastStdin, PastStdout, PastStderr
    <3>4. \A n \in 0..2 : file'[n] = Stream(n)
      BY Zenon, <1>3, <3>1, <3>3 DEF Close
    <3> QED
      BY <2>2, <3>1, <3>4 DEF StreamInv, StreamsAsRequested, Stream, Wanted, InChild,
         PastStdin, PastStdout, PastStderr
  <2> QED
    BY Zenon, <1>9, <2>1, <2>2 DEF Execute, Report
<1>10. CASE Replace \/ UNCHANGED vars
  BY Zenon, <1>2, <1>10 DEF Replace, vars, table, chosen
<1>11. CASE HostOpens \/ HostCloses
  <2>1. pc' \notin InChild /\ pc' # "program"
    BY Zenon, <1>11, PipeFacts DEF HostOpens, HostCloses, BeforeFork, InChild, PastStdin, PastStdout,
       PastStderr
  <2> QED
    BY Zenon, <1>1, <2>1
<1> QED
  BY Zenon, <1>4, <1>5, <1>6, <1>7, <1>8, <1>9, <1>10, <1>11 DEF Next

(***************************************************************************)
(* The program.                                                            *)
(***************************************************************************)
\* Only the opening of the interpreter puts a regular file into the table.
LEMMA NoNewProgram ==
    ASSUME LaunchInv, [Next]_vars, ~OpenInterpreter
    PROVE  \A n \in Fd : file'[n] \in Regular => file'[n] = file[n]
<1> USE DEF LaunchInv
<1> DEFINE Goal == \A n \in Fd : file'[n] \in Regular => file'[n] = file[n]
<1>1. file \in [Fd -> Files] /\ "none" \notin Regular /\ "null" \notin Regular
      /\ "host" \notin Regular /\ \A h \in Handles : h \notin Regular
  BY Zenon DEF TypeOK, TableType, Regular, Handles, ParentEnds
<1>2. ASSUME NEW what, what \notin Regular, NEW h, Open(what, h) PROVE Goal
  <2>1. PICK n \in Fd : file' = [file EXCEPT ![n] = what]
    BY Zenon, <1>2, OpenFacts
  <2> QED
    BY Zenon, <1>1, <1>2, <2>1
<1>3. ASSUME NEW ns, Close(ns) PROVE Goal
  BY Zenon, <1>1, <1>3 DEF Close
<1>4. CASE UNCHANGED file
  BY Zenon, <1>4
<1>5. CASE MakePipe
  <2> DEFINE ends == PipeEnds[pc]
  <2>1. CASE Pipe2(ends) /\ pc \in DOMAIN PipeEnds
    <3>1. ends[1] \notin Regular /\ ends[2] \notin Regular /\ ends[1] # "none"
      BY Zenon, <1>1, <2>1, PipeFacts
    <3>2. PICK r, w \in Fd : file' = [file EXCEPT ![r] = ends[1], ![w] = ends[2]]
      BY Zenon, <2>1, <3>1, Pipe2Facts
    <3> HIDE DEF ends
    <3> QED
      BY Zenon, <1>1, <3>1, <3>2
  <2> QED
    BY Zenon, <1>4, <1>5, <2>1 DEF MakePipe, Refuse, table
<1>6. CASE AdmitRoot \/ AdmitResource
  <2>1. "root_view" \notin Regular /\ "resource" \notin Regular
    BY Zenon DEF Regular
  <2> QED
    BY Zenon, <1>2, <1>4, <1>6, <2>1 DEF AdmitRoot, AdmitResource, Refuse, table
<1>7. CASE Fork \/ Limits \/ CloseFds \/ Execute \/ HostCloses
  BY Zenon, <1>3, <1>4, <1>7 DEF HostCloses, Fork, Limits, Reset, CloseFds, CloseFdsExcept, Execute, Refuse, table
<1>8. CASE StandardInput \/ StandardOutput \/ StandardError
  <2>1. CASE pc' = "failed"
    BY Zenon, <1>4, <1>8, <2>1 DEF StandardInput, StandardOutput, StandardError, table
  <2>2. CASE pc' # "failed"
    <3>1. PICK t \in 0..2 : /\ \A m \in Fd \ {t} : file'[m] = file[m]
                           /\ file'[t] \notin Regular
      BY Zenon, <1>8, <2>2, StandardStep
    <3> QED
      BY Zenon, <3>1
  <2> QED
    BY Zenon, <2>1, <2>2
<1>9. CASE HostOpens
  <2>1. PICK n \in Fd : file' = [file EXCEPT ![n] = "host"]
    BY Zenon, <1>9, LowestIsFree DEF HostOpens
  <2> QED
    BY Zenon, <1>1, <2>1
<1>10. CASE Inspect \/ InspectHash \/ Digest \/ Mount \/ Replace \/ UNCHANGED vars
  BY Zenon, <1>4, <1>10 DEF Inspect, InspectHash, Digest, Mount, Replace, vars, table
<1> QED
  BY Zenon, <1>5, <1>6, <1>7, <1>8, <1>9, <1>10 DEF Next

\* Past the digest every regular file in the table is the one that was bound.
LEMMA ExactKept ==
    ASSUME LaunchInv, [Next]_vars
    PROVE  ExactInv'
<1> USE DEF LaunchInv
<1> DEFINE Before == Parent \ ({"digest"} \cup PastDigest)
           Past == PastDigest \cup InChild
<1>1. CASE OpenInterpreter
  <2>1. CASE pc' = "refused"
    BY Zenon, <2>1 DEF ExactInv, ExactInterpreter, Parent, PastDigest, PastOutput, PastError,
       PastControl, PastReady, PastStart, InChild, PastStdin, PastStdout, PastStderr
  <2>2. CASE pc' # "refused"
    <3>1. pc = "open" /\ pc' = "digest" /\ Open(path, "interpreter")
      BY Zenon, <1>1, <2>2 DEF OpenInterpreter, Refuse
    <3>2. \A n \in Fd : file[n] \notin Regular
      BY Zenon, <3>1 DEF ExactInv, Parent, PastDigest, PastOutput, PastError, PastControl, PastReady,
         PastStart
    <3>3. PICK n \in Fd : /\ file' = [file EXCEPT ![n] = path]
                          /\ at' = [at EXCEPT !["interpreter"] = n]
      BY <3>1, OpenFacts
    <3>4. \A m \in Fd : file'[m] \in Regular => m = at'["interpreter"]
      BY Zenon, <3>2, <3>3 DEF TypeOK, TableType, Handles
    <3> QED
      BY Zenon, <3>1, <3>4 DEF ExactInv, ExactInterpreter, Parent, PastDigest, PastOutput, PastError,
         PastControl, PastReady, PastStart, InChild, PastStdin, PastStdout, PastStderr
  <2> QED
    BY Zenon, <2>1, <2>2
<1>2. CASE ~OpenInterpreter
  <2>1. \A n \in Fd : file'[n] \in Regular => file'[n] = file[n]
    BY Zenon, <1>2, NoNewProgram
  <2>2. CASE Inspect \/ InspectHash \/ AdmitRoot \/ AdmitResource
    <3>1. pc \in Before /\ pc' \in {"hash", "rejected", "admit", "open", "resource", "refused"}
      BY Zenon, <2>2 DEF Inspect, InspectHash, AdmitRoot, AdmitResource, Refuse, Parent, PastDigest,
         PastOutput, PastError, PastControl, PastReady, PastStart
    <3>2. \A n \in Fd : file'[n] \notin Regular
      BY Zenon, <2>1, <3>1 DEF ExactInv
    <3> QED
      BY Zenon, <3>1, <3>2 DEF ExactInv, ExactInterpreter, PastDigest, PastOutput, PastError,
         PastControl, PastReady, PastStart, InChild, PastStdin, PastStdout, PastStderr
  <2>3. CASE Digest
    <3>1. CASE pc' = "refused"
      BY Zenon, <3>1 DEF ExactInv, ExactInterpreter, Parent, PastDigest, PastOutput, PastError,
         PastControl, PastReady, PastStart, InChild, PastStdin, PastStdout, PastStderr
    <3>2. CASE pc' # "refused"
      <4>1. pc = "digest" /\ pc' = "output" /\ DigestMatches /\ UNCHANGED <<bound, table>>
        BY Zenon, <2>3, <3>2 DEF Digest
      <4>2. \A n \in Fd : file[n] \in Regular => file[n] = bound
        BY Zenon, <4>1 DEF ExactInv, DigestMatches
      <4> QED
        BY Zenon, <4>1, <4>2 DEF table, ExactInv, ExactInterpreter, Parent, PastDigest
    <3> QED
      BY Zenon, <3>1, <3>2
  <2>4. CASE Replace \/ HostOpens \/ HostCloses \/ UNCHANGED vars
    <3>1. UNCHANGED <<pc, at, bound, ran>>
      BY Zenon, <2>4 DEF Replace, HostOpens, HostCloses, vars, table
    <3> QED
      BY Zenon, <2>1, <3>1 DEF ExactInv, ExactInterpreter
  <2>5. CASE \/ MakePipe \/ Fork \/ StandardInput \/ StandardOutput \/ StandardError \/ Mount
             \/ Limits \/ CloseFds
    <3>1. /\ pc \in Past /\ UNCHANGED <<bound, ran>>
          /\ pc' \in Past \cup {"refused", "failed", "aborted"}
      <4>1. CASE MakePipe
        BY Zenon, <4>1, PipeFacts DEF MakePipe, Refuse, PastDigest, PastOutput, PastError, PastControl,
           PastReady, PastStart
      <4> QED
        BY Zenon, <2>5, <4>1 DEF Fork, StandardInput, StandardOutput, StandardError, Mount, Limits,
           CloseFds, Refuse, Report, InChild, PastStdin, PastStdout, PastStderr, PastDigest,
           PastOutput, PastError, PastControl, PastReady, PastStart
    <3>2. \A n \in Fd : file'[n] \in Regular => file'[n] = bound'
      BY Zenon, <2>1, <3>1 DEF ExactInv
    <3>3. pc' \notin Before /\ pc' # "digest" /\ pc' # "program"
      BY Zenon, <3>1 DEF Parent, InChild, PastStdin, PastStdout, PastStderr, PastDigest, PastOutput,
         PastError, PastControl, PastReady, PastStart
    <3> QED
      BY Zenon, <3>2, <3>3 DEF ExactInv, ExactInterpreter
  <2>6. CASE Execute
    <3>1. pc = "exec" /\ pc \in Past /\ pc' \in {"program", "failed"} /\ UNCHANGED bound
      BY Zenon, <2>6 DEF Execute, Report, InChild, PastStdin, PastStdout, PastStderr
    <3>2. pc' = "program" => ran' = bound
      <4>1. SUFFICES ASSUME pc' = "program" PROVE ran' = bound
        BY Zenon
      <4>2. file[at["interpreter"]] \in Regular /\ ran' = file[at["interpreter"]]
        BY Zenon, <2>6, <4>1 DEF Execute, Report
      <4>3. at["interpreter"] \in Fd
        BY Zenon, <3>1 DEF ChildInv, InChild, PastStdin, PastStdout, PastStderr
      <4> QED
        BY Zenon, <3>1, <4>2, <4>3 DEF ExactInv
    <3> QED
      BY Zenon, <3>1, <3>2 DEF ExactInv, ExactInterpreter, Parent, InChild, PastStdin, PastStdout,
         PastStderr, PastDigest, PastOutput, PastError, PastControl, PastReady, PastStart
  <2> QED
    BY Zenon, <1>2, <2>2, <2>3, <2>4, <2>5, <2>6 DEF Next
<1> QED
  BY Zenon, <1>1, <1>2

\* What close_fds_except leaves below the limit, execveat closes.
LEMMA ClosedKept ==
    ASSUME LaunchInv, [Next]_vars
    PROVE  ClosedInv'
<1> USE DEF LaunchInv
<1>1. CASE pc' \notin {"exec", "program"}
  BY Zenon, <1>1 DEF ClosedInv, SurvivorsAreAboveLimit
<1>2. CASE CloseFds
  <2>1. /\ pc = "close" /\ pc' = "exec" /\ UNCHANGED <<at, setup, limit>>
        /\ CloseFdsExcept(at["control_w"], at["interpreter"])
    BY Zenon, <1>2 DEF CloseFds, chosen
  <2>2. at["control_w"] \in 3..Top /\ at["interpreter"] \in Fd
        /\ at["control_w"] # at["interpreter"]
    BY Zenon, <2>1 DEF ChildInv, InChild, PastStdin, PastStdout, PastStderr
  <2>3. at["control_w"] \in Fd /\ at["control_w"] >= 3
    BY <2>2, LaunchAssumption DEF Fd
  <2>4. at["interpreter"] >= 3 =>
          \A n \in 3..Top : n \notin {at["control_w"], at["interpreter"]} =>
            file'[n] = "none" \/ BeyondLoop(n)
    BY Zenon, <2>1, <2>2, <2>3, CloseFdsFacts
  <2> QED
    BY Zenon, <2>1, <2>4 DEF ClosedInv, BeyondLoop, SurvivorsAreAboveLimit
<1>3. CASE Execute /\ pc' = "program"
  <2>1. /\ pc = "exec" /\ file[at["interpreter"]] \in Regular /\ Close(cloexec)
        /\ UNCHANGED <<setup, limit>>
    BY Zenon, <1>3 DEF Execute, Report, chosen
  <2>2. at["interpreter"] \in 3..Top /\ at["interpreter"] >= 3
    BY <2>1, ProgramIsAbove, LaunchAssumption
  <2>3. at["control_w"] \in cloexec /\ at["interpreter"] \in cloexec
    BY Zenon, <2>1, <2>2 DEF ChildInv, InChild, PastStdin, PastStdout, PastStderr
  <2>4. \A n \in 3..Top : n \in Fd
    BY LaunchAssumption DEF Fd
  <2>5. ASSUME NEW n \in 3..Top, file'[n] # "none"
        PROVE  file'[n] = "host" /\ BeyondLoop(n)
    <3>1. n \notin cloexec /\ file'[n] = file[n]
      BY Zenon, <2>1, <2>4, <2>5 DEF Close
    <3>2. file[n] = "host"
      BY Zenon, <2>5, <3>1 DEF MarkedInv
    <3>3. n \notin {at["control_w"], at["interpreter"]}
      BY Zenon, <2>3, <3>1
    <3>4. BeyondLoop(n)
      BY Zenon, <2>1, <2>2, <2>5, <3>1, <3>3 DEF ClosedInv
    <3> QED
      BY Zenon, <3>1, <3>2, <3>4
  <2> QED
    BY Zenon, <1>3, <2>1, <2>5 DEF ClosedInv, BeyondLoop, SurvivorsAreAboveLimit
<1>4. CASE Replace \/ UNCHANGED vars
  BY Zenon, <1>4 DEF Replace, vars, table, chosen, ClosedInv, BeyondLoop, SurvivorsAreAboveLimit
<1>5. CASE MakePipe
  BY Zenon, <1>1, <1>5, PipeFacts DEF MakePipe, Refuse, PastOutput, PastError, PastControl, PastReady,
     PastStart
<1>6. CASE HostOpens \/ HostCloses
  BY Zenon, <1>1, <1>6, PipeFacts DEF HostOpens, HostCloses, BeforeFork
<1> QED
  BY Zenon, <1>1, <1>2, <1>3, <1>4, <1>5, <1>6 DEF Next, Inspect, InspectHash, AdmitRoot,
     AdmitResource, OpenInterpreter, Digest, Fork, StandardInput, StandardOutput, StandardError,
     Mount, Limits, Execute, Refuse, Report

(***************************************************************************)
(* The invariant and what it says.                                         *)
(***************************************************************************)
\* Before the inspection the execution has no descriptor.
LEMMA InitInvariant == Init => LaunchInv
<1> SUFFICES ASSUME Init PROVE LaunchInv
  BY Zenon
<1>1. /\ pc = "inspect" /\ cloexec = {} /\ at = [h \in Handles |-> -1]
      /\ \A n \in Fd : file[n] \in {"host", "none"}
  BY Zenon DEF Init
<1>2. PackedInv /\ MarkedInv
  <2>1. \A n \in 3..Top : n \in Fd
    BY LaunchAssumption DEF Fd
  <2> QED
    BY Zenon, <1>1, <2>1 DEF PackedInv, Packed, MarkedInv
<1>3. OrderInv /\ ChildInv /\ StreamInv /\ ClosedInv
  BY Zenon, <1>1 DEF OrderInv, ChildInv, StreamInv, ClosedInv, FailureIsReported, StreamsAsRequested,
     SurvivorsAreAboveLimit, PastDigest, PastOutput, PastError, PastControl, PastReady, PastStart,
     InChild, PastStdin, PastStdout, PastStderr
<1>4. ExactInv
  BY Zenon, <1>1 DEF ExactInv, ExactInterpreter, Regular, PastDigest, PastOutput, PastError,
     PastControl, PastReady, PastStart, InChild, PastStdin, PastStdout, PastStderr
<1> QED
  BY Zenon, <1>2, <1>3, <1>4, InitType DEF LaunchInv

\* The invariant of a launch holds whatever descriptors the host was started
\* with and whatever its soft limit is, whatever its threads open meanwhile, whatever
\* they close above the standard descriptors, and whatever is renamed over the
\* interpreter's path (backend.cpp:632-736, 230-390).
THEOREM LaunchInvariant == Spec => []LaunchInv
<1>1. LaunchInv /\ [Next]_vars => LaunchInv'
  BY Zenon, TypeKept, PackedKept, MarkedKept, OrderKept, ChildKept, StreamKept, ExactKept, ClosedKept
     DEF LaunchInv
<1> QED
  BY <1>1, InitInvariant, PTL DEF Spec

\* The file that runs is the file whose digest was bound, for any number of
\* replacements at any moments (backend.cpp:639-663, 378-382).
THEOREM AlwaysExactInterpreter == Spec => []ExactInterpreter
<1>1. LaunchInv => ExactInterpreter
  BY Zenon DEF LaunchInv, ExactInv
<1> QED
  BY <1>1, LaunchInvariant, PTL

\* A program has the standard streams of its request, whichever standard
\* descriptors the host had closed (backend.cpp:283-317).
THEOREM StreamsAlwaysAsRequested == Spec => []StreamsAsRequested
<1>1. LaunchInv => StreamsAsRequested
  BY Zenon DEF LaunchInv, StreamInv
<1> QED
  BY <1>1, LaunchInvariant, PTL

\* A child that fails always has the control pipe to say so
\* (backend.cpp:236-253, 378-387).
THEOREM FailureAlwaysReported == Spec => []FailureIsReported
<1>1. LaunchInv => FailureIsReported
  BY Zenon DEF LaunchInv, ChildInv
<1> QED
  BY <1>1, LaunchInvariant, PTL

\* What a program has besides its standard streams is a descriptor of the host at or
\* above the soft limit, inherited or requested, and only where close_range does not
\* work (process_control.cpp:503-537, backend.cpp:378-382).
THEOREM SurvivorsAlwaysAboveLimit == Spec => []SurvivorsAreAboveLimit
<1>1. LaunchInv => SurvivorsAreAboveLimit
  BY Zenon DEF LaunchInv, ClosedInv
<1> QED
  BY <1>1, LaunchInvariant, PTL

\* Where close_range works, or no limit on open files is requested and no descriptor
\* is at or above the inherited one, the program has its standard streams and no other
\* descriptor (process_control.cpp:503-537, backend.cpp:378-382).
THEOREM OnlyStreamsAlwaysSurvive ==
    ASSUME \A s \in Setups : s.close_range \/ (s.open_files = None /\ s.soft = Top + 1)
    PROVE  Spec => []OnlyStreamsSurvive
<1>1. LaunchInv => OnlyStreamsSurvive
  <2> SUFFICES ASSUME LaunchInv, pc = "program", NEW n \in 3..Top, file[n] # "none"
               PROVE  FALSE
    BY Zenon DEF OnlyStreamsSurvive
  <2>1. BeyondLoop(n) /\ TypeOK
    BY Zenon DEF LaunchInv, ClosedInv, SurvivorsAreAboveLimit
  <2>2. setup.open_files = None /\ setup.soft = Top + 1
    BY Zenon, <2>1 DEF BeyondLoop, TypeOK
  <2>3. limit = Top + 1 /\ limit <= n
    BY Zenon, <2>1, <2>2 DEF BeyondLoop, TypeOK
  <2> QED
    BY <2>3, LaunchAssumption
<1> QED
  BY <1>1, LaunchInvariant, PTL
=============================================================================
