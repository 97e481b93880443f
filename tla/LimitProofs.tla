---------------------------- MODULE LimitProofs -----------------------------
(***************************************************************************)
(* Resource limits, for every size of rlim_t, every set of inherited and   *)
(* requested values and every fault, and the filter that seals them, for   *)
(* every set of calls the headers may define.                              *)
(*                                                                         *)
(* The kernel's interpreter is a recursive function over the program.      *)
(* That it has a value is shown by induction from the end of the program,  *)
(* where a return is; the induction rests on the least element of a set    *)
(* of numbers.  A block whose jumps lead into it or just behind it can be  *)
(* put in front of a program: what it does is then read off its            *)
(* instructions, and what it lets pass is decided by the program behind.   *)
(***************************************************************************)
EXTENDS ResourceLimits, WellFoundedInduction, TLAPS

(***************************************************************************)
(* Programs and their interpreter.                                         *)
(***************************************************************************)
\* A set of natural numbers that is not empty has a least element.
LEMMA LeastNumber ==
    ASSUME NEW T, T \subseteq Nat, T # {}
    PROVE  \E n \in T : \A m \in T : n <= m
<1>1. PICK n \in T : \A m \in T : <<m, n>> \notin OpToRel(<, Nat)
  BY Zenon, NatLessThanWellFounded, WFMin
<1>2. \A m \in T : ~(m < n)
  BY Zenon, <1>1 DEF OpToRel
<1> QED BY <1>2

\* What a program may return, load and consist of.
Action == {"kill", "EPERM", "ENOSYS", "allow"}
Field == {"arch", "nr", "arg0", "new_limit_low", "new_limit_high"}
Jump == {"equal", "any_set"}
Instruction ==
    [op : {"load"}, k : Field] \cup [op : {"return"}, k : Action]
    \cup [op : Jump, k : Words, jt : Nat, jf : Nat]

\* A program the kernel accepts.
Program(q) ==
    /\ q \in Seq(Instruction) /\ q # <<>>
    /\ Loadable(q)

\* A load puts a word into the accumulator.
LEMMA FieldIsWord ==
    ASSUME NEW call \in Calls, NEW k \in Field
    PROVE  call[k] \in Words
<1>1. /\ call.arch \in {Native, "i386"} /\ call.nr \in Numbers \cup {"read", "x32"}
      /\ call.arg0 \in {"new_namespace", "setsid", "other"}
      /\ call.new_limit_low \in {"zero", "other"} /\ call.new_limit_high \in {"zero", "other"}
  BY DEF Calls
<1> QED BY Zenon, <1>1 DEF Field, Words, Numbers, DeniedByNumber, Native

\* One step of the interpreter, where f is what happens from later places on.
Step(q, call, f, pc, word) ==
    CASE q[pc].op = "load"   -> f[<<pc + 1, call[q[pc].k]>>]
      [] q[pc].op = "return" -> q[pc].k
      [] OTHER -> f[<<pc + 1 + IF word = q[pc].k THEN q[pc].jt ELSE q[pc].jf, word>>]

\* The instructions of a program, and where they lead.
LEMMA InstructionFacts ==
    ASSUME NEW q, Program(q), NEW pc \in 1..Len(q)
    PROVE  /\ Len(q) \in Nat \ {0}
           /\ \/ q[pc].op = "load" /\ q[pc].k \in Field /\ pc + 1 \in 1..Len(q)
              \/ q[pc].op = "return" /\ q[pc].k \in Action
              \/ /\ q[pc].op \in Jump /\ q[pc].k \in Words
                 /\ q[pc].jt \in Nat /\ q[pc].jf \in Nat
                 /\ pc + 1 + q[pc].jt \in 1..Len(q) /\ pc + 1 + q[pc].jf \in 1..Len(q)
<1>1. q \in Seq(Instruction) /\ Len(q) \in Nat \ {0} /\ DOMAIN q = 1..Len(q)
  BY DEF Program
<1>2. q[pc] \in Instruction
  BY <1>1
<1>3. q[Len(q)].op = "return"
  BY Zenon DEF Program, Loadable
<1>4. CASE q[pc] \in [op : {"load"}, k : Field]
  BY <1>1, <1>3, <1>4
<1>5. CASE q[pc] \in [op : {"return"}, k : Action]
  BY Zenon, <1>1, <1>5
<1>6. CASE q[pc] \in [op : Jump, k : Words, jt : Nat, jf : Nat]
  <2>1. pc + 1 + q[pc].jt <= Len(q) /\ pc + 1 + q[pc].jf <= Len(q)
    BY Zenon, <1>1, <1>6 DEF Program, Loadable, Jump
  <2> QED BY <1>1, <1>6, <2>1
<1> QED BY Zenon, <1>2, <1>4, <1>5, <1>6 DEF Instruction

\* The definition of the interpreter, by its step.
LEMMA RunIs ==
    ASSUME NEW q, NEW call
    PROVE  Run(q, call) =
             CHOOSE f : f = [s \in (1..Len(q)) \X Words |-> Step(q, call, f, s[1], s[2])]
BY Zenon DEF Run, Step

\* A step of the interpreter depends on what comes after its instruction only.
LEMMA StepAgrees ==
    ASSUME NEW q, Program(q), NEW call \in Calls, NEW pc \in 1..Len(q), NEW word \in Words,
           NEW f, NEW g,
           \A n \in (pc + 1)..Len(q) : \A w \in Words : f[<<n, w>>] = g[<<n, w>>]
    PROVE  Step(q, call, f, pc, word) = Step(q, call, g, pc, word)
<1>1. CASE q[pc].op = "load" /\ q[pc].k \in Field /\ pc + 1 \in 1..Len(q)
  <2>1. call[q[pc].k] \in Words /\ pc + 1 \in (pc + 1)..Len(q)
    BY <1>1, FieldIsWord
  <2> QED BY Zenon, <1>1, <2>1 DEF Step
<1>2. CASE q[pc].op = "return"
  BY Zenon, <1>2 DEF Step
<1>3. CASE /\ q[pc].op \in Jump /\ q[pc].jt \in Nat /\ q[pc].jf \in Nat
           /\ pc + 1 + q[pc].jt \in 1..Len(q) /\ pc + 1 + q[pc].jf \in 1..Len(q)
  <2> DEFINE to == pc + 1 + IF word = q[pc].k THEN q[pc].jt ELSE q[pc].jf
  <2>1. to \in (pc + 1)..Len(q)
    BY <1>3
  <2>2. q[pc].op # "load" /\ q[pc].op # "return"
    BY Zenon, <1>3 DEF Jump
  <2>3. Step(q, call, f, pc, word) = f[<<to, word>>] /\ Step(q, call, g, pc, word) = g[<<to, word>>]
    BY Zenon, <2>2 DEF Step
  <2> HIDE DEF to
  <2> QED BY Zenon, <2>1, <2>3
<1> QED BY Zenon, <1>1, <1>2, <1>3, InstructionFacts

\* The interpreter is defined on every program the kernel accepts: it only goes
\* forward, and the last instruction returns.
LEMMA RunDef ==
    ASSUME NEW q, Program(q), NEW call \in Calls
    PROVE  \A pc \in 1..Len(q) : \A word \in Words :
             Run(q, call)[<<pc, word>>] = Step(q, call, Run(q, call), pc, word)
<1> DEFINE Rest(n) == (Len(q) - n)..Len(q)
           Solves(f, n) == f = [s \in Rest(n) \X Words |-> Step(q, call, f, s[1], s[2])]
           N == Len(q)
<1>0. N \in Nat \ {0}
  BY DEF Program
<1>1. \A n \in 0..(N - 1) : \E f : Solves(f, n)
  <2> DEFINE T == {n \in 0..(N - 1) : ~\E f : Solves(f, n)}
  <2> SUFFICES ASSUME T # {} PROVE FALSE
    BY Zenon
  <2>1. PICK n \in T : \A m \in T : n <= m
    <3>1. T \subseteq Nat
      BY <1>0
    <3> QED BY Zenon, <3>1, LeastNumber
  <2> DEFINE at == N - n
  <2>2. n \in Nat /\ at \in 1..N /\ Rest(n) = at..N
    BY <1>0, <2>1
  <2>3. PICK f : n # 0 => Solves(f, n - 1)
    <3>1. n # 0 => n - 1 \in 0..(N - 1) /\ ~(n <= n - 1)
      BY <1>0, <2>2
    <3> HIDE DEF Solves
    <3> QED BY Zenon, <2>1, <3>1
  <2> DEFINE g == [s \in Rest(n) \X Words |->
                     IF s[1] = at THEN Step(q, call, f, s[1], s[2]) ELSE f[s]]
  <2>4. \A pc \in (at + 1)..N : \A word \in Words :
          f[<<pc, word>>] = Step(q, call, f, pc, word)
    <3>1. CASE n = 0
      BY <1>0, <2>2, <3>1
    <3>2. CASE n # 0
      <4>1. Rest(n - 1) = (at + 1)..N
        BY <1>0, <2>2
      <4> HIDE DEF Rest, at, N
      <4> QED BY Zenon, <2>3, <3>2, <4>1
    <3> QED BY Zenon, <3>1, <3>2
  <2>5. \A pc \in (at + 1)..N : \A word \in Words : g[<<pc, word>>] = f[<<pc, word>>]
    BY <1>0, <2>2
  <2>6. \A pc \in at..N : \A word \in Words : g[<<pc, word>>] = Step(q, call, f, pc, word)
    <3> SUFFICES ASSUME NEW pc \in at..N, NEW word \in Words
                 PROVE  g[<<pc, word>>] = Step(q, call, f, pc, word)
      BY Zenon
    <3>1. g[<<pc, word>>] = IF pc = at THEN Step(q, call, f, pc, word) ELSE f[<<pc, word>>]
      BY Zenon, <2>2
    <3>2. pc # at => pc \in (at + 1)..N
      BY <1>0, <2>2
    <3> HIDE DEF g, at
    <3> QED BY Zenon, <2>4, <3>1, <3>2
  <2>7. \A pc \in at..N : \A word \in Words :
          Step(q, call, f, pc, word) = Step(q, call, g, pc, word)
    <3> SUFFICES ASSUME NEW pc \in at..N, NEW word \in Words
                 PROVE  Step(q, call, f, pc, word) = Step(q, call, g, pc, word)
      BY Zenon
    <3>1. pc \in 1..N /\ (pc + 1)..N \subseteq (at + 1)..N
      BY <1>0, <2>2
    <3>2. \A m \in (pc + 1)..N : \A w \in Words : f[<<m, w>>] = g[<<m, w>>]
      BY Zenon, <2>5, <3>1
    <3> HIDE DEF g, at
    <3> QED BY <3>1, <3>2, StepAgrees
  <2>8. Solves(g, n)
    <3>1. g = [s \in Rest(n) \X Words |-> g[s]]
      BY Zenon
    <3>2. \A pc \in Rest(n) : \A word \in Words : g[<<pc, word>>] = Step(q, call, g, pc, word)
      <4> HIDE DEF g, at
      <4> QED BY Zenon, <2>2, <2>6, <2>7
    <3> HIDE DEF g, Rest
    <3>3. \A s \in Rest(n) \X Words : g[s] = Step(q, call, g, s[1], s[2])
      BY <3>2
    <3> QED BY Zenon, <3>1, <3>3
  <2> QED BY Zenon, <2>1, <2>8
<1>2. Rest(N - 1) = 1..N /\ N - 1 \in 0..(N - 1)
  BY <1>0
<1>3. Run(q, call) = CHOOSE f : f = [s \in (1..N) \X Words |-> Step(q, call, f, s[1], s[2])]
  BY Zenon, RunIs
<1>4. PICK h : h = [s \in (1..N) \X Words |-> Step(q, call, h, s[1], s[2])]
  BY ZenonT(40), <1>1, <1>2
<1>5. Run(q, call) = [s \in (1..N) \X Words |-> Step(q, call, Run(q, call), s[1], s[2])]
  BY Zenon, <1>3, <1>4
<1> QED BY Zenon, <1>5

\* The concatenation of two sequences.
LEMMA Concat ==
    ASSUME NEW S, NEW a \in Seq(S), NEW b \in Seq(S)
    PROVE  /\ a \o b \in Seq(S) /\ Len(a \o b) = Len(a) + Len(b)
           /\ \A i \in 1..Len(a) : (a \o b)[i] = a[i]
           /\ \A i \in 1..Len(b) : (a \o b)[Len(a) + i] = b[i]
           /\ Len(a) \in Nat /\ Len(b) \in Nat
OBVIOUS

\* A part of a program whose jumps lead into it or just behind it.
Block(b) ==
    /\ b \in Seq(Instruction)
    /\ \A pc \in 1..Len(b) :
         b[pc].op \in Jump => b[pc].jt <= Len(b) - pc /\ b[pc].jf <= Len(b) - pc

\* Such a part before a program is a program.
LEMMA BlockBefore ==
    ASSUME NEW b, Block(b), NEW q, Program(q)
    PROVE  Program(b \o q)
<1> DEFINE p == b \o q
<1>1. /\ b \in Seq(Instruction) /\ q \in Seq(Instruction) /\ Len(q) \in Nat \ {0}
      /\ q[Len(q)].op = "return" /\ DOMAIN q = 1..Len(q)
  BY DEF Block, Program, Loadable
<1>2. /\ p \in Seq(Instruction) /\ Len(p) = Len(b) + Len(q)
      /\ \A i \in 1..Len(b) : p[i] = b[i]
      /\ \A i \in 1..Len(q) : p[Len(b) + i] = q[i]
      /\ Len(b) \in Nat
  BY <1>1, Concat
<1> HIDE DEF p
<1>3. p # <<>> /\ DOMAIN p = 1..Len(p) /\ p[Len(p)].op = "return"
  BY <1>1, <1>2
<1>4. ASSUME NEW pc \in 1..Len(p), p[pc].op \in Jump
      PROVE  pc + 1 + p[pc].jt <= Len(p) /\ pc + 1 + p[pc].jf <= Len(p)
  <2>1. CASE pc \in 1..Len(b)
    <3>1. p[pc] = b[pc] /\ b[pc] \in Instruction
      BY <1>1, <1>2, <2>1
    <3>2. b[pc].jt \in Nat /\ b[pc].jf \in Nat
      BY Zenon, <1>4, <3>1 DEF Instruction, Jump
    <3>3. b[pc].jt <= Len(b) - pc /\ b[pc].jf <= Len(b) - pc
      BY Zenon, <1>4, <2>1, <3>1 DEF Block
    <3> QED BY <1>1, <1>2, <2>1, <3>1, <3>2, <3>3
  <2>2. CASE pc \notin 1..Len(b)
    <3> DEFINE i == pc - Len(b)
    <3>1. i \in 1..Len(q) /\ pc = Len(b) + i
      BY <1>1, <1>2, <2>2
    <3> HIDE DEF i
    <3>2. p[pc] = q[i]
      BY Zenon, <1>2, <3>1
    <3> DEFINE t == q[i].jt
               f == q[i].jf
    <3>3. t \in Nat /\ f \in Nat /\ i + 1 + t <= Len(q) /\ i + 1 + f <= Len(q)
      BY <1>4, <3>1, <3>2, InstructionFacts DEF Jump
    <3>4. Len(p) = Len(b) + Len(q) /\ Len(b) \in Nat /\ Len(q) \in Nat /\ i \in Nat
      BY <1>1, <1>2, <3>1
    <3> HIDE DEF t, f
    <3>5. pc + 1 + t <= Len(p) /\ pc + 1 + f <= Len(p)
      BY <3>1, <3>3, <3>4
    <3> QED BY Zenon, <3>2, <3>5 DEF t, f
  <2> QED BY Zenon, <2>1, <2>2
<1>5. Loadable(p)
  BY Zenon, <1>3, <1>4 DEF Loadable, Jump
<1> QED BY Zenon, <1>2, <1>3, <1>5 DEF Program, p

\* What a program does from one of its instructions on.
LEMMA RunFrom ==
    ASSUME NEW q, Program(q), NEW call \in Calls, NEW pc \in 1..Len(q), NEW word \in Words
    PROVE  LET R(n, w) == Run(q, call)[<<n, w>>] IN
           /\ \A k \in Field : q[pc] = Load(k) => R(pc, word) = R(pc + 1, call[k])
           /\ \A a \in Action : q[pc] = Return(a) => R(pc, word) = a
           /\ \A k \in Words, t \in Nat, f \in Nat :
                q[pc] = IfEqual(k, t, f) \/ q[pc] = IfAnySet(k, t, f) =>
                  R(pc, word) = IF word = k THEN R(pc + 1 + t, word) ELSE R(pc + 1 + f, word)
<1>1. Run(q, call)[<<pc, word>>] = Step(q, call, Run(q, call), pc, word)
  BY Zenon, RunDef
<1>2. ASSUME NEW k \in Field, q[pc] = Load(k)
      PROVE  Run(q, call)[<<pc, word>>] = Run(q, call)[<<pc + 1, call[k]>>]
  <2>1. q[pc].op = "load" /\ q[pc].k = k
    BY <1>2 DEF Load
  <2> QED BY Zenon, <1>1, <2>1 DEF Step
<1>3. ASSUME NEW a \in Action, q[pc] = Return(a)
      PROVE  Run(q, call)[<<pc, word>>] = a
  <2>1. q[pc].op = "return" /\ q[pc].op # "load" /\ q[pc].k = a
    BY <1>3 DEF Return
  <2> QED BY Zenon, <1>1, <2>1 DEF Step
<1>4. ASSUME NEW k \in Words, NEW t \in Nat, NEW f \in Nat,
             q[pc] = IfEqual(k, t, f) \/ q[pc] = IfAnySet(k, t, f)
      PROVE  Run(q, call)[<<pc, word>>] =
               IF word = k THEN Run(q, call)[<<pc + 1 + t, word>>]
                           ELSE Run(q, call)[<<pc + 1 + f, word>>]
  <2>1. /\ q[pc].op # "return" /\ q[pc].op # "load"
        /\ q[pc].k = k /\ q[pc].jt = t /\ q[pc].jf = f
    BY <1>4 DEF IfEqual, IfAnySet
  <2>2. Run(q, call)[<<pc, word>>] = Run(q, call)[<<pc + 1 + IF word = k THEN t ELSE f, word>>]
    BY Zenon, <1>1, <2>1 DEF Step
  <2> QED BY Zenon, <2>2
<1> QED BY Zenon, <1>2, <1>3, <1>4

\* A part that was left behind has no influence.
LEMMA RunBehind ==
    ASSUME NEW b, Block(b), NEW q, Program(q), NEW call \in Calls
    PROVE  \A pc \in 1..Len(q) : \A w \in Words :
             Run(b \o q, call)[<<Len(b) + pc, w>>] = Run(q, call)[<<pc, w>>]
<1> DEFINE p == b \o q
           N == Len(q)
           Agree(pc, w) == Run(p, call)[<<Len(b) + pc, w>>] = Run(q, call)[<<pc, w>>]
           T == {n \in 0..(N - 1) : \E w \in Words : ~Agree(N - n, w)}
<1>1. Program(p)
  BY Zenon, BlockBefore
<1>2. /\ Len(p) = Len(b) + N /\ \A i \in 1..N : p[Len(b) + i] = q[i]
      /\ Len(b) \in Nat /\ N \in Nat \ {0}
  <2>1. b \in Seq(Instruction) /\ q \in Seq(Instruction) /\ N # 0
    BY DEF Block, Program
  <2> QED BY <2>1, Concat
<1> HIDE DEF p
<1>3. ASSUME T # {} PROVE FALSE
  <2>1. PICK n \in T : \A m \in T : n <= m
    <3>1. T \subseteq Nat
      BY <1>2
    <3> QED BY Zenon, <1>3, <3>1, LeastNumber
  <2> DEFINE at == N - n
  <2>2. n \in 0..(N - 1) /\ at \in 1..N /\ Len(b) + at \in 1..Len(p) /\ p[Len(b) + at] = q[at]
    <3>1. n \in 0..(N - 1)
      BY Zenon
    <3>2. Len(p) = Len(b) + N /\ Len(b) \in Nat /\ N \in Nat
      BY Zenon, <1>2
    <3> HIDE DEF N, T
    <3>3. at \in 1..N /\ Len(b) + at \in 1..Len(p)
      BY <3>1, <3>2
    <3> QED BY Zenon, <1>2, <3>1, <3>3
  <2>3. PICK w \in Words : ~Agree(at, w)
    BY Zenon, <2>1
  <2>4. ASSUME NEW i \in (at + 1)..N, NEW v \in Words PROVE Agree(i, v)
    <3>1. N - i \in 0..(N - 1) /\ ~(n <= N - i) /\ N - (N - i) = i
      BY <1>2, <2>2
    <3> HIDE DEF Agree
    <3> QED BY Zenon, <2>1, <3>1
  <2>5. /\ Run(p, call)[<<Len(b) + at, w>>] = Step(p, call, Run(p, call), Len(b) + at, w)
        /\ Run(q, call)[<<at, w>>] = Step(q, call, Run(q, call), at, w)
    BY Zenon, <1>1, <2>2, RunDef
  <2> HIDE DEF at, N
  <2>6. CASE q[at].op = "load" /\ q[at].k \in Field /\ at + 1 \in 1..N
    <3>1. call[q[at].k] \in Words /\ at + 1 \in (at + 1)..N /\ Len(b) + at + 1 = Len(b) + (at + 1)
      <4>1. call[q[at].k] \in Words
        BY Zenon, <2>6, FieldIsWord
      <4>2. Len(b) \in Nat /\ at \in Nat /\ N \in Nat /\ at + 1 \in 1..N
        BY <1>2, <2>2, <2>6
      <4>3. at + 1 \in (at + 1)..N /\ Len(b) + at + 1 = Len(b) + (at + 1)
        BY <4>2
      <4> QED BY Zenon, <4>1, <4>3
    <3>2. Agree(at + 1, call[q[at].k])
      BY Zenon, <2>4, <3>1
    <3>3. Step(p, call, Run(p, call), Len(b) + at, w) =
            Run(p, call)[<<Len(b) + (at + 1), call[q[at].k]>>]
      BY Zenon, <2>2, <2>6, <3>1 DEF Step
    <3>4. Step(q, call, Run(q, call), at, w) = Run(q, call)[<<at + 1, call[q[at].k]>>]
      BY Zenon, <2>6 DEF Step
    <3> QED BY Zenon, <2>3, <2>5, <3>2, <3>3, <3>4
  <2>7. CASE q[at].op = "return"
    <3>1. /\ Step(p, call, Run(p, call), Len(b) + at, w) = q[at].k
          /\ Step(q, call, Run(q, call), at, w) = q[at].k
      BY Zenon, <2>2, <2>7 DEF Step
    <3> QED BY Zenon, <2>3, <2>5, <3>1
  <2>8. CASE /\ q[at].op \in Jump /\ q[at].jt \in Nat /\ q[at].jf \in Nat
             /\ at + 1 + q[at].jt \in 1..N /\ at + 1 + q[at].jf \in 1..N
    <3> DEFINE over == IF w = q[at].k THEN q[at].jt ELSE q[at].jf
               to == at + 1 + over
    <3>1. to \in (at + 1)..N /\ Len(b) + at + 1 + over = Len(b) + to
      <4>1. over \in Nat /\ to \in 1..N
        BY Zenon, <2>8
      <4>2. Len(b) \in Nat /\ at \in Nat /\ N \in Nat
        BY <1>2, <2>2
      <4> HIDE DEF over
      <4> QED BY <4>1, <4>2
    <3>2. q[at].op # "load" /\ q[at].op # "return"
      BY Zenon, <2>8 DEF Jump
    <3>3. Step(p, call, Run(p, call), Len(b) + at, w) = Run(p, call)[<<Len(b) + at + 1 + over, w>>]
      BY Zenon, <2>2, <3>2 DEF Step
    <3>4. Step(q, call, Run(q, call), at, w) = Run(q, call)[<<to, w>>]
      BY Zenon, <3>2 DEF Step
    <3> HIDE DEF to, over
    <3>5. Agree(to, w)
      BY Zenon, <2>4, <3>1
    <3> QED BY Zenon, <2>3, <2>5, <3>1, <3>3, <3>4, <3>5
  <2> QED BY Zenon, <2>2, <2>6, <2>7, <2>8, InstructionFacts DEF N
<1>4. ASSUME NEW pc \in 1..N, NEW w \in Words PROVE Agree(pc, w)
  <2>1. N - pc \in 0..(N - 1) /\ N - (N - pc) = pc
    BY <1>2
  <2> HIDE DEF Agree
  <2> QED BY Zenon, <1>3, <2>1
<1> QED BY Zenon, <1>4 DEF p

\* What a program that starts with a word in the accumulator returns.
Decides(q, call, word) == Run(q, call)[<<1, word>>]

\* In front of q, the program p decides about one number, about clone and about
\* prlimit64.
Guards(p, nr, action, q) ==
    /\ Program(p)
    /\ \A call \in Calls, word \in Words :
         Decides(p, call, word) = IF word = nr THEN action ELSE Decides(q, call, word)

GuardsClone(p, q) ==
    /\ Program(p)
    /\ \A call \in Calls, word \in Words :
         Decides(p, call, word) =
           IF word = "clone" /\ call.arg0 = "new_namespace" THEN "EPERM"
           ELSE Decides(q, call, call.nr)

GuardsPrlimit64(p, denial, q) ==
    /\ Program(p)
    /\ \A call \in Calls, word \in Words :
         Decides(p, call, word) =
           IF word # "prlimit64" THEN Decides(q, call, word)
           ELSE IF call.new_limit_low = "zero" /\ call.new_limit_high = "zero"
                THEN Decides(q, call, "zero") ELSE denial

\* The instructions of the program.
LEMMA Instructions ==
    /\ \A k \in Field : Load(k) \in Instruction /\ Load(k).op \notin Jump
    /\ \A a \in Action : Return(a) \in Instruction /\ Return(a).op \notin Jump
    /\ \A k \in Words, t \in Nat, f \in Nat :
         /\ IfEqual(k, t, f) \in Instruction /\ IfAnySet(k, t, f) \in Instruction
         /\ IfEqual(k, t, f).jt = t /\ IfEqual(k, t, f).jf = f
         /\ IfAnySet(k, t, f).jt = t /\ IfAnySet(k, t, f).jf = f
BY Zenon DEF Instruction, Load, Return, IfEqual, IfAnySet, Jump

\* The words that are tested for.
LEMMA TestedWords ==
    /\ Numbers \subseteq Words /\ {"zero", "new_namespace", Native} \subseteq Words
    /\ {"clone", "setrlimit", "prlimit64"} \subseteq Numbers /\ DeniedByNumber \subseteq Numbers
    /\ \A call \in Calls : /\ call.arch \in Words /\ call.nr \in Words /\ call.arg0 \in Words
                           /\ call.new_limit_low \in Words /\ call.new_limit_high \in Words
<1>1. DeniedByNumber \subseteq Numbers /\ "setsid" \in DeniedByNumber
  BY Zenon DEF Numbers, DeniedByNumber
<1> QED BY Zenon, <1>1, FieldIsWord DEF Field, Words, Numbers

\* What follows a block is run as it would be alone.
LEMMA Behind ==
    ASSUME NEW b, Block(b), NEW q, Program(q), NEW call \in Calls, NEW word \in Words
    PROVE  Run(b \o q, call)[<<Len(b) + 1, word>>] = Decides(q, call, word)
<1>1. 1 \in 1..Len(q)
  BY DEF Program
<1>2. Run(b \o q, call)[<<Len(b) + 1, word>>] = Run(q, call)[<<1, word>>]
  BY <1>1, RunBehind
<1> QED BY Zenon, <1>2 DEF Decides

\* The first instructions of a program are those of its first block.
LEMMA First ==
    ASSUME NEW b, Block(b), NEW q, Program(q)
    PROVE  /\ Program(b \o q)
           /\ \A pc \in 1..Len(b) : (b \o q)[pc] = b[pc] /\ pc \in 1..Len(b \o q)
<1>1. b \in Seq(Instruction) /\ q \in Seq(Instruction) /\ Len(q) \in Nat \ {0}
  BY DEF Block, Program
<1> QED BY <1>1, Concat, BlockBefore

\* A block that denies a number.
LEMMA DenyRun ==
    ASSUME NEW nr \in Numbers, NEW action \in Action, NEW q, Program(q)
    PROVE  Guards(DenyBlock(nr, action) \o q, nr, action, q)
<1> DEFINE b == DenyBlock(nr, action)
           p == b \o q
<1>1. /\ b = <<IfEqual(nr, 0, 1), Return(action)>> /\ Len(b) = 2
      /\ b[1] = IfEqual(nr, 0, 1) /\ b[2] = Return(action) /\ nr \in Words
  BY Zenon, TestedWords DEF DenyBlock
<1>2. Block(b)
  <2>1. b \in Seq(Instruction)
    BY <1>1, Instructions
  <2> QED BY <1>1, <2>1, Instructions DEF Block
<1>3. Program(p) /\ \A i \in 1..2 : p[i] = b[i] /\ i \in 1..Len(p)
  <2> HIDE DEF b
  <2> QED BY Zenon, <1>1, <1>2, First
<1>4. ASSUME NEW call \in Calls, NEW word \in Words
      PROVE  Decides(p, call, word) = IF word = nr THEN action ELSE Decides(q, call, word)
  <2> DEFINE R(pc, w) == Run(p, call)[<<pc, w>>]
  <2> HIDE DEF p, b
  <2>1. R(1, word) = IF word = nr THEN R(1 + 1 + 0, word) ELSE R(1 + 1 + 1, word)
    BY <1>1, <1>3, RunFrom
  <2>2. R(2, word) = action
    BY <1>1, <1>3, RunFrom
  <2>3. R(2 + 1, word) = Decides(q, call, word)
    BY Zenon, <1>1, <1>2, Behind DEF p
  <2> QED BY <2>1, <2>2, <2>3 DEF Decides
<1> HIDE DEF b
<1> QED BY Zenon, <1>3, <1>4 DEF b, Guards

\* The block of clone denies a new namespace, and leaves the number of the call
\* in the accumulator.
LEMMA CloneRun ==
    ASSUME NEW q, Program(q)
    PROVE  GuardsClone(CloneBlock \o q, q)
<1> DEFINE b == CloneBlock
           p == b \o q
<1>1. /\ b = <<IfEqual("clone", 0, 3), Load("arg0"), IfAnySet("new_namespace", 0, 1),
               Return("EPERM"), Load("nr")>>
      /\ Len(b) = 5
      /\ b[1] = IfEqual("clone", 0, 3) /\ b[2] = Load("arg0")
      /\ b[3] = IfAnySet("new_namespace", 0, 1) /\ b[4] = Return("EPERM") /\ b[5] = Load("nr")
      /\ "clone" \in Words /\ "new_namespace" \in Words
      /\ "arg0" \in Field /\ "nr" \in Field /\ "EPERM" \in Action
  BY Zenon, TestedWords DEF CloneBlock, Field, Action
<1>2. Block(b)
  <2>1. b \in Seq(Instruction)
    BY <1>1, Instructions
  <2> HIDE DEF b
  <2>2. \A pc \in 1..5 : pc = 1 \/ pc = 2 \/ pc = 3 \/ pc = 4 \/ pc = 5
    OBVIOUS
  <2> QED BY <1>1, <2>1, <2>2, Instructions DEF Block
<1>3. Program(p) /\ \A i \in 1..5 : p[i] = b[i] /\ i \in 1..Len(p)
  <2> HIDE DEF b
  <2> QED BY Zenon, <1>1, <1>2, First
<1>4. ASSUME NEW call \in Calls, NEW word \in Words
      PROVE  Decides(p, call, word) =
               IF word = "clone" /\ call.arg0 = "new_namespace" THEN "EPERM"
               ELSE Decides(q, call, call.nr)
  <2> DEFINE R(pc, w) == Run(p, call)[<<pc, w>>]
  <2>0. call.arg0 \in Words /\ call.nr \in Words
    BY Zenon, TestedWords
  <2> HIDE DEF p, b
  <2>6. R(5 + 1, call.nr) = Decides(q, call, call.nr)
    <3>1. Len(b) = 5
      BY Zenon, <1>1
    <3>2. Run(b \o q, call)[<<Len(b) + 1, call.nr>>] = Decides(q, call, call.nr)
      BY <1>2, <2>0, Behind
    <3> QED BY Zenon, <3>1, <3>2 DEF p
  <2>1. R(1, word) = IF word = "clone" THEN R(1 + 1 + 0, word) ELSE R(1 + 1 + 3, word)
    BY <1>1, <1>3, RunFrom
  <2>2. R(2, word) = R(2 + 1, call.arg0)
    BY <1>1, <1>3, RunFrom
  <2>3. R(3, call.arg0) = IF call.arg0 = "new_namespace" THEN R(3 + 1 + 0, call.arg0)
                          ELSE R(3 + 1 + 1, call.arg0)
    BY <1>1, <1>3, <2>0, RunFrom
  <2>4. R(4, call.arg0) = "EPERM"
    BY <1>1, <1>3, <2>0, RunFrom
  <2>5. R(5, word) = R(5 + 1, call.nr) /\ R(5, call.arg0) = R(5 + 1, call.nr)
    BY <1>1, <1>3, <2>0, RunFrom
  <2> QED BY <2>1, <2>2, <2>3, <2>4, <2>5, <2>6 DEF Decides
<1> HIDE DEF b
<1> QED BY Zenon, <1>3, <1>4 DEF b, GuardsClone

\* The block of prlimit64 lets a null pointer pass.
LEMMA Prlimit64Run ==
    ASSUME NEW denial \in Action, NEW q, Program(q)
    PROVE  GuardsPrlimit64(Prlimit64Block(denial) \o q, denial, q)
<1> DEFINE b == Prlimit64Block(denial)
           p == b \o q
<1>1. /\ b = <<IfEqual("prlimit64", 0, 5), Load("new_limit_low"), IfEqual("zero", 0, 2),
               Load("new_limit_high"), IfEqual("zero", 1, 0), Return(denial)>>
      /\ Len(b) = 6
      /\ b[1] = IfEqual("prlimit64", 0, 5) /\ b[2] = Load("new_limit_low")
      /\ b[3] = IfEqual("zero", 0, 2) /\ b[4] = Load("new_limit_high")
      /\ b[5] = IfEqual("zero", 1, 0) /\ b[6] = Return(denial)
      /\ "prlimit64" \in Words /\ "zero" \in Words
      /\ "new_limit_low" \in Field /\ "new_limit_high" \in Field
  BY Zenon, TestedWords DEF Prlimit64Block, Field
<1>2. Block(b)
  <2>1. b \in Seq(Instruction)
    BY <1>1, Instructions
  <2> HIDE DEF b
  <2>2. \A pc \in 1..6 : pc = 1 \/ pc = 2 \/ pc = 3 \/ pc = 4 \/ pc = 5 \/ pc = 6
    OBVIOUS
  <2> QED BY <1>1, <2>1, <2>2, Instructions DEF Block
<1>3. Program(p) /\ \A i \in 1..6 : p[i] = b[i] /\ i \in 1..Len(p)
  <2> HIDE DEF b
  <2> QED BY Zenon, <1>1, <1>2, First
<1>4. ASSUME NEW call \in Calls, NEW word \in Words
      PROVE  Decides(p, call, word) =
               IF word # "prlimit64" THEN Decides(q, call, word)
               ELSE IF call.new_limit_low = "zero" /\ call.new_limit_high = "zero"
                    THEN Decides(q, call, "zero") ELSE denial
  <2> DEFINE R(pc, w) == Run(p, call)[<<pc, w>>]
             low == call.new_limit_low
             high == call.new_limit_high
  <2>0. low \in Words /\ high \in Words
    BY Zenon, TestedWords
  <2> HIDE DEF p, b
  <2>1. R(1, word) = IF word = "prlimit64" THEN R(1 + 1 + 0, word) ELSE R(1 + 1 + 5, word)
    BY <1>1, <1>3, RunFrom
  <2>2. R(2, word) = R(2 + 1, low)
    BY <1>1, <1>3, RunFrom
  <2>3. R(3, low) = IF low = "zero" THEN R(3 + 1 + 0, low) ELSE R(3 + 1 + 2, low)
    BY <1>1, <1>3, <2>0, RunFrom
  <2>4. R(4, low) = R(4 + 1, high)
    BY <1>1, <1>3, <2>0, RunFrom
  <2>5. R(5, high) = IF high = "zero" THEN R(5 + 1 + 1, high) ELSE R(5 + 1 + 0, high)
    BY <1>1, <1>3, <2>0, RunFrom
  <2>6. R(6, low) = denial /\ R(6, high) = denial
    BY <1>1, <1>3, <2>0, RunFrom
  <2>7. R(6 + 1, word) = Decides(q, call, word) /\ R(6 + 1, "zero") = Decides(q, call, "zero")
    <3>1. Len(b) = 6 /\ "zero" \in Words
      BY Zenon, <1>1
    <3>2. \A w \in Words : Run(b \o q, call)[<<Len(b) + 1, w>>] = Decides(q, call, w)
      BY Zenon, <1>2, Behind
    <3> QED BY Zenon, <3>1, <3>2 DEF p
  <2> QED BY <2>1, <2>2, <2>3, <2>4, <2>5, <2>6, <2>7 DEF Decides
<1> HIDE DEF b
<1> QED BY Zenon, <1>3, <1>4 DEF b, GuardsPrlimit64

\* The first instructions.
Entry == <<Load("arch"), IfEqual(Native, 1, 0), Return("kill"), Load("nr")>>

\* They kill the caller of another architecture, and load the number of the call.
LEMMA EntryRun ==
    ASSUME NEW q, Program(q)
    PROVE  /\ Program(Entry \o q)
           /\ \A call \in Calls :
                Decides(Entry \o q, call, "zero") =
                  IF call.arch # Native THEN "kill" ELSE Decides(q, call, call.nr)
<1> DEFINE b == Entry
           p == b \o q
<1>1. /\ b = <<Load("arch"), IfEqual(Native, 1, 0), Return("kill"), Load("nr")>>
      /\ Len(b) = 4
      /\ b[1] = Load("arch") /\ b[2] = IfEqual(Native, 1, 0) /\ b[3] = Return("kill")
      /\ b[4] = Load("nr") /\ Native \in Words /\ "zero" \in Words
      /\ "arch" \in Field /\ "nr" \in Field /\ "kill" \in Action
  BY Zenon, TestedWords DEF Entry, Field, Action, Words
<1>2. Block(b)
  <2>1. b \in Seq(Instruction)
    BY <1>1, Instructions
  <2> HIDE DEF b
  <2>2. \A pc \in 1..4 : pc = 1 \/ pc = 2 \/ pc = 3 \/ pc = 4
    OBVIOUS
  <2> QED BY <1>1, <2>1, <2>2, Instructions DEF Block
<1>3. Program(p) /\ \A i \in 1..4 : p[i] = b[i] /\ i \in 1..Len(p)
  <2> HIDE DEF b
  <2> QED BY Zenon, <1>1, <1>2, First
<1>4. ASSUME NEW call \in Calls
      PROVE  Decides(p, call, "zero") =
               IF call.arch # Native THEN "kill" ELSE Decides(q, call, call.nr)
  <2> DEFINE R(pc, w) == Run(p, call)[<<pc, w>>]
  <2>0. call.arch \in Words /\ call.nr \in Words
    BY Zenon, TestedWords
  <2> HIDE DEF p, b
  <2>1. R(1, "zero") = R(1 + 1, call.arch)
    BY <1>1, <1>3, RunFrom
  <2>2. R(2, call.arch) = IF call.arch = Native THEN R(2 + 1 + 1, call.arch)
                          ELSE R(2 + 1 + 0, call.arch)
    BY <1>1, <1>3, <2>0, RunFrom
  <2>3. R(3, call.arch) = "kill"
    BY <1>1, <1>3, <2>0, RunFrom
  <2>4. R(4, call.arch) = R(4 + 1, call.nr)
    BY <1>1, <1>3, <2>0, RunFrom
  <2>5. R(4 + 1, call.nr) = Decides(q, call, call.nr)
    <3>1. Len(b) = 4
      BY Zenon, <1>1
    <3>2. Run(b \o q, call)[<<Len(b) + 1, call.nr>>] = Decides(q, call, call.nr)
      BY <1>2, <2>0, Behind
    <3> QED BY Zenon, <3>1, <3>2 DEF p
  <2> QED BY <2>1, <2>2, <2>3, <2>4, <2>5 DEF Decides
<1> HIDE DEF b
<1> QED BY Zenon, <1>3, <1>4 DEF b

\* A block that is compiled when the headers define its call, and the end of the
\* program.
Compiled(build, nr, block) == IF nr \in build THEN block ELSE <<>>
Denied(build, nr) == Compiled(build, nr, DenyBlock(nr, "EPERM"))
Allow == <<Return("allow")>>

\* What follows the calls that leave the containment.
Limits(build, denial) ==
    Compiled(build, "setrlimit", DenyBlock("setrlimit", denial))
    \o (Compiled(build, "prlimit64", Prlimit64Block(denial)) \o Allow)

\* Two notations of a program.
Same(p, q) == p = q

\* Five parts of a program, from the left and from the right.
LEMMA Regroup ==
    ASSUME NEW S, NEW a \in Seq(S), NEW b \in Seq(S), NEW c \in Seq(S), NEW d \in Seq(S),
           NEW e \in Seq(S)
    PROVE  /\ Same(a \o b \o c \o d \o e, a \o (b \o (c \o (d \o e))))
           /\ a \o b \o c \o d \in Seq(S) /\ b \o (c \o (d \o e)) \in Seq(S)
<1> DEFINE ab == a \o b
           abc == ab \o c
           de == d \o e
           cde == c \o de
<1>1. ab \in Seq(S) /\ de \in Seq(S)
  BY Zenon, Concat
<1> HIDE DEF ab, de
<1>2. abc \in Seq(S) /\ cde \in Seq(S)
  BY Zenon, <1>1, Concat
<1>3. (ab \o c) \o de = ab \o (c \o de)
  BY <1>1
<1>4. ab \o cde = a \o (b \o cde)
  <2> HIDE DEF cde
  <2> QED BY <1>2 DEF ab
<1>5. (abc \o d) \o e = abc \o de
  <2> HIDE DEF abc
  <2> QED BY <1>2 DEF de
<1>6. abc \o d \in Seq(S) /\ b \o cde \in Seq(S)
  <2> HIDE DEF abc, cde
  <2> QED BY Zenon, <1>2, Concat
<1>7. abc \o d \o e = a \o (b \o cde)
  BY Zenon, <1>3, <1>4, <1>5
<1> QED BY Zenon, <1>6, <1>7 DEF ab, de, Same

\* The parts are sequences of instructions.
LEMMA Parts ==
    /\ Entry \in Seq(Instruction) /\ CloneBlock \in Seq(Instruction) /\ Allow \in Seq(Instruction)
    /\ \A nr \in Numbers, action \in Action : DenyBlock(nr, action) \in Seq(Instruction)
    /\ \A action \in Action : Prlimit64Block(action) \in Seq(Instruction)
    /\ \A build, nr : \A b \in Seq(Instruction) : Compiled(build, nr, b) \in Seq(Instruction)
<1>1. /\ {"clone", "prlimit64", "zero", "new_namespace", Native} \subseteq Words
      /\ {"arch", "nr", "arg0", "new_limit_low", "new_limit_high"} \subseteq Field
      /\ {"kill", "EPERM", "allow"} \subseteq Action /\ Numbers \subseteq Words
  BY Zenon, TestedWords DEF Field, Action
<1>2. Entry \in Seq(Instruction)
  BY <1>1, Instructions DEF Entry
<1>3. CloneBlock \in Seq(Instruction)
  BY <1>1, Instructions DEF CloneBlock
<1>4. Allow \in Seq(Instruction)
  BY <1>1, Instructions DEF Allow
<1>5. ASSUME NEW nr \in Numbers, NEW action \in Action
      PROVE  DenyBlock(nr, action) \in Seq(Instruction)
  BY <1>1, Instructions DEF DenyBlock
<1>6. ASSUME NEW action \in Action
      PROVE  Prlimit64Block(action) \in Seq(Instruction)
  BY <1>1, Instructions DEF Prlimit64Block
<1>7. <<>> \in Seq(Instruction)
  OBVIOUS
<1>8. ASSUME NEW build, NEW nr, NEW b \in Seq(Instruction)
      PROVE  Compiled(build, nr, b) \in Seq(Instruction)
  BY Zenon, <1>7 DEF Compiled
<1> QED BY Zenon, <1>2, <1>3, <1>4, <1>5, <1>6, <1>8

\* A part that is not compiled changes nothing.
LEMMA NotCompiled ==
    ASSUME NEW build, NEW nr, nr \notin build, NEW b, NEW q, Program(q)
    PROVE  Compiled(build, nr, b) \o q = q
<1>1. Compiled(build, nr, b) = <<>>
  BY Zenon DEF Compiled
<1>2. q \in Seq(Instruction)
  BY Zenon DEF Program
<1>3. <<>> \o q = q
  BY <1>2
<1> QED BY Zenon, <1>1, <1>3

\* The program behind the calls q denies is r.
Denies(q, calls, r) ==
    /\ Program(q)
    /\ \A call \in Calls, word \in Words :
         Decides(q, call, word) = IF word \in calls THEN "EPERM" ELSE Decides(r, call, word)

\* One more call is denied.
LEMMA DenyMore ==
    ASSUME NEW build, NEW nr \in Numbers, NEW q, NEW r, NEW calls, Denies(q, calls, r)
    PROVE  Denies(Denied(build, nr) \o q, calls \cup ({nr} \cap build), r)
<1>1. Program(q) /\ "EPERM" \in Action
  BY Zenon DEF Denies, Action
<1>2. CASE nr \in build
  <2>1. Denied(build, nr) = DenyBlock(nr, "EPERM")
    BY Zenon, <1>2 DEF Denied, Compiled
  <2> DEFINE p == Denied(build, nr) \o q
  <2>2. /\ Program(p)
        /\ \A call \in Calls, word \in Words :
             Decides(p, call, word) = IF word = nr THEN "EPERM" ELSE Decides(q, call, word)
    <3>1. Guards(p, nr, "EPERM", q)
      BY Zenon, <1>1, <2>1, DenyRun
    <3> HIDE DEF p
    <3> QED BY Zenon, <3>1 DEF Guards
  <2>3. calls \cup ({nr} \cap build) = calls \cup {nr}
    BY Zenon, <1>2
  <2> HIDE DEF p
  <2>4. \A call \in Calls, word \in Words :
          Decides(p, call, word) =
            IF word \in calls \cup {nr} THEN "EPERM" ELSE Decides(r, call, word)
    BY Zenon, <2>2 DEF Denies
  <2> QED BY Zenon, <2>2, <2>3, <2>4 DEF Denies, p
<1>3. CASE nr \notin build
  <2>1. Denied(build, nr) \o q = q
    BY Zenon, <1>1, <1>3, NotCompiled DEF Denied
  <2>2. calls \cup ({nr} \cap build) = calls
    BY Zenon, <1>3
  <2> QED BY Zenon, <2>1, <2>2
<1> QED BY Zenon, <1>2, <1>3

\* The program read from its end: the parts before a call was looked at have no
\* influence on what is decided about it.
LEMMA FilterFromEnd ==
    ASSUME NEW build, NEW seal \in BOOLEAN
    PROVE  LET denial == IF seal THEN "EPERM" ELSE "allow"
               C(nr, block) == Compiled(build, nr, block)
               D(nr) == Denied(build, nr)
               mounts == D("mount") \o (D("umount2") \o (D("pivot_root") \o (D("chroot")
                         \o (D("open_tree") \o (D("move_mount") \o (D("mount_setattr")
                         \o Limits(build, denial)))))))
               rest == C("clone3", DenyBlock("clone3", "ENOSYS")) \o mounts
           IN  Filter(build, seal) =
                 Entry \o (C("clone", CloneBlock) \o (D("setsid") \o (D("setpgid")
                 \o (D("unshare") \o (D("setns") \o rest)))))
<1> DEFINE denial == IF seal THEN "EPERM" ELSE "allow"
           C(nr, block) == Compiled(build, nr, block)
           D(nr) == Denied(build, nr)
           x2 == C("clone", CloneBlock)
           x3 == D("setsid")
           x4 == D("setpgid")
           x5 == D("unshare")
           x6 == D("setns")
           x7 == C("clone3", DenyBlock("clone3", "ENOSYS"))
           x8 == D("mount")
           x9 == D("umount2")
           x10 == D("pivot_root")
           x11 == D("chroot")
           x12 == D("open_tree")
           x13 == D("move_mount")
           x14 == D("mount_setattr")
           x15 == C("setrlimit", DenyBlock("setrlimit", denial))
           x16 == C("prlimit64", Prlimit64Block(denial))
<1>1. denial \in Action /\ "EPERM" \in Action /\ "ENOSYS" \in Action
  BY Zenon DEF Action
<1>2. \A nr \in Numbers : D(nr) \in Seq(Instruction)
  BY Zenon, <1>1, Parts DEF Denied
<1>3. {"setsid", "setpgid", "unshare", "setns", "clone3", "mount", "umount2", "pivot_root",
       "chroot", "open_tree", "move_mount", "mount_setattr", "setrlimit"} \subseteq Numbers
  BY Zenon DEF Numbers, DeniedByNumber
<1>4. /\ x3 \in Seq(Instruction) /\ x4 \in Seq(Instruction) /\ x5 \in Seq(Instruction)
      /\ x6 \in Seq(Instruction) /\ x8 \in Seq(Instruction) /\ x9 \in Seq(Instruction)
      /\ x10 \in Seq(Instruction) /\ x11 \in Seq(Instruction) /\ x12 \in Seq(Instruction)
      /\ x13 \in Seq(Instruction) /\ x14 \in Seq(Instruction)
  BY Zenon, <1>2, <1>3
<1>5. /\ x2 \in Seq(Instruction) /\ x7 \in Seq(Instruction) /\ x15 \in Seq(Instruction)
      /\ x16 \in Seq(Instruction) /\ Entry \in Seq(Instruction) /\ Allow \in Seq(Instruction)
  BY Zenon, <1>1, <1>3, Parts
<1>6. Filter(build, seal) =
        Entry \o x2 \o x3 \o x4 \o x5 \o x6 \o x7 \o x8 \o x9 \o x10 \o x11 \o x12 \o x13
        \o x14 \o x15 \o x16 \o Allow
  BY Zenon DEF Filter, Compiled, Denied, Entry, Allow
<1> HIDE DEF x2, x3, x4, x5, x6, x7, x8, x9, x10, x11, x12, x13, x14, x15, x16
<1> DEFINE p4 == Entry \o x2 \o x3 \o x4
           p7 == p4 \o x5 \o x6 \o x7
           p10 == p7 \o x8 \o x9 \o x10
           p13 == p10 \o x11 \o x12 \o x13
           q14 == x14 \o (x15 \o (x16 \o Allow))
           q11 == x11 \o (x12 \o (x13 \o q14))
           q8 == x8 \o (x9 \o (x10 \o q11))
           q5 == x5 \o (x6 \o (x7 \o q8))
           q2 == x2 \o (x3 \o (x4 \o q5))
<1>7. p4 \in Seq(Instruction)
  BY Zenon, <1>4, <1>5, Regroup
<1> HIDE DEF p4
<1>8. p7 \in Seq(Instruction)
  BY Zenon, <1>4, <1>5, <1>7, Regroup
<1> HIDE DEF p7
<1>9. p10 \in Seq(Instruction)
  BY Zenon, <1>4, <1>5, <1>8, Regroup
<1> HIDE DEF p10
<1>10. Same(p13 \o x14 \o x15 \o x16 \o Allow, p13 \o q14) /\ q14 \in Seq(Instruction)
  <2>1. p13 \in Seq(Instruction)
    BY Zenon, <1>4, <1>5, <1>9, Regroup
  <2> HIDE DEF p13
  <2> QED BY Zenon, <1>4, <1>5, <2>1, Regroup
<1> HIDE DEF q14
<1>11. Same(p13 \o q14, p10 \o q11) /\ q11 \in Seq(Instruction)
  BY Zenon, <1>4, <1>9, <1>10, Regroup
<1> HIDE DEF q11
<1>12. Same(p10 \o q11, p7 \o q8) /\ q8 \in Seq(Instruction)
  BY Zenon, <1>4, <1>8, <1>11, Regroup DEF p10
<1> HIDE DEF q8
<1>13. Same(p7 \o q8, p4 \o q5) /\ q5 \in Seq(Instruction)
  BY Zenon, <1>4, <1>5, <1>7, <1>12, Regroup DEF p7
<1> HIDE DEF q5
<1>14. Same(p4 \o q5, Entry \o q2)
  BY Zenon, <1>4, <1>5, <1>13, Regroup DEF p4
<1>15. Filter(build, seal) = p13 \o x14 \o x15 \o x16 \o Allow
  BY Zenon, <1>6 DEF p10, p7, p4
<1>16. Filter(build, seal) = Entry \o q2
  <2> HIDE DEF p13, q2
  <2> QED BY Zenon, <1>10, <1>11, <1>12, <1>13, <1>14, <1>15 DEF Same
<1> QED BY Zenon, <1>16 DEF q5, q8, q11, q14, x2, x3, x4, x5, x6, x7, x8, x9, x10, x11, x12,
           x13, x14, x15, x16, Limits

\* What the end of the program decides.
LEMMA AllowRun ==
    Program(Allow) /\ \A call \in Calls, word \in Words : Decides(Allow, call, word) = "allow"
<1>1. /\ Allow \in Seq(Instruction) /\ Len(Allow) = 1 /\ Allow[1] = Return("allow")
      /\ "allow" \in Action /\ Allow[1].op = "return" /\ DOMAIN Allow = 1..1
      /\ Allow # <<>>
  BY Parts DEF Allow, Action, Return
<1>2. Program(Allow)
  <2>1. Loadable(Allow)
    BY <1>1 DEF Loadable
  <2> QED BY Zenon, <1>1, <2>1 DEF Program
<1>3. ASSUME NEW call \in Calls, NEW word \in Words
      PROVE  Decides(Allow, call, word) = "allow"
  <2>1. 1 \in 1..Len(Allow)
    BY <1>1
  <2> QED BY <1>1, <1>2, <2>1, RunFrom DEF Decides
<1> QED BY Zenon, <1>2, <1>3

\* What the blocks of setrlimit and prlimit64 decide.
GuardsLimits(q, build, denial) ==
    /\ Program(q)
    /\ \A call \in Calls, word \in Words :
         Decides(q, call, word) =
           IF \/ word = "setrlimit"
              \/ /\ word = "prlimit64"
                 /\ ~(call.new_limit_low = "zero" /\ call.new_limit_high = "zero")
           THEN IF word \in build THEN denial ELSE "allow"
           ELSE "allow"

\* They come last and decide so.
LEMMA LimitsRun ==
    ASSUME NEW build, NEW denial \in Action
    PROVE  GuardsLimits(Limits(build, denial), build, denial)
<1> DEFINE r == Compiled(build, "prlimit64", Prlimit64Block(denial)) \o Allow
           q == Compiled(build, "setrlimit", DenyBlock("setrlimit", denial)) \o r
<1>1. /\ Program(r)
      /\ \A call \in Calls, word \in Words :
           Decides(r, call, word) =
             IF /\ word = "prlimit64" /\ word \in build
                /\ ~(call.new_limit_low = "zero" /\ call.new_limit_high = "zero")
             THEN denial ELSE "allow"
  <2>1. CASE "prlimit64" \in build
    <3>1. r = Prlimit64Block(denial) \o Allow
      BY Zenon, <2>1 DEF Compiled
    <3>2. GuardsPrlimit64(r, denial, Allow)
      <4> HIDE DEF r
      <4> QED BY Zenon, <3>1, AllowRun, Prlimit64Run
    <3>3. "zero" \in Words
      BY Zenon, TestedWords
    <3> HIDE DEF r
    <3> QED BY <2>1, <3>2, <3>3, AllowRun DEF GuardsPrlimit64
  <2>2. CASE "prlimit64" \notin build
    <3>1. r = Allow
      BY Zenon, <2>2, AllowRun, NotCompiled
    <3> HIDE DEF r
    <3> QED BY Zenon, <2>2, <3>1, AllowRun
  <2> QED BY Zenon, <2>1, <2>2
<1> HIDE DEF r
<1>2. /\ Program(q)
      /\ \A call \in Calls, word \in Words :
           Decides(q, call, word) =
             IF word = "setrlimit" /\ word \in build THEN denial ELSE Decides(r, call, word)
  <2>1. CASE "setrlimit" \in build
    <3>1. q = DenyBlock("setrlimit", denial) \o r /\ "setrlimit" \in Numbers
      BY Zenon, <2>1, TestedWords DEF Compiled
    <3>2. Guards(q, "setrlimit", denial, r)
      <4> HIDE DEF q
      <4> QED BY Zenon, <1>1, <3>1, DenyRun
    <3> HIDE DEF q
    <3> QED BY Zenon, <2>1, <3>2 DEF Guards
  <2>2. CASE "setrlimit" \notin build
    <3>1. q = r
      BY Zenon, <1>1, <2>2, NotCompiled
    <3> HIDE DEF q
    <3> QED BY Zenon, <1>1, <2>2, <3>1
  <2> QED BY Zenon, <2>1, <2>2
<1> HIDE DEF q
<1>3. \A call \in Calls, word \in Words :
        Decides(q, call, word) =
          IF \/ word = "setrlimit"
             \/ /\ word = "prlimit64"
                /\ ~(call.new_limit_low = "zero" /\ call.new_limit_high = "zero")
          THEN IF word \in build THEN denial ELSE "allow"
          ELSE "allow"
  BY <1>1, <1>2
<1> QED BY Zenon, <1>2, <1>3 DEF q, r, Limits, GuardsLimits

\* What the number and the arguments of a call alone say about it.
NumberChangesLimits(call) ==
    \/ call.nr = "setrlimit"
    \/ /\ call.nr = "prlimit64"
       /\ ~(call.new_limit_low = "zero" /\ call.new_limit_high = "zero")

NumberLeaves(call) ==
    \/ call.nr \in DeniedByNumber
    \/ call.nr = "clone" /\ call.arg0 = "new_namespace"

\* About a call whose number the program tests, that is all there is to know.
LEMMA TestedNumber ==
    ASSUME NEW call \in Calls, call.nr # "x32"
    PROVE  /\ call.does = call.nr
           /\ ChangesLimits(call) <=> NumberChangesLimits(call)
           /\ LeavesContainment(call) <=> NumberLeaves(call)
<1>1. call.does = call.nr
  BY Zenon DEF Calls
<1> QED
  BY Zenon, <1>1 DEF ChangesLimits, NumberChangesLimits, LeavesContainment, NumberLeaves

\* Whichever of the calls the headers define, the kernel accepts the program, and
\* the program decides about every call whose number it tests as DESIGN.md says
\* and lets every other native call through (process_control.cpp:139-252).
THEOREM EveryBuildDecides ==
    ASSUME NEW build \in SUBSET Numbers, NEW seal \in BOOLEAN
    PROVE  Loadable(Filter(build, seal)) /\ DecidesAsExpected(build, seal)
<1> DEFINE denial == IF seal THEN "EPERM" ELSE "allow"
           C(nr, block) == Compiled(build, nr, block)
           D(nr) == Denied(build, nr)
           limits == Limits(build, denial)
           mounts == D("mount") \o (D("umount2") \o (D("pivot_root") \o (D("chroot")
                     \o (D("open_tree") \o (D("move_mount") \o (D("mount_setattr")
                     \o limits))))))
           rest == C("clone3", DenyBlock("clone3", "ENOSYS")) \o mounts
           groups == D("setsid") \o (D("setpgid") \o (D("unshare") \o (D("setns") \o rest)))
           all == C("clone", CloneBlock) \o groups
           Mounts == {"mount", "umount2", "pivot_root", "chroot", "open_tree", "move_mount",
                      "mount_setattr"}
           Groups == {"setsid", "setpgid", "unshare", "setns"}
<1>1. Filter(build, seal) = Entry \o all
  BY Zenon, FilterFromEnd
<1>2. denial \in Action /\ "ENOSYS" \in Action
  BY Zenon DEF Action
<1>3. {"setsid", "setpgid", "unshare", "setns", "clone3", "mount", "umount2", "pivot_root",
       "chroot", "open_tree", "move_mount", "mount_setattr"} \subseteq Numbers
  BY Zenon DEF Numbers, DeniedByNumber
<1>4. /\ Program(limits)
      /\ \A call \in Calls, word \in Words :
           Decides(limits, call, word) =
             IF \/ word = "setrlimit"
                \/ /\ word = "prlimit64"
                   /\ ~(call.new_limit_low = "zero" /\ call.new_limit_high = "zero")
             THEN IF word \in build THEN denial ELSE "allow"
             ELSE "allow"
  <2> HIDE DEF denial
  <2>1. GuardsLimits(limits, build, denial)
    BY Zenon, <1>2, LimitsRun
  <2> HIDE DEF limits
  <2> QED BY Zenon, <2>1 DEF GuardsLimits
<1> HIDE DEF limits
<1>5. Denies(mounts, Mounts \cap build, limits)
  <2>0. Denies(limits, {}, limits)
    BY Zenon, <1>4 DEF Denies
  <2> DEFINE M(nr) == {nr} \cap build
             m1 == D("mount_setattr") \o limits
             m2 == D("move_mount") \o m1
             m3 == D("open_tree") \o m2
             m4 == D("chroot") \o m3
             m5 == D("pivot_root") \o m4
             m6 == D("umount2") \o m5
             s1 == {} \cup M("mount_setattr")
             s2 == s1 \cup M("move_mount")
             s3 == s2 \cup M("open_tree")
             s4 == s3 \cup M("chroot")
             s5 == s4 \cup M("pivot_root")
             s6 == s5 \cup M("umount2")
             s7 == s6 \cup M("mount")
  <2>1. Denies(m1, s1, limits)
    BY Zenon, <1>3, <2>0, DenyMore
  <2> HIDE DEF m1, s1
  <2>2. Denies(m2, s2, limits)
    BY Zenon, <1>3, <2>1, DenyMore
  <2> HIDE DEF m2, s2
  <2>3. Denies(m3, s3, limits)
    BY Zenon, <1>3, <2>2, DenyMore
  <2> HIDE DEF m3, s3
  <2>4. Denies(m4, s4, limits)
    BY Zenon, <1>3, <2>3, DenyMore
  <2> HIDE DEF m4, s4
  <2>5. Denies(m5, s5, limits)
    BY Zenon, <1>3, <2>4, DenyMore
  <2> HIDE DEF m5, s5
  <2>6. Denies(m6, s6, limits)
    BY Zenon, <1>3, <2>5, DenyMore
  <2> HIDE DEF m6, s6
  <2>7. Denies(D("mount") \o m6, s7, limits)
    BY Zenon, <1>3, <2>6, DenyMore
  <2>8. s7 = Mounts \cap build
    BY Zenon DEF s1, s2, s3, s4, s5, s6
  <2> HIDE DEF s7, Mounts
  <2> QED BY Zenon, <2>7, <2>8 DEF m1, m2, m3, m4, m5, m6
<1> HIDE DEF mounts
<1>6. /\ Program(rest)
      /\ \A call \in Calls, word \in Words :
           Decides(rest, call, word) =
             IF word = "clone3" /\ word \in build THEN "ENOSYS" ELSE Decides(mounts, call, word)
  <2>0. Program(mounts)
    BY Zenon, <1>5 DEF Denies
  <2>1. CASE "clone3" \in build
    <3>1. rest = DenyBlock("clone3", "ENOSYS") \o mounts /\ "clone3" \in Numbers
      BY Zenon, <1>3, <2>1 DEF Compiled
    <3>2. Guards(rest, "clone3", "ENOSYS", mounts)
      <4> HIDE DEF rest
      <4> QED BY Zenon, <1>2, <2>0, <3>1, DenyRun
    <3> HIDE DEF rest
    <3> QED BY Zenon, <2>1, <3>2 DEF Guards
  <2>2. CASE "clone3" \notin build
    <3>1. rest = mounts
      BY Zenon, <2>0, <2>2, NotCompiled
    <3> HIDE DEF rest
    <3> QED BY Zenon, <2>0, <2>2, <3>1
  <2> QED BY Zenon, <2>1, <2>2
<1> HIDE DEF rest
<1>7. Denies(groups, Groups \cap build, rest)
  <2>0. Denies(rest, {}, rest)
    BY Zenon, <1>6 DEF Denies
  <2> DEFINE M(nr) == {nr} \cap build
             m1 == D("setns") \o rest
             m2 == D("unshare") \o m1
             m3 == D("setpgid") \o m2
             s1 == {} \cup M("setns")
             s2 == s1 \cup M("unshare")
             s3 == s2 \cup M("setpgid")
             s4 == s3 \cup M("setsid")
  <2>1. Denies(m1, s1, rest)
    BY Zenon, <1>3, <2>0, DenyMore
  <2> HIDE DEF m1, s1
  <2>2. Denies(m2, s2, rest)
    BY Zenon, <1>3, <2>1, DenyMore
  <2> HIDE DEF m2, s2
  <2>3. Denies(m3, s3, rest)
    BY Zenon, <1>3, <2>2, DenyMore
  <2> HIDE DEF m3, s3
  <2>4. Denies(D("setsid") \o m3, s4, rest)
    BY Zenon, <1>3, <2>3, DenyMore
  <2>5. s4 = Groups \cap build
    BY Zenon DEF s1, s2, s3
  <2> HIDE DEF s4, Groups
  <2> QED BY Zenon, <2>4, <2>5 DEF m1, m2, m3
<1> HIDE DEF groups
<1>8. /\ Program(all)
      /\ \A call \in Calls :
           Decides(all, call, call.nr) =
             IF call.nr = "clone" /\ call.nr \in build /\ call.arg0 = "new_namespace"
             THEN "EPERM" ELSE Decides(groups, call, call.nr)
  <2>0. Program(groups) /\ \A call \in Calls : call.nr \in Words
    BY Zenon, <1>7, TestedWords DEF Denies
  <2>1. CASE "clone" \in build
    <3>1. all = CloneBlock \o groups
      BY Zenon, <2>1 DEF Compiled
    <3>2. GuardsClone(all, groups)
      <4> HIDE DEF all
      <4> QED BY Zenon, <2>0, <3>1, CloneRun
    <3> HIDE DEF all
    <3> QED BY Zenon, <2>0, <2>1, <3>2 DEF GuardsClone
  <2>2. CASE "clone" \notin build
    <3>1. all = groups
      BY Zenon, <2>0, <2>2, NotCompiled
    <3> HIDE DEF all
    <3> QED BY Zenon, <2>0, <2>2, <3>1
  <2> QED BY Zenon, <2>1, <2>2
<1> HIDE DEF all
<1>9. /\ Program(Filter(build, seal))
      /\ \A call \in Calls :
           Verdict(Filter(build, seal), call) =
             IF call.arch # Native THEN "kill" ELSE Decides(all, call, call.nr)
  BY Zenon, <1>1, <1>8, EntryRun DEF Verdict, Decides
<1>10. Loadable(Filter(build, seal))
  BY Zenon, <1>9 DEF Program
<1>11. ASSUME NEW call \in Calls
       PROVE  Verdict(Filter(build, seal), call) =
                IF Untested(build, call) THEN "allow" ELSE Expected(seal, call)
  <2> DEFINE nr == call.nr
  <2>1. nr \in Words
    BY Zenon, TestedWords
  <2>2. Decides(limits, call, nr) =
          IF NumberChangesLimits(call) THEN IF nr \in build THEN denial ELSE "allow" ELSE "allow"
    BY Zenon, <1>4, <2>1 DEF NumberChangesLimits
  <2>3. Decides(mounts, call, nr) =
          IF nr \in Mounts \cap build THEN "EPERM" ELSE Decides(limits, call, nr)
    BY Zenon, <1>5, <2>1 DEF Denies
  <2>4. Decides(rest, call, nr) =
          IF nr = "clone3" /\ nr \in build THEN "ENOSYS" ELSE Decides(mounts, call, nr)
    BY Zenon, <1>6, <2>1
  <2>5. Decides(groups, call, nr) =
          IF nr \in Groups \cap build THEN "EPERM" ELSE Decides(rest, call, nr)
    BY Zenon, <1>7, <2>1 DEF Denies
  <2>6. Decides(all, call, nr) =
          IF nr = "clone" /\ nr \in build /\ call.arg0 = "new_namespace"
          THEN "EPERM" ELSE Decides(groups, call, nr)
    BY Zenon, <1>8
  <2>7. Verdict(Filter(build, seal), call) =
          IF call.arch # Native THEN "kill" ELSE Decides(all, call, nr)
    BY Zenon, <1>9
  <2>8. NumberLeaves(call) <=>
          \/ nr \in Mounts \/ nr \in Groups \/ nr = "clone3"
          \/ nr = "clone" /\ call.arg0 = "new_namespace"
    BY Zenon DEF NumberLeaves, DeniedByNumber
  <2>9. NumberChangesLimits(call) => nr \in {"setrlimit", "prlimit64"}
    BY Zenon DEF NumberChangesLimits
  <2>10. nr \in {"setrlimit", "prlimit64"} =>
           /\ nr \notin Mounts /\ nr \notin Groups /\ nr # "clone3" /\ nr # "clone"
    BY Zenon
  <2>11. nr \in Mounts \cup Groups => nr # "clone3"
    BY Zenon
  <2> HIDE DEF nr, Mounts, Groups
  <2>12. ASSUME call.arch = Native, nr \in build
         PROVE  /\ ~Untested(build, call)
                /\ Expected(seal, call) =
                     IF nr = "clone3" THEN "ENOSYS"
                     ELSE IF NumberLeaves(call) \/ (seal /\ NumberChangesLimits(call))
                     THEN "EPERM" ELSE "allow"
    <3>1. nr # "x32"
      BY Zenon, <2>12 DEF Numbers, DeniedByNumber
    <3>2. /\ call.does = nr
          /\ ChangesLimits(call) <=> NumberChangesLimits(call)
          /\ LeavesContainment(call) <=> NumberLeaves(call)
      BY Zenon, <3>1, TestedNumber DEF nr
    <3>3. ~Untested(build, call)
      BY Zenon, <2>12 DEF Untested, nr
    <3> QED BY Zenon, <2>12, <3>2, <3>3 DEF Expected
  <2>13. CASE call.arch # Native
    BY Zenon, <2>7, <2>13 DEF Expected, Untested
  <2>14. CASE call.arch = Native /\ nr \notin build
    <3>1. Untested(build, call)
      BY Zenon, <2>14 DEF Untested, nr
    <3> QED BY Zenon, <2>2, <2>3, <2>4, <2>5, <2>6, <2>7, <2>14, <3>1
  <2>15. CASE call.arch = Native /\ nr \in build /\ NumberChangesLimits(call)
    <3>1. Decides(all, call, nr) = denial
      BY Zenon, <2>2, <2>3, <2>4, <2>5, <2>6, <2>9, <2>10, <2>15
    <3> QED BY Zenon, <2>7, <2>8, <2>9, <2>10, <2>12, <2>15, <3>1
  <2>16. CASE call.arch = Native /\ nr \in build /\ ~NumberChangesLimits(call)
    <3>1. Decides(limits, call, nr) = "allow"
      BY Zenon, <2>2, <2>16
    <3> QED BY <2>3, <2>4, <2>5, <2>6, <2>7, <2>8, <2>11, <2>12, <2>16, <3>1
  <2> QED BY Zenon, <2>13, <2>14, <2>15, <2>16
<1> QED BY Zenon, <1>10, <1>11 DEF DecidesAsExpected

\* With headers that define every one of the numbers, the program decides about
\* every call outside the x32 table as DESIGN.md says: the calls that would leave
\* the session, group, namespaces or mounts are denied without exception
\* (process_control.cpp:155-235).
THEOREM CurrentHeadersDecide ==
    ASSUME NEW seal \in BOOLEAN, NEW call \in Calls, call.nr # "x32"
    PROVE  Verdict(Filter(Numbers, seal), call) = Expected(seal, call)
<1>1. Verdict(Filter(Numbers, seal), call) =
        IF Untested(Numbers, call) THEN "allow" ELSE Expected(seal, call)
  BY Zenon, EveryBuildDecides DEF DecidesAsExpected
<1>2. ASSUME Untested(Numbers, call)
      PROVE  Expected(seal, call) = "allow"
  <2>1. call.arch = Native /\ call.nr = "read" /\ call.does = "read"
    BY Zenon, <1>2 DEF Untested, Calls
  <2>2. "read" \notin Numbers /\ DeniedByNumber \subseteq Numbers
        /\ {"clone3", "clone", "setrlimit", "prlimit64"} \subseteq Numbers
    BY Zenon DEF Numbers, DeniedByNumber
  <2> QED BY Zenon, <2>1, <2>2 DEF Expected, LeavesContainment, ChangesLimits
<1> QED BY Zenon, <1>1, <1>2

(***************************************************************************)
(* Limits.                                                                 *)
(***************************************************************************)
\* The three kinds, in the order of setup_resource_limits, are distinct.
LEMMA KindsFacts ==
    /\ DOMAIN Kinds = 1..3 /\ Len(Kinds) = 3
    /\ \A i \in 1..3 : Kinds[i] \in Kind
    /\ \A i, j \in 1..3 : Kinds[i] = Kinds[j] => i = j
    /\ \A k \in Kind : \E i \in 1..3 : Kinds[i] = k
BY DEF Kinds, Kind

\* Every filter of the library decides as FilterDecides says.
LEMMA BuiltDecides ==
    ASSUME IsBuilt, sealed \in BOOLEAN
    PROVE  FilterDecides
<1>1. PICK build \in Builds : filter = Installs(build)
  BY Zenon DEF IsBuilt
<1>2. build \in SUBSET Numbers
  BY Zenon DEF Builds
<1>3. DecidesAsExpected(build, sealed)
  BY Zenon, <1>2, EveryBuildDecides
<1> QED
  BY Zenon, <1>1, <1>3 DEF FilterDecides, Installs

\* It lets no limit change once it is sealed: every build has both calls that
\* change one.
LEMMA FilterSeals ==
    ASSUME NEW build \in Builds
    PROVE  ~LetsLimitsChange(build, TRUE)
<1> SUFFICES ASSUME NEW call \in Calls, call.arch = Native, call.nr # "x32",
                    ChangesLimits(call)
             PROVE  Verdict(Filter(build, TRUE), call) # "allow"
  BY Zenon DEF LetsLimitsChange
<1>1. call.does = call.nr /\ call.does \in {"setrlimit", "prlimit64"}
  BY Zenon, TestedNumber DEF ChangesLimits
<1>2. {"setrlimit", "prlimit64"} \subseteq build /\ build \in SUBSET Numbers
  BY Zenon DEF Builds, Numbers, DeniedByNumber
<1>3. Expected(TRUE, call) = "EPERM" /\ ~Untested(build, call)
  BY Zenon, <1>1, <1>2 DEF Expected, Untested
<1>4. DecidesAsExpected(build, TRUE)
  BY Zenon, <1>2, EveryBuildDecides
<1>5. Verdict(Filter(build, TRUE), call) = Expected(TRUE, call)
  BY Zenon, <1>3, <1>4 DEF DecidesAsExpected
<1> QED
  BY Zenon, <1>3, <1>5

\* So a contained process that is sealed sets no limit.
LEMMA SealedSetsNothing ==
    ASSUME IsBuilt, Contained, sealed = TRUE, NEW k, NEW v
    PROVE  ~MaySet(k, v)
<1>1. PICK build \in Builds : filter = Installs(build)
  BY Zenon DEF IsBuilt
<1>2. ~filter[sealed].open
  BY Zenon, <1>1, FilterSeals DEF Installs
<1> QED
  BY Zenon, <1>2 DEF MaySet

\* What probe_value picks is exact and below the inherited hard limit.
LEMMA ProbeValueFits ==
    ASSUME NEW hard \in 0..MaxRlim
    PROVE  \/ ProbeValue(hard) = None /\ hard <= 2
           \/ /\ ProbeValue(hard) \in Nat
              /\ ExactValue(ProbeValue(hard)) /\ ProbeValue(hard) <= hard
BY LimitAssumption DEF ProbeValue, ExactValue, Infinity

(***************************************************************************)
(* Types.                                                                  *)
(***************************************************************************)
\* A value that setup_one accepts is an rlim_t.
LEMMA SetToType ==
    ASSUME TypeOK, NEW k \in Kind, NEW v \in 0..MaxRlim, SetTo(k, v)
    PROVE  limit' \in [Kind -> Rlimits]
BY Zenon DEF TypeOK, SetTo, Rlimits

\* The initial states are typed.
LEMMA InitType == Init => TypeOK /\ IsBuilt
<1> SUFFICES ASSUME Init PROVE TypeOK /\ IsBuilt
  BY Zenon
<1>1. IsBuilt
  BY Zenon DEF Init, IsBuilt
<1>2. limit \in [Kind -> Rlimits]
  <2>1. PICK hard \in [Kind -> HardLimits], lowered \in BOOLEAN :
          limit = [k \in Kind |-> [cur |-> IF lowered THEN 0 ELSE hard[k],
                                   max |-> hard[k]]]
    BY Zenon DEF Init
  <2>2. \A k \in Kind : hard[k] \in 0..MaxRlim
    BY Zenon, LimitAssumption
  <2>3. \A k \in Kind : [cur |-> IF lowered THEN 0 ELSE hard[k], max |-> hard[k]] \in Rlimits
    BY <2>2, LimitAssumption DEF Rlimits
  <2> QED
    BY Zenon, <2>1, <2>3
<1>3. request \in [Kind -> Nat \cup {None}]
  BY Zenon, LimitAssumption DEF Init, Unlimited
<1>4. next \in 1..(Len(Kinds) + 1)
  BY KindsFacts DEF Init
<1>5. probing \in Kind \cup {None} /\ phase \in {"probe", "setup"} /\ inherited = limit
  BY Zenon DEF Init
<1>6. privileged \in BOOLEAN /\ sealed \in BOOLEAN /\ faulted \in BOOLEAN
  BY Zenon DEF Init
<1> QED
  BY Zenon, <1>1, <1>2, <1>3, <1>4, <1>5, <1>6 DEF TypeOK

\* Every step keeps the types.
LEMMA TypeKept ==
    ASSUME TypeOK, IsBuilt, ProbeInv, [Next]_vars
    PROVE  TypeOK' /\ IsBuilt'
<1>1. IsBuilt'
  BY Zenon DEF IsBuilt, Next, vars, fixed, SetupOne, Contain, ProgramSets, ChooseProbeValue,
     AttemptRaise, Terminated
<1>2. CASE SetupOne
  <2> DEFINE k == Kinds[next]
             v == request[k]
  <2>1. k \in Kind /\ next \in 1..3
    BY <1>2, KindsFacts DEF SetupOne, TypeOK
  <2>2. v # None /\ ExactValue(v) => v \in 0..MaxRlim
    BY <2>1, LimitAssumption DEF TypeOK, ExactValue
  <2>3. limit' \in [Kind -> Rlimits]
    BY Zenon, <1>2, <2>1, <2>2, SetToType DEF SetupOne, Failed, TypeOK
  <2>4. next' \in 1..(Len(Kinds) + 1)
    BY <1>2, <2>1, KindsFacts DEF SetupOne, Failed, TypeOK
  <2>5. phase' \in {"setup", "failed"} /\ faulted' \in BOOLEAN
    BY Zenon, <1>2 DEF SetupOne, Failed, TypeOK
  <2> QED
    BY Zenon, <1>1, <1>2, <2>3, <2>4, <2>5 DEF SetupOne, fixed, TypeOK
<1>3. CASE Contain
  BY Zenon, <1>1, <1>3 DEF Contain, Failed, Seals, fixed, TypeOK
<1>4. CASE ProgramSets
  <2>1. limit' \in [Kind -> Rlimits]
    BY Zenon, <1>4, SetToType DEF ProgramSets
  <2> QED
    BY Zenon, <1>1, <1>4, <2>1 DEF ProgramSets, fixed, TypeOK
<1>5. CASE ChooseProbeValue
  <2>1. CASE UNCHANGED request
    BY Zenon, <1>1, <1>5, <2>1 DEF ChooseProbeValue, fixed, TypeOK
  <2>2. CASE request' = [request EXCEPT ![probing] = ProbeValue(limit[probing].max)]
    <3>1. probing # None => limit[probing].max \in 0..MaxRlim
      BY Zenon DEF TypeOK, Rlimits
    <3>2. probing # None => ProbeValue(limit[probing].max) \in Nat \cup {None}
      BY Zenon, <3>1, ProbeValueFits
    <3>3. request' \in [Kind -> Nat \cup {None}]
      BY Zenon, <2>2, <3>2, NoneIsNoKind DEF TypeOK
    <3> QED
      BY Zenon, <1>1, <1>5, <3>3 DEF ChooseProbeValue, fixed, TypeOK
  <2> QED
    BY Zenon, <1>5, <2>1, <2>2 DEF ChooseProbeValue
<1>6. CASE AttemptRaise
  <2>1. probing \in Kind /\ request[probing] \in Nat
    BY Zenon, <1>6 DEF AttemptRaise, ProbeInv, TypeOK
  <2>2. (request[probing] + 1) % (MaxRlim + 1) \in 0..MaxRlim
    BY <2>1, LimitAssumption
  <2>3. limit' \in [Kind -> Rlimits]
    BY Zenon, <1>6, <2>1, <2>2, SetToType DEF AttemptRaise, TypeOK
  <2> QED
    BY Zenon, <1>1, <1>6, <2>3 DEF AttemptRaise, fixed, TypeOK
<1>7. CASE UNCHANGED vars
  BY Zenon, <1>1, <1>7 DEF vars, TypeOK
<1> QED
  BY Zenon, <1>1, <1>2, <1>3, <1>4, <1>5, <1>6, <1>7 DEF Next, Terminated

(***************************************************************************)
(* setup_resource_limits and probe_one.                                    *)
(***************************************************************************)
\* setup_one sets the limit of its kind and of no other.
LEMMA SetupOneKeeps ==
    ASSUME LimitInv, SetupOne
    PROVE  SetupInv'
<1> DEFINE k == Kinds[next]
           v == request[k]
<1>1. next \in 1..3 /\ k \in Kind /\ next' \in {next, next + 1}
  BY KindsFacts DEF SetupOne, Failed, LimitInv, TypeOK
<1>2. UNCHANGED <<request, inherited, sealed, probing>> /\ phase = "setup"
  BY Zenon DEF SetupOne, fixed
<1>3. CASE phase' = "failed"
  BY Zenon, <1>3 DEF SetupInv, Contained
<1>4. CASE phase' # "failed"
  <2>1. phase' = "setup" /\ next' = next + 1
    BY Zenon, <1>2, <1>4 DEF SetupOne, Failed
  <2>2. \/ v = None /\ UNCHANGED limit
        \/ v # None /\ SetTo(k, v)
    BY Zenon, <1>4 DEF SetupOne, Failed
  <2>3. limit'[k] = Settled(k)
    <3>1. limit[k] = inherited[k]
      BY <1>1, <1>2, KindsFacts DEF LimitInv, SetupInv
    <3> QED
      BY Zenon, <1>1, <2>2, <3>1 DEF SetTo, Settled, LimitInv, TypeOK
  <2>4. \A i \in 1..3 : i # next => limit'[Kinds[i]] = limit[Kinds[i]]
    BY <1>1, <2>2, KindsFacts DEF SetTo, LimitInv, TypeOK
  <2>5. \A i \in 1..3 : limit'[Kinds[i]] = IF i < next + 1 THEN Settled(Kinds[i])
                                                         ELSE inherited[Kinds[i]]
    <3> TAKE i \in 1..3
    <3>1. limit[Kinds[i]] = IF i < next THEN Settled(Kinds[i]) ELSE inherited[Kinds[i]]
      BY Zenon, <1>2, KindsFacts DEF LimitInv, SetupInv
    <3>2. CASE i = next
      BY <1>1, <2>3, <3>2
    <3>3. CASE i # next
      BY <1>1, <2>4, <3>1, <3>3
    <3> QED
      BY Zenon, <3>2, <3>3
  <2>6. \A i \in 1..3 : Settled(Kinds[i])' = Settled(Kinds[i])
    BY Zenon, <1>2 DEF Settled
  <2> QED
    BY Zenon, <1>2, <2>1, <2>5, <2>6, KindsFacts DEF SetupInv, Contained
<1> QED
  BY Zenon, <1>3, <1>4

\* Every step keeps what the limits are.
LEMMA SetupKept ==
    ASSUME LimitInv, [Next]_vars
    PROVE  SetupInv'
<1>1. CASE SetupOne
  BY Zenon, <1>1, SetupOneKeeps
<1>2. CASE Contain
  <2>1. UNCHANGED <<request, inherited, limit, probing, next>> /\ next > 3 /\ phase = "setup"
    BY Zenon, <1>2, KindsFacts DEF Contain, Failed, fixed
  <2>2. \A i \in 1..3 : limit[Kinds[i]] = Settled(Kinds[i])
    BY <2>1, KindsFacts DEF LimitInv, SetupInv, TypeOK
  <2>3. \A k \in Kind : limit[k] = Settled(k)
    BY Zenon, <2>2, KindsFacts
  <2>4. \A k \in Kind : limit'[k] = Settled(k)'
    BY Zenon, <2>1, <2>3 DEF Settled
  <2>5. Seals' = Seals
    BY Zenon, <2>1 DEF Seals
  <2>6. phase' \in {"program", "attempt", "failed"} /\ (phase' # "failed" => sealed' = Seals)
    BY Zenon, <1>2 DEF Contain, Failed
  <2> QED
    BY Zenon, <2>4, <2>5, <2>6 DEF SetupInv, Contained
<1>3. CASE ProgramSets
  <2>1. sealed = FALSE
    <3>1. sealed # TRUE
      BY Zenon, <1>3, SealedSetsNothing DEF ProgramSets, LimitInv, Contained
    <3> QED
      BY Zenon, <3>1 DEF LimitInv, TypeOK
  <2> QED
    BY Zenon, <1>3, <2>1 DEF ProgramSets, LimitInv, SetupInv, fixed, Contained, Seals
<1>4. CASE ChooseProbeValue
  <2>1. UNCHANGED <<limit, inherited, next>> /\ next = 1 /\ limit = inherited
    BY Zenon, <1>4 DEF ChooseProbeValue, LimitInv, SetupInv, fixed
  <2>2. phase' \in {"setup", "failed"}
    BY Zenon, <1>4 DEF ChooseProbeValue
  <2> QED
    BY <2>1, <2>2, KindsFacts DEF SetupInv, Contained
<1>5. CASE AttemptRaise
  BY Zenon, <1>5 DEF AttemptRaise, SetupInv, Contained
<1>6. CASE UNCHANGED vars
  <2>1. Seals' = Seals /\ \A k : Settled(k)' = Settled(k)
    BY Zenon, <1>6 DEF vars, Seals, Settled
  <2> QED
    BY Zenon, <1>6, <2>1 DEF vars, LimitInv, SetupInv, Contained
<1> QED
  BY Zenon, <1>1, <1>2, <1>3, <1>4, <1>5, <1>6 DEF Next, Terminated

\* What a probe asks for is granted: setup_one fails only when a call does.
LEMMA ProbeIsGranted ==
    ASSUME LimitInv, SetupOne, probing # None
    PROVE  phase' = "failed" => faulted'
<1> DEFINE k == Kinds[next]
           v == request[k]
<1>1. next \in 1..3 /\ k \in Kind /\ phase = "setup" /\ probing \in Kind
  BY KindsFacts DEF SetupOne, LimitInv, TypeOK
<1>2. request = [Unlimited EXCEPT ![probing] = ProbeValue(inherited[probing].max)]
  BY Zenon, <1>1 DEF LimitInv, ProbeInv
<1>3. CASE v = None
  BY Zenon, <1>1, <1>3 DEF SetupOne
<1>4. CASE v # None
  <2>1. k = probing
    BY Zenon, <1>1, <1>2, <1>4 DEF Unlimited
  <2>2. limit[k] = inherited[k]
    BY <1>1, KindsFacts DEF LimitInv, SetupInv
  <2>3. limit[k].max \in 0..MaxRlim
    BY Zenon, <1>1 DEF LimitInv, TypeOK, Rlimits
  <2>4. v = ProbeValue(limit[k].max)
    BY Zenon, <1>1, <1>2, <2>1, <2>2 DEF Unlimited
  <2>5. ExactValue(v) /\ v <= limit[k].max
    BY Zenon, <1>4, <2>3, <2>4, ProbeValueFits
  <2>6. WithinCeiling(k, v) /\ MaySet(k, v)
    BY Zenon, <1>1, <2>5 DEF WithinCeiling, MaySet, Contained
  <2> QED
    BY Zenon, <1>1, <1>4, <2>5, <2>6 DEF SetupOne, Failed
<1> QED
  BY Zenon, <1>3, <1>4

\* Every step keeps what is known of a probe.
LEMMA ProbeKept ==
    ASSUME LimitInv, [Next]_vars
    PROVE  ProbeInv'
<1> USE DEF LimitInv, ProbeFailsForCause
<1>1. CASE SetupOne
  <2>1. UNCHANGED <<probing, request, inherited>> /\ phase' \in {"setup", "failed"}
    BY Zenon, <1>1 DEF SetupOne, Failed, fixed
  <2>2. phase = "setup"
    BY Zenon, <1>1 DEF SetupOne
  <2>3. probing # None /\ phase' = "failed" => faulted'
    BY Zenon, <1>1, ProbeIsGranted
  <2> QED
    BY Zenon, <2>1, <2>2, <2>3 DEF ProbeInv, ProbeValue, Unlimited
<1>2. CASE Contain
  <2>1. UNCHANGED <<probing, request, inherited>> /\ phase = "setup"
    BY Zenon, <1>2 DEF Contain, fixed
  <2>2. \/ phase' = IF probing = None THEN "program" ELSE "attempt"
        \/ phase' = "failed" /\ faulted'
    BY Zenon, <1>2 DEF Contain, Failed
  <2> QED
    BY Zenon, <2>1, <2>2 DEF ProbeInv, ProbeValue, Unlimited
<1>3. CASE ProgramSets
  BY Zenon, <1>3 DEF ProgramSets, ProbeInv, fixed
<1>4. CASE ChooseProbeValue
  <2>1. probing \in Kind /\ limit = inherited /\ request = Unlimited
    BY Zenon, <1>4 DEF ChooseProbeValue, ProbeInv, SetupInv, TypeOK
  <2>2. UNCHANGED <<probing, inherited>>
    BY Zenon, <1>4 DEF ChooseProbeValue, fixed
  <2>3. inherited[probing].max \in 0..MaxRlim
    BY Zenon, <2>1 DEF TypeOK, Rlimits
  <2>4. CASE phase' = "setup"
    <3>1. /\ ProbeValue(inherited[probing].max) # None
          /\ request' = [Unlimited EXCEPT ![probing] = ProbeValue(inherited[probing].max)]
      BY Zenon, <1>4, <2>1, <2>4 DEF ChooseProbeValue
    <3>2. request'[probing] # None
      BY Zenon, <2>1, <3>1 DEF Unlimited
    <3> QED
      BY Zenon, <2>2, <2>4, <3>1, <3>2 DEF ProbeInv, ProbeValue, Unlimited
  <2>5. CASE phase' = "failed"
    <3>1. faulted' \/ ProbeValue(inherited[probing].max) = None
      BY Zenon, <1>4, <2>1, <2>5 DEF ChooseProbeValue
    <3>2. faulted' \/ inherited[probing].max <= 2
      BY Zenon, <2>3, <3>1, ProbeValueFits, LimitAssumption
    <3> QED
      BY Zenon, <2>2, <2>5, <3>2 DEF ProbeInv
  <2> QED
    BY Zenon, <1>4, <2>4, <2>5 DEF ChooseProbeValue
<1>5. CASE AttemptRaise
  <2>1. probing # None /\ sealed = TRUE /\ phase = "attempt"
    BY Zenon, <1>5 DEF AttemptRaise, ProbeInv, SetupInv, Contained, Seals, TypeOK
  <2>2. \A v : ~MaySet(probing, v)
    BY Zenon, <2>1, SealedSetsNothing DEF Contained
  <2>3. phase' = "supported" \/ (phase' = "failed" /\ faulted')
    BY Zenon, <1>5, <2>2 DEF AttemptRaise
  <2> QED
    BY Zenon, <1>5, <2>1, <2>3 DEF AttemptRaise, ProbeInv, fixed
<1>6. CASE UNCHANGED vars
  BY Zenon, <1>6 DEF vars, ProbeInv, ProbeValue, Unlimited
<1> QED
  BY Zenon, <1>1, <1>2, <1>3, <1>4, <1>5, <1>6 DEF Next, Terminated

(***************************************************************************)
(* The theorems.                                                           *)
(***************************************************************************)
\* The invariant holds before anything was set up.
LEMMA LimitInvInit == Init => LimitInv
<1> SUFFICES ASSUME Init PROVE LimitInv
  BY Zenon
<1>1. SetupInv
  <2>1. next = 1 /\ inherited = limit /\ phase \in {"setup", "probe"}
    BY Zenon DEF Init
  <2>2. phase = "probe" => request = Unlimited
    BY Zenon DEF Init
  <2> QED
    BY <2>1, <2>2, KindsFacts DEF SetupInv, Contained
<1>2. ProbeInv
  BY Zenon, NoneIsNoKind DEF Init, ProbeInv, ProbeFailsForCause
<1> QED
  BY Zenon, <1>1, <1>2, InitType DEF LimitInv

\* A step keeps the invariant.
LEMMA LimitInvKept == LimitInv /\ [Next]_vars => LimitInv'
BY Zenon, TypeKept, SetupKept, ProbeKept DEF LimitInv

\* The invariant holds throughout.
THEOREM LimitInvariant == Spec => []LimitInv
BY LimitInvInit, LimitInvKept, PTL DEF Spec

\* The filter a contained process has decides about every call whose number it
\* tests as DESIGN.md says, and lets the others through, sealed or not, with the
\* headers of any age (install_process_group_containment).
THEOREM FilterAlwaysDecides == Spec => []FilterDecides
<1>1. LimitInv => FilterDecides
  BY Zenon, BuiltDecides DEF LimitInv, TypeOK
<1> QED
  BY <1>1, LimitInvariant, PTL

\* A program with limits has exactly those of its request, and the inherited
\* ones otherwise, whatever it and its processes try, privileged or not, on a
\* kernel that serves no x32 calls.
THEOREM LimitsAlwaysExact == Spec => []LimitsStayExact
<1>1. LimitInv => LimitsStayExact
  <2> SUFFICES ASSUME LimitInv, phase = "program", \E k \in Kind : request[k] # None
               PROVE  \A k \in Kind : limit[k] = Settled(k)
    BY Zenon DEF LimitsStayExact, Settled
  <2>1. sealed = TRUE
    BY Zenon DEF LimitInv, SetupInv, Contained, Seals, TypeOK
  <2> QED
    BY Zenon, <2>1 DEF LimitInv, SetupInv, Contained
<1> QED
  BY <1>1, LimitInvariant, PTL

\* A probe says no only because a call failed or because the inherited hard
\* limit leaves no room below it.
THEOREM ProbeAlwaysFailsForCause == Spec => []ProbeFailsForCause
<1>1. LimitInv => ProbeFailsForCause
  BY Zenon DEF LimitInv, ProbeInv
<1> QED
  BY <1>1, LimitInvariant, PTL

\* setup_one accepts no value above the hard limit it finds.
LEMMA SetupRaisesNothing ==
    ASSUME LimitInv, SetupOne, NEW k \in Kind
    PROVE  limit'[k].max <= limit[k].max
<1> DEFINE s == Kinds[next]
           v == request[s]
<1>1. next \in 1..3 /\ s \in Kind
  BY KindsFacts DEF SetupOne, LimitInv, TypeOK
<1>2. limit[k].max \in 0..MaxRlim /\ limit[s].max \in 0..MaxRlim
  BY Zenon, <1>1 DEF LimitInv, TypeOK, Rlimits
<1>3. CASE UNCHANGED limit
  BY <1>2, <1>3
<1>4. CASE ~UNCHANGED limit
  <2>1. v # None /\ ExactValue(v) /\ WithinCeiling(s, v) /\ SetTo(s, v)
    BY Zenon, <1>1, <1>4 DEF SetupOne, Failed
  <2>2. v \in Nat /\ v <= limit[s].max
    BY Zenon, <1>1, <1>2, <2>1, LimitAssumption DEF ExactValue, WithinCeiling, Infinity, LimitInv,
       TypeOK
  <2>3. limit'[k].max = IF k = s THEN v ELSE limit[k].max
    BY Zenon, <1>1, <2>1 DEF SetTo, LimitInv, TypeOK, Rlimits
  <2> QED
    BY <1>2, <2>2, <2>3
<1> QED
  BY Zenon, <1>3, <1>4

\* The backend raises no hard limit on the way to the program, not even where it
\* is privileged to.
THEOREM CeilingAlwaysKept == Spec => CeilingIsKept
<1>1. LimitInv /\ [Next]_vars =>
        [phase # "program" => \A k \in Kind : limit'[k].max <= limit[k].max]_vars
  <2> SUFFICES ASSUME LimitInv, Next, phase # "program", NEW k \in Kind
               PROVE  limit'[k].max <= limit[k].max
    BY Zenon
  <2>1. limit[k].max \in Nat
    BY LimitAssumption DEF LimitInv, TypeOK, Rlimits
  <2>2. CASE SetupOne
    BY Zenon, <2>2, SetupRaisesNothing
  <2>3. CASE AttemptRaise
    <3>1. probing # None /\ sealed = TRUE /\ phase = "attempt"
      BY Zenon, <2>3 DEF AttemptRaise, LimitInv, ProbeInv, SetupInv, Contained, Seals, TypeOK
    <3>2. \A v : ~MaySet(probing, v)
      BY Zenon, <3>1, SealedSetsNothing DEF LimitInv, Contained
    <3>3. UNCHANGED limit
      BY Zenon, <2>3, <3>2 DEF AttemptRaise
    <3> QED
      BY <2>1, <3>3
  <2>4. CASE Contain \/ ChooseProbeValue \/ Terminated
    BY <2>1, <2>4 DEF Contain, Failed, ChooseProbeValue, Terminated, vars
  <2>5. ~ProgramSets
    BY Zenon DEF ProgramSets
  <2> QED
    BY Zenon, <2>2, <2>3, <2>4, <2>5 DEF Next
<1> QED
  BY <1>1, LimitInvariant, PTL DEF Spec, CeilingIsKept
=============================================================================
