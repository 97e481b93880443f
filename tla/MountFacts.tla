----------------------------- MODULE MountFacts -----------------------------
(***************************************************************************)
(* Paths, lookups and the admission of an isolated execution.              *)
(*                                                                         *)
(* A lookup is a recursive function over the components of a path.  That   *)
(* it has a value, and what the value is, is shown by induction on paths,  *)
(* which rests on the least element of a set of numbers.  From it follow   *)
(* the facts the steps of the child need: what a new mount shows, what it  *)
(* hides, and what it leaves alone.                                        *)
(***************************************************************************)
EXTENDS MountIsolation, TLAPS, WellFoundedInduction

(***************************************************************************)
(* Sequences and paths.                                                    *)
(***************************************************************************)
\* A sequence is a function on the numbers up to its length.
LEMMA SeqIs ==
    ASSUME NEW S, NEW s \in Seq(S)
    PROVE  Len(s) \in Nat /\ DOMAIN s = 1..Len(s) /\ s \in [1..Len(s) -> S]
OBVIOUS

\* The elements of a sequence.
LEMMA SeqElement ==
    ASSUME NEW S, NEW s \in Seq(S), NEW n \in 1..Len(s)
    PROVE  s[n] \in S
OBVIOUS

\* Every function on the first numbers is a sequence.
LEMMA SeqOf ==
    ASSUME NEW S, NEW n \in Nat, NEW f \in [1..n -> S]
    PROVE  f \in Seq(S) /\ Len(f) = n
OBVIOUS

\* The empty sequence is the one of length 0.
LEMMA SeqEmpty ==
    ASSUME NEW S
    PROVE  /\ <<>> \in Seq(S) /\ Len(<<>>) = 0
           /\ \A s \in Seq(S) : s # <<>> => Len(s) \in Nat \ {0}
OBVIOUS

\* What Append does.
LEMMA SeqAppend ==
    ASSUME NEW S, NEW s \in Seq(S), NEW e \in S
    PROVE  /\ Append(s, e) \in Seq(S) /\ Append(s, e) # <<>>
           /\ Len(Append(s, e)) = Len(s) + 1
           /\ \A i \in 1..Len(s) : Append(s, e)[i] = s[i]
           /\ Append(s, e)[Len(s) + 1] = e
OBVIOUS

\* Every set of numbers that is not empty has a least one.
LEMMA LeastNumber ==
    ASSUME NEW T, T \subseteq Nat, T # {}
    PROVE  \E n \in T : \A m \in T : n <= m
<1>1. PICK n \in T : \A m \in T : <<m, n>> \notin OpToRel(<, Nat)
  BY Zenon, NatLessThanWellFounded, WFMin
<1>2. \A m \in T : ~(m < n)
  BY Zenon, <1>1 DEF OpToRel
<1> QED BY <1>2

\* What the first components of a path are.
LEMMA SubPath ==
    ASSUME NEW p \in Path, NEW k \in 0..Len(p)
    PROVE  /\ SubSeq(p, 1, k) \in Path
           /\ Len(SubSeq(p, 1, k)) = k
           /\ \A i \in 1..k : SubSeq(p, 1, k)[i] = p[i]
<1>1. Len(p) \in Nat /\ \A i \in 1..k : p[i] \in Names
  BY DEF Path
<1> QED BY <1>1 DEF Path

\* Paths of the same components are the same.
LEMMA PathEqual ==
    ASSUME NEW p \in Path, NEW q \in Path, Len(p) = Len(q), \A i \in 1..Len(p) : p[i] = q[i]
    PROVE  p = q
BY DEF Path

\* path_contains compares component by component.
LEMMA PrefixDef ==
    ASSUME NEW p \in Path, NEW q \in Path
    PROVE  PathContains(p, q) <=> Len(p) <= Len(q) /\ \A i \in 1..Len(p) : p[i] = q[i]
BY Zenon DEF PathContains

\* The root is the path without components.
LEMMA EmptyPath == /\ <<>> \in Path /\ Len(<<>>) = 0
                   /\ \A p \in Path : /\ Len(p) \in Nat
                                      /\ Len(p) = 0 <=> p = <<>>
BY SeqEmpty DEF Path

\* The parent of a path, and the name in it.
LEMMA ParentDef ==
    ASSUME NEW p \in Path, p # <<>>
    PROVE  /\ Parent(p) \in Path
           /\ Len(Parent(p)) = Len(p) - 1 /\ Len(p) \in Nat \ {0}
           /\ \A i \in 1..(Len(p) - 1) : Parent(p)[i] = p[i]
           /\ FileName(p) = p[Len(p)] /\ FileName(p) \in Names
<1>1. Len(p) \in Nat \ {0}
  BY Zenon, EmptyPath
<1>2. FileName(p) = p[Len(p)] /\ FileName(p) \in Names
  BY <1>1, SeqElement DEF FileName, Path
<1>3. Len(p) - 1 \in 0..Len(p)
  BY <1>1
<1>4. Parent(p) = SubSeq(p, 1, Len(p) - 1)
  BY Zenon DEF Parent
<1>5. /\ SubSeq(p, 1, Len(p) - 1) \in Path
      /\ Len(SubSeq(p, 1, Len(p) - 1)) = Len(p) - 1
      /\ \A i \in 1..(Len(p) - 1) : SubSeq(p, 1, Len(p) - 1)[i] = p[i]
  BY Zenon, <1>3, SubPath
<1> QED BY Zenon, <1>1, <1>2, <1>4, <1>5

\* A name in a directory.
LEMMA AppendDef ==
    ASSUME NEW p \in Path, NEW c \in Names
    PROVE  /\ Append(p, c) \in Path /\ Append(p, c) # <<>>
           /\ Len(Append(p, c)) = Len(p) + 1
           /\ \A i \in 1..Len(p) : Append(p, c)[i] = p[i]
           /\ Append(p, c)[Len(p) + 1] = c
<1>1. p \in Seq(Names)
  BY Zenon DEF Path
<1>2. /\ Append(p, c) \in Seq(Names)
      /\ Append(p, c) # << >>
      /\ Len(Append(p, c)) = Len(p)+1
      /\ \A i \in 1.. Len(p) : Append(p, c)[i] = p[i]
      /\ Append(p, c)[Len(p)+1] = c
  BY <1>1, SeqAppend
<1> QED BY <1>2, Zenon DEF Path

\* The parent of a name in a directory is that directory.
LEMMA ParentAppend ==
    ASSUME NEW p \in Path, NEW c \in Names
    PROVE  Parent(Append(p, c)) = p /\ FileName(Append(p, c)) = c
<1> DEFINE q == Append(p, c)
<1>1. /\ Len(p) \in Nat /\ q \in Path /\ q # <<>> /\ Len(q) = Len(p) + 1
      /\ \A i \in 1..Len(p) : q[i] = p[i]
      /\ q[Len(p) + 1] = c
  BY EmptyPath, AppendDef, Zenon
<1> HIDE DEF q
<1>2. /\ Parent(q) \in Path /\ Len(Parent(q)) = Len(q) - 1
      /\ \A i \in 1..(Len(q) - 1) : Parent(q)[i] = q[i]
      /\ FileName(q) = q[Len(q)]
  BY Zenon, <1>1, ParentDef
<1>3. Parent(q) = p
  BY <1>1, <1>2, PathEqual
<1> QED BY Zenon, <1>1, <1>2, <1>3 DEF q

\* A path is its last component in its parent.
LEMMA AppendParent ==
    ASSUME NEW p \in Path, p # <<>>
    PROVE  Append(Parent(p), FileName(p)) = p
<1> DEFINE f == Parent(p)
           q == Append(f, FileName(p))
<1>1. /\ Len(f) = Len(p) - 1 /\ Len(p) \in Nat \ {0} /\ f \in Path
      /\ \A i \in 1..(Len(p) - 1) : f[i] = p[i]
      /\ FileName(p) = p[Len(p)] /\ FileName(p) \in Names
  BY Zenon, ParentDef
<1> HIDE DEF f
<1>2. /\ q \in Path /\ Len(q) = Len(f) + 1
      /\ \A i \in 1..Len(f) : q[i] = f[i]
      /\ q[Len(f) + 1] = FileName(p)
  BY <1>1, AppendDef, Zenon
<1> HIDE DEF q
<1>3. q = p
  BY <1>1, <1>2, PathEqual
<1> QED BY Zenon, <1>3 DEF q, f

\* Induction over paths, on the set of those for which a statement holds.
LEMMA PathInduction ==
    ASSUME NEW S, <<>> \in S,
           \A p \in Path \ {<<>>} : Parent(p) \in S => p \in S
    PROVE  Path \subseteq S
<1> DEFINE T == {n \in Nat : \E p \in Path : Len(p) = n /\ p \notin S}
<1> SUFFICES ASSUME NEW q \in Path, q \notin S PROVE FALSE
  BY Zenon
<1>1. PICK n \in T : \A m \in T : n <= m
  <2>1. Len(q) \in T
    BY Zenon, EmptyPath
  <2> HIDE DEF T
  <2>2. T \subseteq Nat
    BY Zenon DEF T
  <2> QED BY Zenon, <2>1, <2>2, LeastNumber
<1>2. PICK p \in Path : Len(p) = n /\ p \notin S
  BY Zenon, <1>1
<1>3. Parent(p) \notin S /\ Parent(p) \in Path /\ Len(Parent(p)) = n - 1 /\ n - 1 \in Nat
  BY <1>2, ParentDef
<1> QED BY <1>1, <1>3

\* A path contains another one that is the same or whose parent it contains.
LEMMA PrefixParent ==
    ASSUME NEW p \in Path, NEW q \in Path, q # <<>>
    PROVE  PathContains(p, q) <=> p = q \/ PathContains(p, Parent(q))
<1>1. /\ Len(p) \in Nat /\ Parent(q) \in Path
      /\ Len(Parent(q)) = Len(q) - 1 /\ Len(q) \in Nat \ {0}
      /\ \A i \in 1..(Len(q) - 1) : Parent(q)[i] = q[i]
  BY Zenon, EmptyPath, ParentDef
<1>2. ASSUME PathContains(p, q), p # q PROVE PathContains(p, Parent(q))
  <2>1. Len(p) <= Len(q) /\ \A i \in 1..Len(p) : p[i] = q[i]
    BY Zenon, <1>2, PrefixDef
  <2>2. Len(p) # Len(q)
    BY Zenon, <1>2, <2>1, PathEqual
  <2>3. Len(p) <= Len(Parent(q)) /\ \A i \in 1..Len(p) : p[i] = Parent(q)[i]
    BY <1>1, <2>1, <2>2
  <2> QED BY Zenon, <1>1, <2>3, PrefixDef
<1>3. ASSUME PathContains(p, Parent(q)) PROVE PathContains(p, q)
  <2>1. Len(p) <= Len(Parent(q)) /\ \A i \in 1..Len(p) : p[i] = Parent(q)[i]
    BY Zenon, <1>1, <1>3, PrefixDef
  <2>2. Len(p) <= Len(q) /\ \A i \in 1..Len(p) : p[i] = q[i]
    BY <1>1, <2>1
  <2> QED BY Zenon, <2>2, PrefixDef
<1>4. PathContains(q, q)
  BY <1>1, PrefixDef
<1> QED BY Zenon, <1>2, <1>3, <1>4

\* path_contains is an order, and the paths that contain another one are in a line.
LEMMA PrefixOrder ==
    /\ \A p \in Path : /\ PathContains(p, p) /\ PathContains(<<>>, p)
                       /\ PathContains(p, <<>>) <=> p = <<>>
    /\ \A p, q, r \in Path :
         /\ PathContains(p, q) /\ PathContains(q, r) => PathContains(p, r)
         /\ PathContains(p, r) /\ PathContains(q, r)
              => PathContains(p, q) \/ PathContains(q, p)
<1>1. ASSUME NEW p \in Path
      PROVE  /\ PathContains(p, p) /\ PathContains(<<>>, p)
             /\ PathContains(p, <<>>) <=> p = <<>>
  <2>1. Len(p) \in Nat /\ <<>> \in Path /\ Len(<<>>) = 0 /\ (Len(p) = 0 <=> p = <<>>)
    BY Zenon, EmptyPath
  <2>2. PathContains(p, p)
    BY <2>1, PrefixDef
  <2>3. PathContains(<<>>, p)
    <3>1. Len(<<>>) <= Len(p) /\ \A i \in 1..Len(<<>>) : <<>>[i] = p[i]
      BY <2>1
    <3> QED BY Zenon, <2>1, <3>1, PrefixDef
  <2>4. PathContains(p, <<>>) => Len(p) <= Len(<<>>)
    BY Zenon, <2>1, PrefixDef
  <2> QED BY <2>1, <2>2, <2>3, <2>4
<1>2. ASSUME NEW p \in Path, NEW q \in Path, NEW r \in Path,
             PathContains(p, q), PathContains(q, r)
      PROVE  PathContains(p, r)
  <2>1. Len(p) \in Nat /\ Len(q) \in Nat /\ Len(r) \in Nat
    BY Zenon, EmptyPath
  <2>2. /\ Len(p) <= Len(q) /\ \A i \in 1..Len(p) : p[i] = q[i]
        /\ Len(q) <= Len(r) /\ \A i \in 1..Len(q) : q[i] = r[i]
    BY Zenon, <1>2, PrefixDef
  <2>3. Len(p) <= Len(r) /\ \A i \in 1..Len(p) : p[i] = r[i]
    BY <2>1, <2>2
  <2> QED BY Zenon, <2>3, PrefixDef
<1>3. ASSUME NEW p \in Path, NEW q \in Path, NEW r \in Path,
             PathContains(p, r), PathContains(q, r)
      PROVE  PathContains(p, q) \/ PathContains(q, p)
  <2>1. Len(p) \in Nat /\ Len(q) \in Nat /\ Len(r) \in Nat
    BY Zenon, EmptyPath
  <2>2. /\ Len(p) <= Len(r) /\ \A i \in 1..Len(p) : p[i] = r[i]
        /\ Len(q) <= Len(r) /\ \A i \in 1..Len(q) : q[i] = r[i]
    BY Zenon, <1>3, PrefixDef
  <2>3. CASE Len(p) <= Len(q)
    <3>1. \A i \in 1..Len(p) : p[i] = q[i]
      BY <2>1, <2>2, <2>3
    <3> QED BY Zenon, <2>3, <3>1, PrefixDef
  <2>4. CASE Len(q) <= Len(p)
    <3>1. \A i \in 1..Len(q) : q[i] = p[i]
      BY <2>1, <2>2, <2>4
    <3> QED BY Zenon, <2>4, <3>1, PrefixDef
  <2> QED BY <2>1, <2>3, <2>4
<1> QED BY Zenon, <1>1, <1>2, <1>3

\* /dev contains the paths that begin with it, and only the root contains /dev.
LEMMA DevPath ==
    /\ Dev \in Path /\ Dev # <<>> /\ Parent(Dev) = <<>>
    /\ \A p \in Path : /\ PathContains(Dev, p) <=> p # <<>> /\ p[1] = "dev"
                       /\ PathContains(p, Dev) <=> p \in {<<>>, Dev}
<1>1. /\ Dev \in Path /\ Len(Dev) = 1 /\ Dev[1] = "dev" /\ Dev # <<>>
  BY MountAssumption DEF Dev, Path
<1>2. Parent(Dev) = <<>>
  BY <1>1, EmptyPath, ParentDef
<1>3. ASSUME NEW p \in Path
      PROVE  PathContains(Dev, p) <=> p # <<>> /\ p[1] = "dev"
  <2>1. Len(p) \in Nat /\ (Len(p) = 0 <=> p = <<>>)
    BY Zenon, EmptyPath
  <2>2. PathContains(Dev, p) <=> Len(Dev) <= Len(p) /\ \A i \in 1..Len(Dev) : Dev[i] = p[i]
    BY Zenon, <1>1, PrefixDef
  <2> QED BY <1>1, <2>1, <2>2
<1>4. ASSUME NEW p \in Path
      PROVE  PathContains(p, Dev) <=> p \in {<<>>, Dev}
  <2>1. PathContains(p, Dev) <=> p = Dev \/ PathContains(p, <<>>)
    BY Zenon, <1>1, <1>2, PrefixParent
  <2> QED BY Zenon, <2>1, PrefixOrder
<1> QED BY Zenon, <1>1, <1>2, <1>3, <1>4

(***************************************************************************)
(* Lookups in the mount table.                                             *)
(***************************************************************************)
\* The recursive definition of a lookup has a solution.
LEMMA WalkDef ==
    ASSUME NEW dirs, NEW table, NEW p \in Path
    PROVE  Walk(dirs, table, p) =
             [k \in 0..Len(p) |->
                Entered(dirs, table, IF k = 0 THEN 1 ELSE Walk(dirs, table, p)[k - 1],
                        SubSeq(p, 1, k))]
<1> DEFINE Turn(m, k) == Entered(dirs, table, m, SubSeq(p, 1, k))
           Solves(f, n) == f = [k \in 0..n |-> Turn(IF k = 0 THEN 1 ELSE f[k - 1], k)]
<1>0. Len(p) \in Nat
  BY DEF Path
<1>1. \A n \in Nat : \E f : Solves(f, n)
  <2> DEFINE T == {n \in Nat : ~\E f : Solves(f, n)}
  <2> SUFFICES ASSUME T # {} PROVE FALSE
    BY Zenon
  <2>1. PICK n \in T : \A m \in T : n <= m
    BY Zenon, LeastNumber
  <2>2. n # 0
    <3>1. Solves([k \in 0..0 |-> Turn(1, 0)], 0)
      BY DEF Turn
    <3> QED BY Zenon, <2>1, <3>1
  <2>3. PICK f : Solves(f, n - 1)
    BY <2>1, <2>2
  <2> DEFINE g == [k \in 0..n |-> IF k = n THEN Turn(f[n - 1], n) ELSE f[k]]
  <2>4. Solves(g, n)
    <3> HIDE DEF Turn
    <3>1. \A k \in 0..(n - 1) : f[k] = Turn(IF k = 0 THEN 1 ELSE f[k - 1], k)
      BY Zenon, <2>3
    <3>2. \A k \in 0..n : g[k] = Turn(IF k = 0 THEN 1 ELSE g[k - 1], k)
      BY <2>1, <2>2, <3>1
    <3>3. g = [k \in 0..n |-> g[k]]
      BY Zenon
    <3> HIDE DEF g
    <3> QED BY Zenon, <3>2, <3>3
  <2> QED BY Zenon, <2>1, <2>4
<1>2. Walk(dirs, table, p) = CHOOSE f : Solves(f, Len(p))
  BY Zenon DEF Walk
<1> HIDE DEF Solves
<1>3. Solves(Walk(dirs, table, p), Len(p))
  BY Zenon, <1>0, <1>1, <1>2
<1> QED BY Zenon, <1>3 DEF Solves

\* The lookup of a path starts like that of the directory it is in.
LEMMA WalkOfParent ==
    ASSUME NEW dirs, NEW table, NEW p \in Path, p # <<>>
    PROVE  Walk(dirs, table, Parent(p))[Len(p) - 1] = Walk(dirs, table, p)[Len(p) - 1]
<1> DEFINE f == Parent(p)
           W(q, k) == Walk(dirs, table, q)[k]
           T == {k \in 0..Len(f) : W(f, k) # W(p, k)}
<1>1. /\ f \in Path /\ Len(f) = Len(p) - 1 /\ Len(p) \in Nat \ {0}
      /\ \A i \in 1..(Len(p) - 1) : f[i] = p[i]
  BY Zenon, ParentDef
<1>2. \A k \in 0..Len(f) : SubSeq(f, 1, k) = SubSeq(p, 1, k)
  <2> SUFFICES ASSUME NEW k \in 0..Len(f) PROVE SubSeq(f, 1, k) = SubSeq(p, 1, k)
    BY Zenon
  <2>1. /\ SubSeq(f, 1, k) \in Path /\ Len(SubSeq(f, 1, k)) = k
        /\ \A i \in 1..k : SubSeq(f, 1, k)[i] = f[i]
    BY Zenon, <1>1, SubPath
  <2>2. /\ SubSeq(p, 1, k) \in Path /\ Len(SubSeq(p, 1, k)) = k
        /\ \A i \in 1..k : SubSeq(p, 1, k)[i] = p[i]
    BY <1>1, SubPath
  <2> HIDE DEF f
  <2> QED BY <1>1, <2>1, <2>2, PathEqual
<1>3. \A k \in 0..Len(f) :
        W(f, k) = Entered(dirs, table, IF k = 0 THEN 1 ELSE W(f, k - 1), SubSeq(f, 1, k))
  BY <1>1, WalkDef
<1>4. \A k \in 0..Len(p) :
        W(p, k) = Entered(dirs, table, IF k = 0 THEN 1 ELSE W(p, k - 1), SubSeq(p, 1, k))
  BY WalkDef
<1> HIDE DEF W, f
<1>5. T = {}
  <2> SUFFICES ASSUME T # {} PROVE FALSE
    BY Zenon
  <2>1. T \subseteq Nat
    OBVIOUS
  <2>2. PICK k \in T : \A m \in T : k <= m
    BY Zenon, <2>1, LeastNumber
  <2>3. k # 0 => W(f, k - 1) = W(p, k - 1)
    BY <1>1, <2>2
  <2>4. k \in 0..Len(f) /\ k \in 0..Len(p) /\ W(f, k) # W(p, k)
    BY <1>1, <2>2
  <2>5. (IF k = 0 THEN 1 ELSE W(f, k - 1)) = (IF k = 0 THEN 1 ELSE W(p, k - 1))
    BY Zenon, <2>3
  <2> QED BY Zenon, <1>2, <1>3, <1>4, <2>4, <2>5
<1> QED BY <1>1, <1>5 DEF W, f

\* A lookup goes component by component.
LEMMA ReachedDef ==
    ASSUME NEW dirs, NEW table, NEW p \in Path
    PROVE  /\ p = <<>> => ReachedIn(dirs, table, p) = Entered(dirs, table, 1, p)
           /\ p # <<>> => ReachedIn(dirs, table, p) =
                            Entered(dirs, table, ReachedIn(dirs, table, Parent(p)), p)
<1>1. Len(p) \in Nat /\ (p = <<>> <=> Len(p) = 0) /\ SubSeq(p, 1, Len(p)) = p
  BY EmptyPath DEF Path
<1>2. Walk(dirs, table, p)[Len(p)] =
        Entered(dirs, table, IF Len(p) = 0 THEN 1 ELSE Walk(dirs, table, p)[Len(p) - 1],
                SubSeq(p, 1, Len(p)))
  BY <1>1, WalkDef
<1>3. p # <<>> => Walk(dirs, table, p)[Len(p) - 1] = ReachedIn(dirs, table, Parent(p))
  BY WalkOfParent, ParentDef DEF ReachedIn
<1> QED BY Zenon, <1>1, <1>2, <1>3 DEF ReachedIn

\* Max of a bounded set is its greatest element.
LEMMA GreatestNumber ==
    ASSUME NEW n \in Nat, NEW T, T \subseteq 0..n, T # {}
    PROVE  Max(T) \in T /\ \A m \in T : m <= Max(T)
<1> DEFINE U == {k \in Nat : \E m \in T : k = n - m}
<1>1. U \subseteq Nat /\ U # {}
  <2>1. PICK m \in T : TRUE
    BY Zenon
  <2>2. n - m \in U
    BY <2>1
  <2> QED BY Zenon, <2>2
<1>2. PICK k \in U : \A l \in U : k <= l
  BY Zenon, <1>1, LeastNumber
<1>3. PICK m \in T : k = n - m
  BY Zenon, <1>2
<1>4. \A l \in T : n - l \in U
  OBVIOUS
<1>5. \A l \in T : m >= l
  BY <1>2, <1>3, <1>4
<1>6. Max(T) = CHOOSE x \in T : \A y \in T : x >= y
  BY Zenon DEF Max
<1>7. Max(T) \in T /\ \A y \in T : Max(T) >= y
  BY Zenon, <1>3, <1>5, <1>6
<1> QED BY Zenon, <1>7

\* Where a step of a lookup ends.
LEMMA EnteredDef ==
    ASSUME NEW dirs, NEW table \in Seq(MountType), NEW m \in 0..Len(table), NEW p
    PROVE  /\ Entered(dirs, table, m, p) \in 0..Len(table)
           /\ Entered(dirs, table, m, p) # 0 <=> m # 0 /\ Holds(dirs, table, m, p)
           /\ Entered(dirs, table, m, p) # 0 =>
                /\ Entered(dirs, table, m, p) \in {m} \cup Covering(table, m, p)
                /\ \A i \in {m} \cup Covering(table, m, p) :
                     i <= Entered(dirs, table, m, p)
<1>1. Len(table) \in Nat /\ Covering(table, m, p) \subseteq 1..Len(table)
  BY DEF Covering
<1> DEFINE T == {m} \cup Covering(table, m, p)
<1>2. T \subseteq 0..Len(table) /\ T # {}
  BY <1>1
<1>3. Max(T) \in T /\ \A i \in T : i <= Max(T)
  BY Zenon, <1>1, <1>2, GreatestNumber
<1>4. m # 0 => T \subseteq 1..Len(table)
  BY <1>1
<1> HIDE DEF T
<1>5. Entered(dirs, table, m, p) =
        IF m = 0 \/ ~Holds(dirs, table, m, p) THEN 0 ELSE Max(T)
  BY Zenon DEF Entered, T
<1>6. CASE m = 0 \/ ~Holds(dirs, table, m, p)
  BY <1>1, <1>5, <1>6
<1>7. CASE ~(m = 0 \/ ~Holds(dirs, table, m, p))
  <2>1. Entered(dirs, table, m, p) = Max(T)
    BY Zenon, <1>5, <1>7
  <2>2. Max(T) \in 1..Len(table)
    BY Zenon, <1>3, <1>4, <1>7
  <2>3. Entered(dirs, table, m, p) \in 1..Len(table)
    BY Zenon, <2>1, <2>2
  <2>4. Entered(dirs, table, m, p) \in 0..Len(table) /\ Entered(dirs, table, m, p) # 0
    BY <1>1, <2>3
  <2>5. /\ Entered(dirs, table, m, p) \in T
        /\ \A i \in T : i <= Entered(dirs, table, m, p)
    BY Zenon, <1>3, <2>1
  <2> QED BY Zenon, <1>7, <2>4, <2>5 DEF T
<1> QED BY Zenon, <1>6, <1>7

\* A lookup ends in a mount of the table or nowhere.
LEMMA ReachedType ==
    ASSUME NEW dirs, NEW table \in Seq(MountType), table # <<>>
    PROVE  \A p \in Path : ReachedIn(dirs, table, p) \in 0..Len(table)
<1> DEFINE S == {p \in Path : ReachedIn(dirs, table, p) \in 0..Len(table)}
<1>1. 1 \in 0..Len(table)
  <2>1. Len(table) \in Nat \ {0}
    BY SeqEmpty, Zenon
  <2> QED BY <2>1
<1>2. <<>> \in S
  <2>1. <<>> \in Path /\ ReachedIn(dirs, table, <<>>) = Entered(dirs, table, 1, <<>>)
    BY Zenon, EmptyPath, ReachedDef
  <2>2. Entered(dirs, table, 1, <<>>) \in 0..Len(table)
    BY Zenon, <1>1, EnteredDef
  <2> QED BY Zenon, <2>1, <2>2
<1>3. ASSUME NEW p \in Path \ {<<>>}, Parent(p) \in S PROVE p \in S
  <2>1. ReachedIn(dirs, table, Parent(p)) \in 0..Len(table)
    BY Zenon, <1>3
  <2> QED BY <2>1, ReachedDef, EnteredDef
<1> HIDE DEF S
<1>4. Path \subseteq S
  BY Zenon, <1>2, <1>3, PathInduction
<1> QED BY Zenon, <1>4 DEF S

\* The root of a table: its first mount.
IsRooted(table) == /\ table \in Seq(MountType) /\ table # <<>>
                   /\ \A m \in DOMAIN table : table[m].kind = "root" <=> m = 1
                   /\ table[1].at = <<>> /\ table[1].base = 0

\* The mounts of a table with a root.
LEMMA TableLen ==
    ASSUME NEW table, IsRooted(table)
    PROVE  Len(table) \in Nat \ {0} /\ DOMAIN table = 1..Len(table)
           /\ \A m \in 1..Len(table) : table[m] \in MountType
BY SeqEmpty, SeqIs, SeqElement, Zenon DEF IsRooted

\* A lookup ends in a mount that lies on the path, and in a mount without names at
\* its mount point.
LEMMA ReachedOnPath ==
    ASSUME NEW dirs, NEW table, IsRooted(table)
    PROVE  \A p \in Path :
             LET m == ReachedIn(dirs, table, p) IN
             m # 0 => /\ m \in 1..Len(table) /\ PathContains(table[m].at, p)
                      /\ table[m].kind \in {"dev", "bind"} => p = table[m].at
                      /\ m = 1 => p \in dirs
<1> DEFINE R(p) == ReachedIn(dirs, table, p)
           Good(p) == R(p) # 0 => /\ R(p) \in 1..Len(table)
                                  /\ PathContains(table[R(p)].at, p)
                                  /\ table[R(p)].kind \in {"dev", "bind"}
                                       => p = table[R(p)].at
                                  /\ R(p) = 1 => p \in dirs
           S == {p \in Path : Good(p)}
<1>0. /\ Len(table) \in Nat \ {0} /\ DOMAIN table = 1..Len(table)
      /\ \A m \in 1..Len(table) : table[m] \in MountType
      /\ \A m \in 1..Len(table) : table[m].kind = "root" <=> m = 1
      /\ table[1].at = <<>> /\ table[1].base = 0 /\ table \in Seq(MountType)
      /\ 1 \in 0..Len(table)
  BY TableLen DEF IsRooted
<1>1. ASSUME NEW p \in Path, NEW m \in 0..Len(table), R(p) = Entered(dirs, table, m, p),
             m # 0 => PathContains(table[m].at, p), R(p) # 0
      PROVE  p \in S
  <2>1. /\ R(p) \in 0..Len(table) /\ m # 0 /\ Holds(dirs, table, m, p)
        /\ R(p) \in {m} \cup Covering(table, m, p)
    BY <1>0, <1>1, EnteredDef
  <2>2. R(p) \in 1..Len(table)
    BY <1>0, <1>1, <2>1
  <2>3. CASE R(p) = m
    <3>1. PathContains(table[m].at, p)
      BY Zenon, <1>1, <2>1
    <3>2. table[m].kind \in {"dev", "bind"} => p = table[m].at
      BY Zenon, <2>1 DEF Holds
    <3>3. m = 1 => p \in dirs
      BY Zenon, <1>0, <2>1, <2>2, <2>3 DEF Holds
    <3> QED BY Zenon, <1>1, <2>2, <2>3, <3>1, <3>2, <3>3
  <2>4. CASE R(p) # m
    <3>1. /\ table[R(p)].at = p /\ table[R(p)].base = m
      BY Zenon, <2>1, <2>4 DEF Covering
    <3>2. R(p) # 1
      BY Zenon, <1>0, <2>1, <3>1
    <3>3. PathContains(p, p)
      BY Zenon, PrefixOrder
    <3> QED BY Zenon, <1>1, <2>2, <3>1, <3>2, <3>3
  <2> QED BY Zenon, <2>3, <2>4
<1>2. <<>> \in S
  <2>1. <<>> \in Path /\ R(<<>>) = Entered(dirs, table, 1, <<>>)
    BY Zenon, EmptyPath, ReachedDef
  <2>2. PathContains(table[1].at, <<>>)
    BY Zenon, <1>0, <2>1, PrefixOrder
  <2> QED BY Zenon, <1>0, <1>1, <2>1, <2>2
<1>3. ASSUME NEW p \in Path \ {<<>>}, Parent(p) \in S PROVE p \in S
  <2>1. R(p) = Entered(dirs, table, R(Parent(p)), p)
    BY Zenon, ReachedDef
  <2>2. Parent(p) \in Path /\ R(Parent(p)) \in 0..Len(table)
    BY Zenon, <1>0, ParentDef, ReachedType DEF IsRooted
  <2>3. R(Parent(p)) # 0 => PathContains(table[R(Parent(p))].at, p)
    <3> SUFFICES ASSUME R(Parent(p)) # 0 PROVE PathContains(table[R(Parent(p))].at, p)
      BY Zenon
    <3> HIDE DEF R
    <3>0. Good(Parent(p))
      BY <1>3, Zenon
    <3>1. R(Parent(p)) \in 1..Len(table) /\ PathContains(table[R(Parent(p))].at, Parent(p))
      BY Zenon, <3>0
    <3>2. table[R(Parent(p))].at \in Path
      BY Zenon, <1>0, <3>1 DEF MountType
    <3> QED BY Zenon, <3>1, <3>2, PrefixParent
  <2> HIDE DEF R
  <2> QED BY Zenon, <1>1, <2>1, <2>2, <2>3
<1> HIDE DEF S, R
<1>4. Path \subseteq S
  BY Zenon, <1>2, <1>3, PathInduction
<1>5. ASSUME NEW p \in Path, R(p) # 0
      PROVE  /\ R(p) \in 1..Len(table) /\ PathContains(table[R(p)].at, p)
             /\ table[R(p)].kind \in {"dev", "bind"} => p = table[R(p)].at
             /\ R(p) = 1 => p \in dirs
  <2>1. Good(p)
    BY <1>4, Zenon DEF S
  <2> QED BY Zenon, <1>5, <2>1
<1> QED BY <1>5, Zenon DEF R

\* Two tables that agree along a path agree on where its lookup ends.
LEMMA SameLookup ==
    ASSUME NEW dirs, NEW table, IsRooted(table), NEW other, NEW P \in SUBSET Path,
           \A p \in P \ {<<>>} : Parent(p) \in P,
           \A p \in P : \A m \in 1..Len(table) :
             /\ Holds(dirs, other, m, p) <=> Holds(dirs, table, m, p)
             /\ Covering(other, m, p) = Covering(table, m, p)
    PROVE  \A p \in P : ReachedIn(dirs, other, p) = ReachedIn(dirs, table, p)
<1> DEFINE R(p) == ReachedIn(dirs, table, p)
           O(p) == ReachedIn(dirs, other, p)
           Same(p) == p \in P => O(p) = R(p)
           S == {p \in Path : Same(p)}
<1>0. Len(table) \in Nat \ {0} /\ table \in Seq(MountType)
  BY Zenon, TableLen DEF IsRooted
<1>1. ASSUME NEW p \in P, NEW m \in 0..Len(table)
      PROVE  Entered(dirs, other, m, p) = Entered(dirs, table, m, p)
  <2>1. m # 0 => m \in 1..Len(table)
    BY <1>0
  <2> QED BY Zenon, <2>1 DEF Entered
<1>2. <<>> \in S
  <2> SUFFICES ASSUME <<>> \in P PROVE O(<<>>) = R(<<>>)
    BY Zenon, EmptyPath
  <2>1. /\ R(<<>>) = Entered(dirs, table, 1, <<>>)
        /\ O(<<>>) = Entered(dirs, other, 1, <<>>)
    BY Zenon, EmptyPath, ReachedDef
  <2>2. 1 \in 0..Len(table)
    BY <1>0
  <2> QED BY Zenon, <1>1, <2>1, <2>2
<1>3. ASSUME NEW p \in Path \ {<<>>}, Parent(p) \in S PROVE p \in S
  <2> SUFFICES ASSUME p \in P PROVE O(p) = R(p)
    BY Zenon
  <2>1. /\ R(p) = Entered(dirs, table, R(Parent(p)), p)
        /\ O(p) = Entered(dirs, other, O(Parent(p)), p)
    BY Zenon, ReachedDef
  <2>2. Parent(p) \in P
    BY Zenon
  <2>3. O(Parent(p)) = R(Parent(p))
    <3> HIDE DEF O, R
    <3>1. Same(Parent(p))
      BY <1>3, Zenon
    <3> QED BY Zenon, <2>2, <3>1
  <2>4. R(Parent(p)) \in 0..Len(table)
    BY Zenon, <2>2, ReachedType DEF IsRooted
  <2> QED BY Zenon, <1>1, <2>1, <2>3, <2>4
<1> HIDE DEF S, R, O
<1>4. Path \subseteq S
  BY Zenon, <1>2, <1>3, PathInduction
<1>5. ASSUME NEW p \in P PROVE O(p) = R(p)
  <2>1. Same(p)
    BY <1>4, Zenon DEF S
  <2> QED BY Zenon, <2>1
<1> QED BY Zenon, <1>5 DEF O, R

\* What Append does to a sequence of records.
LEMMA AppendMount ==
    ASSUME NEW S, NEW table \in Seq(S), NEW x \in S
    PROVE  /\ Append(table, x) \in Seq(S) /\ Append(table, x) # <<>>
           /\ DOMAIN table = 1..Len(table) /\ Len(table) \in Nat
           /\ DOMAIN Append(table, x) = 1..(Len(table) + 1)
           /\ Len(Append(table, x)) = Len(table) + 1
           /\ \A m \in 1..Len(table) : Append(table, x)[m] = table[m]
           /\ Append(table, x)[Len(table) + 1] = x
<1>1. /\ Append(table, x) \in Seq(S) /\ Append(table, x) # <<>>
      /\ Len(Append(table, x)) = Len(table) + 1
      /\ \A m \in 1..Len(table) : Append(table, x)[m] = table[m]
      /\ Append(table, x)[Len(table) + 1] = x
  BY Zenon, SeqAppend
<1>2. \A s \in Seq(S) : DOMAIN s = 1..Len(s) /\ Len(s) \in Nat
  BY Zenon, SeqIs
<1> QED BY Zenon, <1>1, <1>2

\* A mount leaves alone what is not under its mount point.
LEMMA MountElsewhere ==
    ASSUME NEW dirs, NEW table, IsRooted(table), NEW x \in MountType,
           NEW p \in Path, ~PathContains(x.at, p)
    PROVE  ReachedIn(dirs, Append(table, x), p) = ReachedIn(dirs, table, p)
<1> DEFINE P == {q \in Path : ~PathContains(x.at, q)}
           other == Append(table, x)
<1>1. \A q \in P \ {<<>>} : Parent(q) \in P
  <2> SUFFICES ASSUME NEW q \in P \ {<<>>} PROVE Parent(q) \in P
    BY Zenon
  <2>1. x.at \in Path /\ q \in Path /\ Parent(q) \in Path
    BY Zenon, ParentDef DEF MountType
  <2> QED BY Zenon, <2>1, PrefixParent
<1>2. /\ DOMAIN other = 1..(Len(table) + 1) /\ DOMAIN table = 1..Len(table)
      /\ Len(table) \in Nat
      /\ \A m \in 1..Len(table) : other[m] = table[m]
      /\ other[Len(table) + 1] = x
  BY AppendMount DEF IsRooted
<1> HIDE DEF other
<1>3. ASSUME NEW q \in P, NEW m \in 1..Len(table)
      PROVE  /\ Holds(dirs, other, m, q) <=> Holds(dirs, table, m, q)
             /\ Covering(other, m, q) = Covering(table, m, q)
  <2>1. Holds(dirs, other, m, q) <=> Holds(dirs, table, m, q)
    BY Zenon, <1>2 DEF Holds
  <2>2. x.at # q
    <3>1. q \in Path /\ ~PathContains(x.at, q)
      BY Zenon
    <3> QED BY Zenon, <3>1, PrefixOrder
  <2>3. \A i : i \in Covering(other, m, q) <=> i \in Covering(table, m, q)
    BY <1>2, <2>2 DEF Covering
  <2> QED BY Zenon, <2>1, <2>3
<1>4. p \in P /\ P \in SUBSET Path
  BY Zenon
<1> HIDE DEF P
<1> QED BY Zenon, <1>1, <1>3, <1>4, SameLookup DEF other

\* Whether a mount is read-only does not matter to a lookup.
LEMMA AccessIsNoMatter ==
    ASSUME NEW dirs, NEW table, IsRooted(table), NEW other, DOMAIN other = DOMAIN table,
           \A m \in DOMAIN table : /\ other[m].kind = table[m].kind
                                   /\ other[m].at = table[m].at
                                   /\ other[m].base = table[m].base
                                   /\ other[m].children = table[m].children,
           NEW p \in Path
    PROVE  ReachedIn(dirs, other, p) = ReachedIn(dirs, table, p)
<1>1. \A q \in Path \ {<<>>} : Parent(q) \in Path
  BY Zenon, ParentDef
<1>2. DOMAIN table = 1..Len(table)
  BY Zenon, TableLen
<1>3. ASSUME NEW q \in Path, NEW m \in 1..Len(table)
      PROVE  /\ Holds(dirs, other, m, q) <=> Holds(dirs, table, m, q)
             /\ Covering(other, m, q) = Covering(table, m, q)
  <2>1. Holds(dirs, other, m, q) <=> Holds(dirs, table, m, q)
    BY Zenon, <1>2 DEF Holds
  <2>2. \A i : i \in Covering(other, m, q) <=> i \in Covering(table, m, q)
    BY Zenon, <1>2 DEF Covering
  <2> QED BY Zenon, <2>1, <2>2
<1>4. Path \in SUBSET Path
  BY Zenon
<1> QED BY Zenon, <1>1, <1>3, <1>4, SameLookup

\* A mount that is added leaves the root of the table where it is.
LEMMA AppendRooted ==
    ASSUME NEW table, IsRooted(table), NEW x \in MountType, x.kind # "root"
    PROVE  IsRooted(Append(table, x))
<1>1. table \in Seq(MountType)
  BY Zenon DEF IsRooted
<1>2. /\ Append(table, x) \in Seq(MountType) /\ Append(table, x) # <<>>
      /\ DOMAIN table = 1..Len(table) /\ Len(table) \in Nat
      /\ DOMAIN Append(table, x) = 1..(Len(table) + 1)
      /\ \A m \in 1..Len(table) : Append(table, x)[m] = table[m]
      /\ Append(table, x)[Len(table) + 1] = x
  BY <1>1, AppendMount
<1>3. Len(table) \in Nat \ {0}
  BY Zenon, TableLen
<1>4. \A m \in 1..Len(table) : table[m].kind = "root" <=> m = 1
  BY Zenon, <1>2 DEF IsRooted
<1>5. table[1].at = <<>> /\ table[1].base = 0
  BY Zenon DEF IsRooted
<1> DEFINE other == Append(table, x)
<1>6. \A m \in 1..(Len(table) + 1) : other[m].kind = "root" <=> m = 1
  BY <1>2, <1>3, <1>4
<1>7. other[1] = table[1]
  BY <1>2, <1>3
<1> QED BY Zenon, <1>2, <1>5, <1>6, <1>7 DEF IsRooted

\* A parent contains its child and is not contained in it.
LEMMA NotInParent ==
    ASSUME NEW p \in Path, p # <<>>
    PROVE  Parent(p) \in Path /\ ~PathContains(p, Parent(p)) /\ PathContains(Parent(p), p)
<1>1. Parent(p) \in Path /\ Len(Parent(p)) = Len(p) - 1 /\ Len(p) \in Nat \ {0}
  BY Zenon, ParentDef
<1>2. ~PathContains(p, Parent(p))
  BY <1>1, PrefixDef
<1> QED BY Zenon, <1>1, <1>2, PrefixParent, PrefixOrder

\* What is mounted on a directory of the view is what its path then names.
LEMMA MountIsSeen ==
    ASSUME NEW dirs, NEW table, IsRooted(table), NEW x \in MountType,
           NEW p \in Path, p # <<>>, x.at = p, x.base = ReachedIn(dirs, table, Parent(p)),
           ReachedIn(dirs, table, p) # 0, x.kind # "root"
    PROVE  ReachedIn(dirs, Append(table, x), p) = Len(table) + 1
<1> DEFINE m == ReachedIn(dirs, table, Parent(p))
           other == Append(table, x)
<1>0. /\ table \in Seq(MountType) /\ table # <<>> /\ IsRooted(other)
      /\ other \in Seq(MountType)
  BY Zenon, AppendRooted DEF IsRooted
<1>1. /\ DOMAIN other = 1..(Len(table) + 1) /\ Len(table) \in Nat
      /\ Len(other) = Len(table) + 1
      /\ \A i \in 1..Len(table) : other[i] = table[i]
      /\ other[Len(table) + 1] = x
  BY <1>0, AppendMount
<1>2. m \in 0..Len(table) /\ Parent(p) \in Path
  BY Zenon, <1>0, NotInParent, ReachedType
<1>3. m # 0 /\ Holds(dirs, table, m, p)
  <2>1. ReachedIn(dirs, table, p) = Entered(dirs, table, m, p)
    BY Zenon, ReachedDef
  <2> QED BY <1>0, <1>2, <2>1, EnteredDef
<1>4. ReachedIn(dirs, other, Parent(p)) = m
  BY <1>2, NotInParent, MountElsewhere
<1>5. ReachedIn(dirs, other, p) = Entered(dirs, other, m, p)
  BY <1>4, ReachedDef
<1> HIDE DEF m, other
<1>6. m \in 1..Len(table) /\ m \in 0..Len(other)
  BY <1>1, <1>2, <1>3
<1>7. Holds(dirs, other, m, p)
  BY Zenon, <1>1, <1>3, <1>6 DEF Holds
<1>8. Len(table) + 1 \in Covering(other, m, p)
  BY <1>1 DEF Covering, m
<1>9. /\ Entered(dirs, other, m, p) \in 0..Len(other)
      /\ Len(table) + 1 <= Entered(dirs, other, m, p)
  BY Zenon, <1>0, <1>3, <1>6, <1>7, <1>8, EnteredDef
<1> QED BY <1>1, <1>5, <1>9 DEF other

\* There is nothing under a path that does not exist.
LEMMA NothingBelow ==
    ASSUME NEW dirs, NEW table, IsRooted(table), NEW q \in Path,
           ReachedIn(dirs, table, q) = 0
    PROVE  \A p \in Path : PathContains(q, p) => ReachedIn(dirs, table, p) = 0
<1> DEFINE Below(p) == PathContains(q, p) => ReachedIn(dirs, table, p) = 0
           S == {p \in Path : Below(p)}
<1>1. <<>> \in S
  BY Zenon, EmptyPath, PrefixOrder
<1>2. ASSUME NEW p \in Path \ {<<>>}, Parent(p) \in S PROVE p \in S
  <2> SUFFICES ASSUME PathContains(q, p), p # q PROVE ReachedIn(dirs, table, p) = 0
    BY Zenon
  <2>1. PathContains(q, Parent(p))
    BY Zenon, PrefixParent
  <2>2. Below(Parent(p))
    BY <1>2, Zenon
  <2>3. ReachedIn(dirs, table, Parent(p)) = 0
    BY Zenon, <2>1, <2>2
  <2>4. ReachedIn(dirs, table, p) = Entered(dirs, table, 0, p)
    BY Zenon, <2>3, ReachedDef
  <2> QED BY Zenon, <2>4 DEF Entered
<1> HIDE DEF S, Below
<1>3. Path \subseteq S
  BY Zenon, <1>1, <1>2, PathInduction
<1>4. \A p \in Path : Below(p)
  BY <1>3, Zenon DEF S
<1> QED BY Zenon, <1>4 DEF Below

\* A path that goes on inside of another has a next component.
LEMMA NextComponent ==
    ASSUME NEW q \in Path, NEW p \in Path, PathContains(q, p), q # p
    PROVE  \E s \in Path : s # <<>> /\ Parent(s) = q /\ PathContains(s, p)
<1>1. Len(q) \in Nat /\ Len(p) \in Nat
  BY Zenon, EmptyPath
<1>2. Len(q) <= Len(p) /\ \A i \in 1..Len(q) : q[i] = p[i]
  BY Zenon, PrefixDef
<1>3. Len(q) # Len(p)
  BY Zenon, <1>2, PathEqual
<1>4. Len(q) + 1 \in 0..Len(p)
  BY <1>1, <1>2, <1>3
<1> DEFINE s == SubSeq(p, 1, Len(q) + 1)
<1>5. /\ s \in Path /\ Len(s) = Len(q) + 1
      /\ \A i \in 1..(Len(q) + 1) : s[i] = p[i]
  BY Zenon, <1>4, SubPath
<1> HIDE DEF s
<1>6. s # <<>>
  BY <1>1, <1>5, EmptyPath
<1>7. /\ Parent(s) \in Path /\ Len(Parent(s)) = Len(s) - 1
      /\ \A i \in 1..(Len(s) - 1) : Parent(s)[i] = s[i]
  BY Zenon, <1>5, <1>6, ParentDef
<1>8. Parent(s) = q
  BY <1>1, <1>2, <1>5, <1>7, PathEqual
<1>9. PathContains(s, p)
  BY <1>1, <1>4, <1>5, PrefixDef
<1> QED BY Zenon, <1>5, <1>6, <1>8, <1>9

\* A namespace hides what was under its mount point, but for its names.
LEMMA NamespaceHides ==
    ASSUME NEW dirs, NEW table, IsRooted(table), NEW q \in Path, NEW p \in Path,
           PathContains(q, p), q # p,
           NEW m, m = ReachedIn(dirs, table, q), m # 0,
           table[m].kind = "namespace", table[m].at = q,
           \A c \in table[m].children : ~PathContains(Append(q, c), p)
    PROVE  ReachedIn(dirs, table, p) = 0
<1>1. PICK s \in Path : s # <<>> /\ Parent(s) = q /\ PathContains(s, p)
  BY Zenon, NextComponent
<1>2. ReachedIn(dirs, table, s) = Entered(dirs, table, m, s)
  BY Zenon, <1>1, ReachedDef
<1>3. s # q
  BY Zenon, <1>1, NotInParent, PrefixOrder
<1>4. ~Holds(dirs, table, m, s)
  BY Zenon, <1>1, <1>3 DEF Holds
<1>5. ReachedIn(dirs, table, s) = 0
  BY Zenon, <1>2, <1>4 DEF Entered
<1> QED BY Zenon, <1>1, <1>5, NothingBelow

\* A directory of the root view on whose path nothing is mounted is reached in it.
LEMMA RootIsSeen ==
    ASSUME NEW dirs \in SUBSET Path, NEW table, IsRooted(table),
           \A q \in dirs \ {<<>>} : Parent(q) \in dirs, NEW p \in dirs,
           \A m \in 2..Len(table) : ~PathContains(table[m].at, p)
    PROVE  ReachedIn(dirs, table, p) = 1
<1> DEFINE R(q) == ReachedIn(dirs, table, q)
           Seen(q) == PathContains(q, p) /\ q \in dirs => R(q) = 1
           S == {q \in Path : Seen(q)}
<1>0. /\ table \in Seq(MountType) /\ table[1].kind = "root" /\ table[1].base = 0
      /\ DOMAIN table = 1..Len(table) /\ Len(table) \in Nat \ {0} /\ p \in Path
  BY TableLen DEF IsRooted
<1>1. ASSUME NEW q \in Path, PathContains(q, p), q \in dirs
      PROVE  Entered(dirs, table, 1, q) = 1
  <2>1. Holds(dirs, table, 1, q)
    BY Zenon, <1>0, <1>1 DEF Holds
  <2>2. Covering(table, 1, q) = {}
    <3> SUFFICES ASSUME NEW i \in 1..Len(table), table[i].base = 1, table[i].at = q
                 PROVE  FALSE
      BY Zenon, <1>0 DEF Covering
    <3>1. i \in 2..Len(table)
      BY <1>0
    <3> QED BY Zenon, <1>1, <3>1
  <2>3. 1 \in 0..Len(table)
    BY <1>0
  <2> QED BY Zenon, <1>0, <2>1, <2>2, <2>3, EnteredDef
<1>2. <<>> \in S
  <2>1. <<>> \in Path /\ R(<<>>) = Entered(dirs, table, 1, <<>>)
    BY Zenon, EmptyPath, ReachedDef
  <2> QED BY Zenon, <1>1, <2>1
<1>3. ASSUME NEW q \in Path \ {<<>>}, Parent(q) \in S PROVE q \in S
  <2> SUFFICES ASSUME PathContains(q, p), q \in dirs PROVE R(q) = 1
    BY Zenon
  <2>1. R(q) = Entered(dirs, table, R(Parent(q)), q)
    BY Zenon, ReachedDef
  <2>2. Parent(q) \in dirs /\ Parent(q) \in Path /\ PathContains(Parent(q), p)
    <3>1. Parent(q) \in Path /\ PathContains(Parent(q), q)
      BY Zenon, NotInParent
    <3> QED BY Zenon, <1>0, <3>1, PrefixOrder
  <2>3. R(Parent(q)) = 1
    <3> HIDE DEF R
    <3>1. Seen(Parent(q))
      BY <1>3, Zenon
    <3> QED BY Zenon, <2>2, <3>1
  <2> QED BY Zenon, <1>1, <2>1, <2>3
<1> HIDE DEF S, R
<1>4. Path \subseteq S
  BY Zenon, <1>2, <1>3, PathInduction
<1>5. Seen(p)
  BY <1>0, <1>4, Zenon DEF S
<1>6. PathContains(p, p)
  BY Zenon, <1>0, PrefixOrder
<1> QED BY Zenon, <1>5, <1>6 DEF R

(***************************************************************************)
(* The admission.                                                          *)
(***************************************************************************)
\* What the assumptions say of a request.
LEMMA RequestIs ==
    ASSUME request \in Requests
    PROVE  /\ Len(request) \in Nat /\ DOMAIN request = 1..Len(request)
           /\ \A i \in 1..Len(request) :
                /\ request[i] \in Binding
                /\ request[i].at \in Path /\ request[i].access \in Accesses
                /\ request[i].host \in DOMAIN HostInode /\ request[i].host \in Path
                /\ HostInode[request[i].host] \in 1..99
<1>1. request \in Seq(Binding)
  BY Zenon, MountAssumption
<1>2. /\ Len(request) \in Nat /\ DOMAIN request = 1..Len(request)
      /\ \A i \in 1..Len(request) : request[i] \in Binding
  BY Zenon, <1>1, SeqIs, SeqElement
<1>3. \A b \in Binding : /\ b.at \in Path /\ b.access \in Accesses
                         /\ b.host \in DOMAIN HostInode
  BY Zenon DEF Binding
<1>4. \A h \in DOMAIN HostInode : h \in Path /\ HostInode[h] \in 1..99
  BY Zenon, MountAssumption
<1> QED BY Zenon, <1>2, <1>3, <1>4

\* What is left when a directory and all under it is removed is a tree.
LEMMA WithoutIsTree ==
    ASSUME IsTree(tree), NEW p \in DOMAIN tree \ {<<>>}
    PROVE  /\ Without(p) \subseteq DOMAIN tree /\ <<>> \in Without(p)
           /\ \A q \in Without(p) \ {<<>>} : Parent(q) \in Without(p)
           /\ Parent(p) \in Without(p)
<1>0. DOMAIN tree \subseteq Path /\ p \in Path /\ p # <<>>
  BY Zenon DEF IsTree
<1>1. <<>> \in Without(p)
  BY Zenon, <1>0, EmptyPath, PrefixOrder DEF IsTree, Without
<1>2. ASSUME NEW q \in Without(p) \ {<<>>} PROVE Parent(q) \in Without(p)
  <2>1. q \in DOMAIN tree /\ ~PathContains(p, q) /\ q \in Path /\ Parent(q) \in DOMAIN tree
    BY Zenon, <1>0 DEF Without, IsTree
  <2>2. ~PathContains(p, Parent(q))
    BY Zenon, <1>0, <2>1, PrefixParent
  <2> QED BY Zenon, <2>1, <2>2 DEF Without
<1>3. Parent(p) \in Without(p)
  BY Zenon, <1>0, NotInParent DEF Without, IsTree
<1> QED BY Zenon, <1>1, <1>2, <1>3 DEF Without

\* What a new directory is given is an inode number.
LEMMA UnusedIsNumber ==
    ASSUME changes \in Nat, IsTree(tree), NEW dirs
    PROVE  Unused(dirs) \subseteq Nat \ {0}
<1>1. 100 + changes \in Nat \ {0}
  OBVIOUS
<1>2. \A q \in DOMAIN tree : tree[q] \in Nat \ {0}
  BY Zenon DEF IsTree
<1> QED BY Zenon, <1>1, <1>2 DEF Unused

\* Whatever the host does to the root view, it stays a tree.
LEMMA HostKeepsTree ==
    ASSUME IsTree(tree), changes \in Nat, HostReplaces \/ HostRemoves \/ HostCreates
    PROVE  IsTree(tree')
<1>0. /\ tree \in [DOMAIN tree -> Nat \ {0}] /\ DOMAIN tree \subseteq Path
      /\ <<>> \in DOMAIN tree
      /\ \A p \in DOMAIN tree \ {<<>>} : Parent(p) \in DOMAIN tree
  BY DEF IsTree
<1>n. \A dirs : Unused(dirs) \subseteq Nat \ {0}
  BY Zenon, UnusedIsNumber
<1>1. CASE HostReplaces
  <2>1. PICK p \in DOMAIN tree \ {<<>>}, n \in Nat \ {0} :
          tree' = [q \in Without(p) \cup {p} |-> IF q = p THEN n ELSE tree[q]]
    BY Zenon, <1>1, <1>n DEF HostReplaces, HostChange
  <2>2. /\ Without(p) \subseteq DOMAIN tree /\ <<>> \in Without(p)
        /\ \A q \in Without(p) \ {<<>>} : Parent(q) \in Without(p)
        /\ Parent(p) \in Without(p)
    BY Zenon, WithoutIsTree
  <2>3. DOMAIN tree' = Without(p) \cup {p} /\ tree' \in [DOMAIN tree' -> Nat \ {0}]
    BY Zenon, <1>0, <2>1, <2>2
  <2> QED BY Zenon, <1>0, <2>2, <2>3 DEF IsTree
<1>2. CASE HostRemoves
  <2>1. PICK p \in DOMAIN tree \ {<<>>} : tree' = [q \in Without(p) |-> tree[q]]
    BY Zenon, <1>2 DEF HostRemoves, HostChange
  <2>2. /\ Without(p) \subseteq DOMAIN tree /\ <<>> \in Without(p)
        /\ \A q \in Without(p) \ {<<>>} : Parent(q) \in Without(p)
    BY Zenon, WithoutIsTree
  <2>3. DOMAIN tree' = Without(p) /\ tree' \in [DOMAIN tree' -> Nat \ {0}]
    BY Zenon, <1>0, <2>1, <2>2
  <2> QED BY Zenon, <1>0, <2>2, <2>3 DEF IsTree
<1>3. CASE HostCreates
  <2>1. PICK p \in DOMAIN tree, n \in Nat \ {0} :
          tree' = [q \in DOMAIN tree \cup {Append(p, "new")} |->
                     IF q = Append(p, "new") THEN n ELSE tree[q]]
    BY Zenon, <1>3, <1>n DEF HostCreates, HostChange
  <2> DEFINE new == Append(p, "new")
  <2>2. new \in Path /\ Parent(new) = p
    <3>1. p \in Path /\ "new" \in Names
      BY Zenon, <1>0, MountAssumption
    <3> QED BY Zenon, <3>1, AppendDef, ParentAppend
  <2> HIDE DEF new
  <2>3. tree' = [q \in DOMAIN tree \cup {new} |-> IF q = new THEN n ELSE tree[q]]
    BY Zenon, <2>1 DEF new
  <2>4. DOMAIN tree' = DOMAIN tree \cup {new} /\ tree' \in [DOMAIN tree' -> Nat \ {0}]
    BY Zenon, <1>0, <2>3
  <2> QED BY Zenon, <1>0, <2>2, <2>4 DEF IsTree
<1> QED BY Zenon, <1>1, <1>2, <1>3

\* The steps of the child, which change none of what was given or admitted.
Build == \/ SetupFails
         \/ StartChild \/ CloneRoot \/ CloneBindings
         \/ Unshare \/ MakePrivate \/ MountScratch \/ AttachRoot \/ MountDev
         \/ OverlayNamespace \/ AttachBinding \/ SealNamespace \/ EnterRoot

\* The phases from the end of the admission to the entry into the view.
BuildPhases == {"admitted", "clone_root", "clone_bindings", "unshare", "private",
                "scratch", "root", "dev", "overlay", "attach", "seal", "enter"}

\* Where a step of the child leads, and what none of them changes.
LEMMA BuildFrame ==
    ASSUME Build, next \in Nat \ {0}
    PROVE  /\ UNCHANGED <<given, tree, admitted, namespaces, changes>>
           /\ phase \in BuildPhases /\ next' \in Nat \ {0}
           /\ \/ phase' \in BuildPhases \ {"admitted"} /\ verdict' = verdict
              \/ phase' = "done" /\ verdict' \in {"failed", "ready"}
<1>1. CASE SetupFails
  <2>1. PICK at \in DOMAIN StageOf : Step(at) /\ Fail(StageOf[at])
    BY Zenon, <1>1 DEF SetupFails
  <2>2. at \in BuildPhases
    BY Zenon DEF StageOf, BuildPhases
  <2> QED BY Zenon, <2>1, <2>2 DEF Step, Fail
<1>2. CASE StartChild \/ CloneRoot \/ CloneBindings \/ Unshare \/ MakePrivate \/ MountScratch
           \/ AttachRoot
  BY <1>2 DEF StartChild, CloneRoot, CloneBindings, Unshare, MakePrivate, MountScratch,
     AttachRoot, Step, Goto, BuildPhases
<1>3. CASE MountDev \/ EnterRoot
  BY <1>3 DEF MountDev, EnterRoot, Step, Goto, Fail, BuildPhases
<1>4. CASE OverlayNamespace
  <2>1. Goto("attach") \/ Fail("input_namespace") \/ Onward(Len(namespaces), "attach")
    BY Zenon, <1>4 DEF OverlayNamespace
  <2>2. Step("overlay")
    BY Zenon, <1>4 DEF OverlayNamespace
  <2> QED BY <2>1, <2>2 DEF Step, Goto, Fail, Onward, BuildPhases
<1>5. CASE AttachBinding
  <2>1. Goto("seal") \/ Fail("resource_tree") \/ Onward(Len(admitted), "seal")
    BY Zenon, <1>5 DEF AttachBinding
  <2>2. Step("attach")
    BY Zenon, <1>5 DEF AttachBinding
  <2> QED BY <2>1, <2>2 DEF Step, Goto, Fail, Onward, BuildPhases
<1>6. CASE SealNamespace
  <2>1. Goto("enter") \/ Fail("input_namespace") \/ Onward(Len(namespaces), "enter")
    BY Zenon, <1>6 DEF SealNamespace
  <2>2. Step("seal")
    BY Zenon, <1>6 DEF SealNamespace
  <2> QED BY <2>1, <2>2 DEF Step, Goto, Fail, Onward, BuildPhases
<1> QED BY Zenon, <1>1, <1>2, <1>3, <1>4, <1>5, <1>6 DEF Build

\* The list of namespaces once a parent is entered into it.
LEMMA EnterNamespaceIs ==
    ASSUME namespaces \in Seq(NamespaceType), NEW b, b.at \in Path, b.at # <<>>,
           IsTree(tree), Parent(b.at) \in DOMAIN tree,
           \A i, j \in DOMAIN namespaces : i # j => namespaces[i].at # namespaces[j].at
    PROVE  LET parent == Parent(b.at)
               ns == EnterNamespace(b)
           IN /\ ns \in Seq(NamespaceType)
              /\ DOMAIN namespaces \subseteq DOMAIN ns
              /\ \A i, j \in DOMAIN ns : i # j => ns[i].at # ns[j].at
              /\ \A i \in DOMAIN namespaces :
                   /\ ns[i].at = namespaces[i].at /\ ns[i].target = namespaces[i].target
                   /\ ns[i].children = IF namespaces[i].at = parent
                                         THEN namespaces[i].children \cup {FileName(b.at)}
                                         ELSE namespaces[i].children
              /\ \E i \in DOMAIN ns : ns[i].at = parent
              /\ \A i \in DOMAIN ns \ DOMAIN namespaces :
                   /\ ns[i].at = parent /\ ns[i].target = tree[parent]
                   /\ ns[i].children = {FileName(b.at)}
<1> DEFINE parent == Parent(b.at)
           found == {i \in DOMAIN namespaces : namespaces[i].at = parent}
           ns == EnterNamespace(b)
           new == [at |-> parent, target |-> tree[parent], children |-> {FileName(b.at)}]
<1>0. /\ parent \in Path /\ FileName(b.at) \in Names /\ tree[parent] \in Nat \ {0}
      /\ DOMAIN namespaces = 1..Len(namespaces) /\ Len(namespaces) \in Nat
      /\ \A i \in 1..Len(namespaces) : namespaces[i] \in NamespaceType
  BY Zenon, ParentDef, SeqIs, SeqElement DEF IsTree
<1>1. CASE found = {}
  <2>1. ns = Append(namespaces, new)
    BY Zenon, <1>1 DEF EnterNamespace
  <2>2. new \in NamespaceType
    BY Zenon, <1>0 DEF NamespaceType
  <2>3. new.at = parent /\ new.target = tree[parent] /\ new.children = {FileName(b.at)}
    BY Zenon
  <2> HIDE DEF new, ns, parent
  <2>4. /\ ns \in Seq(NamespaceType)
        /\ DOMAIN ns = 1..(Len(namespaces) + 1)
        /\ \A m \in 1..Len(namespaces) : ns[m] = namespaces[m]
        /\ ns[Len(namespaces) + 1] = new
    BY <2>1, <2>2, AppendMount
  <2>5. \A i \in 1..Len(namespaces) : namespaces[i].at # parent
    BY Zenon, <1>0, <1>1
  <2>6. Len(namespaces) + 1 \in DOMAIN ns /\ DOMAIN namespaces \subseteq DOMAIN ns
    BY <1>0, <2>4
  <2>7. \A i \in DOMAIN ns \ DOMAIN namespaces : i = Len(namespaces) + 1
    BY <1>0, <2>4
  <2>8. \A i, j \in DOMAIN ns : i # j => ns[i].at # ns[j].at
    BY <1>0, <2>3, <2>4, <2>5
  <2>9. /\ \A i \in DOMAIN namespaces :
             /\ ns[i].at = namespaces[i].at /\ ns[i].target = namespaces[i].target
             /\ ns[i].children = IF namespaces[i].at = parent
                                   THEN namespaces[i].children \cup {FileName(b.at)}
                                   ELSE namespaces[i].children
    BY Zenon, <1>0, <2>4, <2>5
  <2>10. \A i \in DOMAIN ns \ DOMAIN namespaces :
             /\ ns[i].at = parent /\ ns[i].target = tree[parent]
             /\ ns[i].children = {FileName(b.at)}
    BY Zenon, <2>3, <2>4, <2>7
  <2>11. \E i \in DOMAIN ns : ns[i].at = parent
    BY Zenon, <2>3, <2>4, <2>6
  <2> QED BY <2>4, <2>6, <2>8, <2>9, <2>10, <2>11, Zenon DEF ns, parent
<1>2. CASE found # {}
  <2>1. ns = [i \in DOMAIN namespaces |->
                 IF i \in found
                   THEN [namespaces[i] EXCEPT !.children = @ \cup {FileName(b.at)}]
                   ELSE namespaces[i]]
    BY <1>2, Zenon DEF EnterNamespace
  <2> HIDE DEF ns, parent
  <2>2. DOMAIN ns = DOMAIN namespaces
    BY Zenon, <2>1
  <2>3. ASSUME NEW i \in DOMAIN namespaces
        PROVE  /\ ns[i] \in NamespaceType
               /\ ns[i].at = namespaces[i].at /\ ns[i].target = namespaces[i].target
               /\ ns[i].children = IF namespaces[i].at = parent
                                   THEN namespaces[i].children \cup {FileName(b.at)}
                                   ELSE namespaces[i].children
    <3>1. namespaces[i] \in NamespaceType
      BY Zenon, <1>0
    <3>2. CASE i \in found
      BY Zenon, <1>0, <2>1, <3>1, <3>2 DEF NamespaceType
    <3>3. CASE i \notin found
      BY Zenon, <1>0, <2>1, <3>1, <3>3 DEF NamespaceType
    <3> QED BY Zenon, <3>2, <3>3
  <2>4. ns \in Seq(NamespaceType)
    <3>1. ns \in [1..Len(namespaces) -> NamespaceType]
      BY Zenon, <1>0, <2>1, <2>2, <2>3
    <3> QED BY Zenon, <1>0, <3>1, SeqOf
  <2>5. \A i, j \in DOMAIN ns : i # j => ns[i].at # ns[j].at
    BY ZenonT(60), <2>2, <2>3
  <2>6. \E i \in DOMAIN ns : ns[i].at = parent
    BY ZenonT(60), <1>2, <2>2, <2>3
  <2> QED BY <2>2, <2>3, <2>4, <2>5, <2>6, Zenon DEF ns, parent
<1> QED BY Zenon, <1>1, <1>2

\* What is known of the admission.
AdmitInv == StateInv /\ AdmissionInv /\ NamespaceInv /\ QuietInv

\* A binding that the loop turns away makes the whole request inadmissible.
LEMMA RefusedForCause ==
    ASSUME AdmitInv, phase = "admission", next <= Len(request), changes = 0, Admissible
    PROVE  /\ Acceptable(request[next], {request[i] : i \in 1..(next - 1)})
           /\ request[next].role \in InputRoles => SameNamespace(request[next])
<1> DEFINE b == request[next]
<1>0. /\ next \in 1..Len(request) /\ Len(request) \in Nat
      /\ DOMAIN request = 1..Len(request)
      /\ \A i \in 1..Len(request) : request[i].at \in Path
  BY RequestIs DEF AdmitInv, StateInv
<1>1. b \in Requested
  BY Zenon, <1>0 DEF Requested
<1> HIDE DEF b
<1>2. /\ RoleAccess(b) /\ Destination(b) /\ b.at # <<>> /\ b.at[1] # "dev"
      /\ ~Overlap(root_path, b.host)
  BY Zenon, <1>1 DEF Admissible
<1>3. ~PathContains(Dev, b.at)
  BY Zenon, <1>0, <1>2, DevPath DEF b
<1>4. \A i, j \in 1..Len(request) :
         i # j => /\ ~PathContains(request[i].at, request[j].at)
                  /\ ~PathContains(request[i].host, request[j].host)
                  /\ HostInode[request[i].host] # HostInode[request[j].host]
  BY Zenon, <1>0 DEF Admissible
<1>5. Separate(b, {request[i] : i \in 1..(next - 1)})
  <2> SUFFICES ASSUME NEW i \in 1..(next - 1)
               PROVE  /\ ~Overlap(request[i].at, b.at)
                      /\ ~Overlap(request[i].host, b.host)
                      /\ HostInode[request[i].host] # HostInode[b.host]
    BY Zenon DEF Separate
  <2>1. i \in 1..Len(request) /\ i # next
    BY <1>0
  <2> QED BY Zenon, <1>0, <1>4, <2>1 DEF Overlap, b
<1>6. SameNamespace(b)
  BY Zenon DEF SameNamespace, AdmitInv, QuietInv
<1> QED BY Zenon, <1>2, <1>3, <1>5, <1>6 DEF Acceptable, b

\* An accepted binding.
LEMMA AcceptedIs ==
    ASSUME AdmitInv, AdmitBinding,
           Acceptable(request[next], {request[i] : i \in 1..(next - 1)}),
           request[next].role \in InputRoles => SameNamespace(request[next])
    PROVE  LET b == request[next]
               n == Len(admitted)
           IN /\ phase = "admission" /\ next = n + 1 /\ n + 1 \in 1..Len(request)
              /\ n \in Nat /\ DOMAIN admitted = 1..n /\ DOMAIN admitted' = 1..(n + 1)
              /\ next' = next + 1 /\ Len(admitted') = n + 1
              /\ UNCHANGED <<given, tree, phase, verdict, stage, mounts, changes, faulted>>
              /\ admitted' \in Seq(AdmittedType)
              /\ \A i \in 1..n : admitted'[i] = admitted[i]
              /\ admitted'[n + 1] \in AdmittedType
              /\ admitted'[n + 1].at = b.at /\ admitted'[n + 1].access = b.access
              /\ admitted'[n + 1].source = HostInode[b.host]
              /\ admitted'[n + 1].synthetic = (b.role \in InputRoles)
              /\ admitted'[n + 1].target = IF b.role \in InputRoles THEN 0 ELSE tree[b.at]
              /\ namespaces' = IF b.role \in InputRoles THEN EnterNamespace(b)
                                                        ELSE namespaces
<1> DEFINE b == request[next]
           n == Len(admitted)
           input == b.role \in InputRoles
           rec == [source |-> HostInode[b.host], access |-> b.access,
                   at |-> b.at, synthetic |-> input,
                   target |-> IF input THEN 0 ELSE tree[b.at]]
<1>0. /\ phase = "admission" /\ next <= Len(request) /\ next = n + 1 /\ n \in Nat
      /\ DOMAIN admitted = 1..n /\ admitted \in Seq(AdmittedType)
  BY Zenon, SeqIs DEF AdmitInv, StateInv, AdmissionInv, AdmitBinding
<1>1. next \in 1..Len(request) /\ Len(request) \in Nat
  <2>1. request \in Requests /\ next \in Nat \ {0}
    BY Zenon DEF AdmitInv, StateInv
  <2>2. Len(request) \in Nat
    BY Zenon, <2>1, RequestIs
  <2> QED BY <1>0, <2>1, <2>2
<1>2. /\ admitted' = Append(admitted, rec)
      /\ namespaces' = IF input THEN EnterNamespace(b) ELSE namespaces
      /\ next' = next + 1
      /\ UNCHANGED <<given, tree, phase, verdict, stage, mounts, changes, faulted>>
  <2>1. /\ IF Acceptable(b, {request[i] : i \in 1..(next - 1)}) /\ (input => SameNamespace(b))
            THEN /\ admitted' = Append(admitted, rec)
                 /\ namespaces' = IF input THEN EnterNamespace(b) ELSE namespaces
                 /\ next' = next + 1
                 /\ UNCHANGED <<phase, verdict>>
            ELSE /\ phase' = "done" /\ verdict' = "rejected"
                 /\ UNCHANGED <<admitted, namespaces, next>>
        /\ UNCHANGED <<given, tree, stage, mounts, changes, faulted>>
    BY Zenon DEF AdmitBinding
  <2> QED BY <2>1, Zenon
<1>3. /\ b.at \in Path /\ b.access \in Accesses /\ HostInode[b.host] \in 1..99
  BY Zenon, <1>1, RequestIs DEF AdmitInv, StateInv
<1>4. ~input => tree[b.at] \in Nat \ {0}
  BY Zenon DEF Acceptable, Destination, AdmitInv, StateInv, IsTree
<1>5. /\ rec.at = b.at /\ rec.access = b.access /\ rec.source = HostInode[b.host]
      /\ rec.synthetic = input /\ rec.target = IF input THEN 0 ELSE tree[b.at]
  BY Zenon
<1>6. rec \in AdmittedType
  <2>1. input \in BOOLEAN
    OBVIOUS
  <2>2. (IF input THEN 0 ELSE tree[b.at]) \in Nat
    BY Zenon, <1>4
  <2> QED BY <1>3, <2>1, <2>2, Zenon DEF AdmittedType
<1> HIDE DEF rec
<1>7. /\ Append(admitted, rec) \in Seq(AdmittedType)
      /\ DOMAIN Append(admitted, rec) = 1..(Len(admitted) + 1)
      /\ Len(Append(admitted, rec)) = Len(admitted) + 1
      /\ \A m \in 1..Len(admitted) : Append(admitted, rec)[m] = admitted[m]
      /\ Append(admitted, rec)[Len(admitted) + 1] = rec
  BY <1>0, <1>6, AppendMount
<1>8. /\ admitted' \in Seq(AdmittedType) /\ DOMAIN admitted' = 1..(n + 1)
      /\ Len(admitted') = n + 1
      /\ \A i \in 1..n : admitted'[i] = admitted[i]
      /\ admitted'[n + 1] = rec
  BY <1>2, <1>7, Zenon
<1>9. n + 1 \in 1..Len(request)
  BY Zenon, <1>0, <1>1
<1> QED BY <1>0, <1>2, <1>5, <1>6, <1>8, <1>9, Zenon

\* The questions of the admission are about the request and the root view.
LEMMA AdmissibleFrame ==
    ASSUME UNCHANGED <<request, root_path, tree>>
    PROVE  /\ Admissible' <=> Admissible
           /\ \A p : DirectoryIsEmpty(p)' <=> DirectoryIsEmpty(p)
           /\ \A b : Destination(b)' <=> Destination(b)
<1>1. \A p : DirectoryIsEmpty(p)' <=> DirectoryIsEmpty(p)
  BY Zenon DEF DirectoryIsEmpty
<1>2. \A b : Destination(b)' <=> Destination(b)
  BY Zenon, <1>1 DEF Destination
<1>3. Requested' = Requested
  BY Zenon DEF Requested
<1>4. Admissible' <=> Admissible
  BY <1>2, <1>3, ZenonT(40) DEF Admissible
<1> QED BY Zenon, <1>1, <1>2, <1>4

\* What the admission loop knows is about the request and what was admitted.
LEMMA AdmitFrame ==
    ASSUME AdmissionInv, NamespaceInv, UNCHANGED <<given, admitted, namespaces>>,
           phase' \notin {"start", "admission"},
           phase' = "admitted" => root_path # <<>>
    PROVE  AdmissionInv' /\ NamespaceInv'
<1>1. AdmissionInv'
  BY DEF AdmissionInv, given, RoleAccess, Overlap
<1>2. NamespaceInv'
  BY DEF NamespaceInv
<1> QED BY Zenon, <1>1, <1>2

\* A turn of the admission loop: a binding that is turned away was to be, and one
\* that is admitted is entered with what was asked of it.
LEMMA AdmitBindingStep ==
    ASSUME AdmitInv, AdmitBinding
    PROVE  AdmitInv'
<1> DEFINE b == request[next]
           n == Len(admitted)
           earlier == {request[i] : i \in 1..(next - 1)}
           accepted == Acceptable(b, earlier) /\ (b.role \in InputRoles => SameNamespace(b))
<1> USE DEF AdmitInv
<1>1. CASE ~accepted
  <2>1. /\ phase' = "done" /\ verdict' = "rejected" /\ phase = "admission"
        /\ next <= Len(request)
        /\ UNCHANGED <<admitted, namespaces, next, given, tree, stage, mounts, changes, faulted>>
    BY <1>1, Zenon DEF AdmitBinding
  <2>2. StateInv'
    BY Zenon, <2>1 DEF StateInv, Rooted, Bare, given
  <2>3. AdmissionInv' /\ NamespaceInv'
    BY Zenon, <2>1, AdmitFrame
  <2>4. QuietInv'
    <3>1. changes = 0 => ~Admissible
      BY Zenon, <1>1, <2>1, RefusedForCause
    <3>2. /\ Admissible' <=> Admissible
          /\ \A p : DirectoryIsEmpty(p)' <=> DirectoryIsEmpty(p)
          /\ \A c : Destination(c)' <=> Destination(c)
      BY Zenon, <2>1, AdmissibleFrame DEF given
    <3> QED BY Zenon, <2>1, <3>1, <3>2 DEF QuietInv, given
  <2> QED BY Zenon, <2>2, <2>3, <2>4
<1>2. CASE accepted
  <2>0. /\ Acceptable(b, earlier) /\ (b.role \in InputRoles => SameNamespace(b))
    BY Zenon, <1>2
  <2>1. /\ phase = "admission" /\ next = n + 1 /\ n + 1 \in 1..Len(request)
        /\ n \in Nat /\ DOMAIN admitted = 1..n /\ DOMAIN admitted' = 1..(n + 1)
        /\ next' = next + 1 /\ Len(admitted') = n + 1
        /\ UNCHANGED <<given, tree, phase, verdict, stage, mounts, changes, faulted>>
        /\ admitted' \in Seq(AdmittedType)
        /\ \A i \in 1..n : admitted'[i] = admitted[i]
    BY <2>0, AcceptedIs, Zenon
  <2>2. /\ admitted'[n + 1] \in AdmittedType
        /\ admitted'[n + 1].at = b.at /\ admitted'[n + 1].access = b.access
        /\ admitted'[n + 1].source = HostInode[b.host]
        /\ admitted'[n + 1].synthetic = (b.role \in InputRoles)
        /\ admitted'[n + 1].target = IF b.role \in InputRoles THEN 0 ELSE tree[b.at]
        /\ namespaces' = IF b.role \in InputRoles THEN EnterNamespace(b) ELSE namespaces
    BY <2>0, AcceptedIs, Zenon
  <2> DEFINE a == admitted'[n + 1]
             ns == namespaces'
  <2>3. /\ b.at \in Path /\ Len(request) \in Nat /\ IsTree(tree)
        /\ \A i \in 1..Len(request) : request[i].at \in Path
        /\ namespaces \in Seq(NamespaceType)
    BY Zenon, <2>1, RequestIs DEF StateInv
  <2>4. /\ RoleAccess(b) /\ b.at # <<>> /\ ~PathContains(Dev, b.at)
        /\ ~Overlap(root_path, b.host) /\ Separate(b, earlier) /\ Destination(b)
    BY Zenon, <2>0 DEF Acceptable
  <2>5. b.role \in InputRoles =>
          /\ Len(b.at) > 1 /\ Parent(b.at) \in DOMAIN tree /\ DirectoryIsEmpty(Parent(b.at))
    BY Zenon, <2>4 DEF Destination
  <2>6. b.role \notin InputRoles => b.at \in DOMAIN tree /\ tree[b.at] # 0
    BY Zenon, <2>3, <2>4 DEF Destination, IsTree
  <2>7. ASSUME b.role \in InputRoles
        PROVE  /\ ns \in Seq(NamespaceType)
               /\ DOMAIN namespaces \subseteq DOMAIN ns
               /\ \A i, j \in DOMAIN ns : i # j => ns[i].at # ns[j].at
               /\ \A i \in DOMAIN namespaces :
                    /\ ns[i].at = namespaces[i].at /\ ns[i].target = namespaces[i].target
                    /\ ns[i].children = IF namespaces[i].at = Parent(b.at)
                                          THEN namespaces[i].children \cup {FileName(b.at)}
                                          ELSE namespaces[i].children
               /\ \E i \in DOMAIN ns : ns[i].at = Parent(b.at)
               /\ \A i \in DOMAIN ns \ DOMAIN namespaces :
                    /\ ns[i].at = Parent(b.at) /\ ns[i].target = tree[Parent(b.at)]
                    /\ ns[i].children = {FileName(b.at)}
    <3>1. ns = EnterNamespace(b)
      BY Zenon, <2>2, <2>7
    <3>2. \A i, j \in DOMAIN namespaces : i # j => namespaces[i].at # namespaces[j].at
      BY Zenon DEF NamespaceInv
    <3>3. /\ b.at \in Path /\ b.at # <<>> /\ IsTree(tree) /\ Parent(b.at) \in DOMAIN tree
          /\ namespaces \in Seq(NamespaceType)
      BY Zenon, <2>3, <2>4, <2>5, <2>7
    <3> HIDE DEF b
    <3>4. LET e == EnterNamespace(b)
          IN /\ e \in Seq(NamespaceType)
             /\ DOMAIN namespaces \subseteq DOMAIN e
             /\ \A i, j \in DOMAIN e : i # j => e[i].at # e[j].at
             /\ \A i \in DOMAIN namespaces :
                  /\ e[i].at = namespaces[i].at /\ e[i].target = namespaces[i].target
                  /\ e[i].children = IF namespaces[i].at = Parent(b.at)
                                        THEN namespaces[i].children \cup {FileName(b.at)}
                                        ELSE namespaces[i].children
             /\ \E i \in DOMAIN e : e[i].at = Parent(b.at)
             /\ \A i \in DOMAIN e \ DOMAIN namespaces :
                  /\ e[i].at = Parent(b.at) /\ e[i].target = tree[Parent(b.at)]
                  /\ e[i].children = {FileName(b.at)}
      BY Zenon, <3>2, <3>3, EnterNamespaceIs
    <3> QED BY Zenon, <3>1, <3>4
  <2>8. StateInv'
    <3>1. namespaces' \in Seq(NamespaceType)
      BY Zenon, <2>2, <2>3, <2>7
    <3>2. next' \in Nat \ {0}
      BY <2>1
    <3>3. ~Rooted'
      BY Zenon, <2>1 DEF StateInv, Rooted
    <3>4. Len(admitted') <= Len(request')
      BY <2>1, <2>3 DEF given
    <3> QED BY Zenon, <2>1, <3>1, <3>2, <3>3, <3>4 DEF StateInv, Bare, given
  <2>9. AdmissionInv'
    <3> HIDE DEF b, earlier, accepted
    <3>1. ASSUME NEW i \in 1..(n + 1)
          PROVE  LET c == request[i] IN
                 /\ admitted'[i].at = c.at /\ admitted'[i].access = c.access
                 /\ admitted'[i].source = HostInode[c.host]
                 /\ admitted'[i].synthetic = (c.role \in InputRoles)
                 /\ RoleAccess(c) /\ c.at # <<>> /\ ~PathContains(Dev, c.at)
                 /\ ~Overlap(root_path, c.host)
                 /\ IF admitted'[i].synthetic THEN Len(admitted'[i].at) > 1
                                              ELSE admitted'[i].target # 0
      <4>1. CASE i \in 1..n
        BY <2>1, <4>1 DEF AdmissionInv
      <4>2. CASE i = n + 1
        <5>1. request[i] = b
          BY Zenon, <2>1, <4>2 DEF b
        <5>2. IF a.synthetic THEN Len(a.at) > 1 ELSE a.target # 0
          BY Zenon, <2>2, <2>5, <2>6
        <5> QED BY <2>2, <2>4, <4>2, <5>1, <5>2, Zenon
      <4> QED BY <2>1, <4>1, <4>2
    <3>2. ASSUME NEW i \in 1..(n + 1), NEW j \in 1..(n + 1), i # j
          PROVE  /\ ~PathContains(request[i].at, request[j].at)
                 /\ ~PathContains(request[i].host, request[j].host)
                 /\ HostInode[request[i].host] # HostInode[request[j].host]
      <4>1. CASE i \in 1..n /\ j \in 1..n
        BY Zenon, <2>1, <3>2, <4>1 DEF AdmissionInv
      <4>2. \A k \in 1..n : /\ ~Overlap(request[k].at, b.at)
                            /\ ~Overlap(request[k].host, b.host)
                            /\ HostInode[request[k].host] # HostInode[b.host]
        BY <2>1, <2>4 DEF Separate, earlier
      <4>3. request[n + 1] = b
        BY Zenon, <2>1 DEF b
      <4>4. (i \in 1..n /\ j = n + 1) \/ (j \in 1..n /\ i = n + 1) \/ (i \in 1..n /\ j \in 1..n)
        BY <2>1, <3>2
      <4> QED BY Zenon, <4>1, <4>2, <4>3, <4>4 DEF Overlap
    <3>3. /\ phase' = "admission" /\ root_path' = root_path /\ request' = request
          /\ next' = Len(admitted') + 1 /\ root_path # <<>>
      BY Zenon, <2>1 DEF given, AdmissionInv
    <3>4. \A c : RoleAccess(c)' <=> RoleAccess(c)
      BY Zenon DEF RoleAccess
    <3> HIDE DEF a, n
    <3> QED BY <2>1, <3>1, <3>2, <3>3, ZenonT(40) DEF AdmissionInv
  <2>10. NamespaceInv'
    <3>0. /\ \A i, j \in DOMAIN namespaces : i # j => namespaces[i].at # namespaces[j].at
          /\ \A i \in 1..n :
               admitted[i].synthetic =>
                 \E j \in DOMAIN namespaces :
                    /\ namespaces[j].at = Parent(admitted[i].at)
                    /\ FileName(admitted[i].at) \in namespaces[j].children
          /\ \A j \in DOMAIN namespaces :
               /\ namespaces[j].children # {}
               /\ \A c \in namespaces[j].children :
                    \E i \in 1..n : /\ admitted[i].synthetic
                                    /\ admitted[i].at = Append(namespaces[j].at, c)
      BY ZenonT(60), <2>1 DEF NamespaceInv
    <3>1. \A i \in 1..n : i \in 1..(n + 1) /\ admitted'[i] = admitted[i]
      BY <2>1
    <3>2. n + 1 \in 1..(n + 1) /\ \A i \in 1..(n + 1) : i \in 1..n \/ i = n + 1
      BY <2>1
    <3> HIDE DEF b, earlier, accepted, n
    <3>3. CASE b.role \notin InputRoles
      <4>1. namespaces' = namespaces /\ ~admitted'[n + 1].synthetic
        BY Zenon, <2>2, <3>3
      <4>2. \A i \in 1..(n + 1) :
               admitted'[i].synthetic =>
                 \E j \in DOMAIN namespaces :
                    /\ namespaces[j].at = Parent(admitted'[i].at)
                    /\ FileName(admitted'[i].at) \in namespaces[j].children
        BY Zenon, <3>0, <3>1, <3>2, <4>1
      <4>3. \A j \in DOMAIN namespaces : \A c \in namespaces[j].children :
              \E i \in 1..(n + 1) : /\ admitted'[i].synthetic
                                    /\ admitted'[i].at = Append(namespaces[j].at, c)
        BY <3>0, <3>1
      <4>5. /\ \A i, j \in DOMAIN namespaces' : i # j => namespaces[i].at' # namespaces[j].at'
            /\ \A j \in DOMAIN namespaces' : namespaces[j].children' # {}
        BY Zenon, <3>0, <4>1
      <4>6. \A i \in DOMAIN admitted' :
               admitted'[i].synthetic =>
                 \E j \in DOMAIN namespaces' :
                    /\ namespaces'[j].at = Parent(admitted'[i].at)
                    /\ FileName(admitted'[i].at) \in namespaces'[j].children
        BY Zenon, <2>1, <4>1, <4>2
      <4>7. \A j \in DOMAIN namespaces' : \A c \in namespaces'[j].children :
              \E i \in DOMAIN admitted' : /\ admitted'[i].synthetic
                                         /\ admitted'[i].at = Append(namespaces'[j].at, c)
        BY <2>1, <4>1, <4>3
      <4> QED BY <4>5, <4>6, <4>7, Zenon DEF NamespaceInv
    <3>4. CASE b.role \in InputRoles
      <4>0. /\ DOMAIN namespaces \subseteq DOMAIN ns
            /\ \A i, j \in DOMAIN ns : i # j => ns[i].at # ns[j].at
            /\ \A i \in DOMAIN namespaces :
                 /\ ns[i].at = namespaces[i].at
                 /\ ns[i].children = IF namespaces[i].at = Parent(b.at)
                                       THEN namespaces[i].children \cup {FileName(b.at)}
                                       ELSE namespaces[i].children
            /\ \E i \in DOMAIN ns : ns[i].at = Parent(b.at)
            /\ \A i \in DOMAIN ns \ DOMAIN namespaces :
                 ns[i].at = Parent(b.at) /\ ns[i].children = {FileName(b.at)}
        BY Zenon, <2>7, <3>4
      <4>1. a.synthetic /\ a.at = b.at /\ Append(Parent(b.at), FileName(b.at)) = b.at
        BY Zenon, <2>2, <2>3, <2>4, <3>4, AppendParent
      <4> HIDE DEF ns, a
      <4>2. \A i \in DOMAIN ns : ns[i].at = Parent(b.at) => FileName(b.at) \in ns[i].children
        BY ZenonT(60), <4>0
      <4>3. \A i \in 1..(n + 1) :
               admitted'[i].synthetic =>
                 \E j \in DOMAIN ns : /\ ns[j].at = Parent(admitted'[i].at)
                                      /\ FileName(admitted'[i].at) \in ns[j].children
        <5> SUFFICES ASSUME NEW i \in 1..(n + 1), admitted'[i].synthetic
                     PROVE  \E j \in DOMAIN ns : /\ ns[j].at = Parent(admitted'[i].at)
                                                 /\ FileName(admitted'[i].at) \in ns[j].children
          BY Zenon
        <5>1. CASE i \in 1..n
          <6>1. admitted'[i] = admitted[i]
            BY Zenon, <3>1, <5>1
          <6>2. PICK j \in DOMAIN namespaces :
                    /\ namespaces[j].at = Parent(admitted[i].at)
                    /\ FileName(admitted[i].at) \in namespaces[j].children
            BY Zenon, <3>0, <5>1, <6>1
          <6>3. /\ j \in DOMAIN ns /\ ns[j].at = namespaces[j].at
                /\ namespaces[j].children \subseteq ns[j].children
            BY Zenon, <4>0
          <6> QED BY Zenon, <6>1, <6>2, <6>3
        <5>2. CASE i = n + 1
          BY Zenon, <4>0, <4>1, <4>2, <5>2 DEF a
        <5> QED BY Zenon, <3>2, <5>1, <5>2
      <4>4. \A j \in DOMAIN ns :
              /\ ns[j].children # {}
              /\ \A c \in ns[j].children :
                   \E i \in 1..(n + 1) : /\ admitted'[i].synthetic
                                         /\ admitted'[i].at = Append(ns[j].at, c)
        <5> SUFFICES ASSUME NEW j \in DOMAIN ns
                     PROVE  /\ ns[j].children # {}
                            /\ \A c \in ns[j].children :
                                 \E i \in 1..(n + 1) : /\ admitted'[i].synthetic
                                                       /\ admitted'[i].at = Append(ns[j].at, c)
          BY Zenon
        <5>1. ns[j].at = Parent(b.at) =>
                \E i \in 1..(n + 1) : /\ admitted'[i].synthetic
                                      /\ admitted'[i].at = Append(ns[j].at, FileName(b.at))
          BY Zenon, <3>2, <4>1 DEF a
        <5>2. CASE j \in DOMAIN namespaces
          <6>1. \A c \in namespaces[j].children :
                  \E i \in 1..(n + 1) : /\ admitted'[i].synthetic
                                        /\ admitted'[i].at = Append(ns[j].at, c)
            <7> TAKE c \in namespaces[j].children
            <7>1. PICK i \in 1..n : /\ admitted[i].synthetic
                                    /\ admitted[i].at = Append(namespaces[j].at, c)
              BY Zenon, <3>0, <5>2
            <7>2. i \in 1..(n + 1) /\ admitted'[i] = admitted[i]
              BY Zenon, <3>1
            <7>3. ns[j].at = namespaces[j].at
              BY Zenon, <4>0, <5>2
            <7> QED BY Zenon, <7>1, <7>2, <7>3
          <6>2. namespaces[j].children # {} /\ namespaces[j].children \subseteq ns[j].children
            BY Zenon, <3>0, <4>0, <5>2
          <6>3. \A c \in ns[j].children : \/ c \in namespaces[j].children
                                          \/ c = FileName(b.at) /\ ns[j].at = Parent(b.at)
            BY ZenonT(60), <4>0, <5>2
          <6> QED BY Zenon, <5>1, <6>1, <6>2, <6>3
        <5>3. CASE j \notin DOMAIN namespaces
          <6>1. ns[j].at = Parent(b.at) /\ ns[j].children = {FileName(b.at)}
            BY Zenon, <4>0, <5>3
          <6>2. PICK i \in 1..(n + 1) : /\ admitted'[i].synthetic
                                        /\ admitted'[i].at = Append(ns[j].at, FileName(b.at))
            BY Zenon, <5>1, <6>1
          <6>3. FileName(b.at) \in ns[j].children /\ \A c \in ns[j].children : c = FileName(b.at)
            BY Zenon, <6>1
          <6> QED BY Zenon, <6>2, <6>3
        <5> QED BY Zenon, <5>2, <5>3
      <4>5. /\ \A i, j \in DOMAIN namespaces' : i # j => namespaces[i].at' # namespaces[j].at'
            /\ \A j \in DOMAIN namespaces' : namespaces[j].children' # {}
        BY Zenon, <4>0, <4>4 DEF ns
      <4>6. \A i \in DOMAIN admitted' :
               admitted'[i].synthetic =>
                 \E j \in DOMAIN namespaces' :
                    /\ namespaces'[j].at = Parent(admitted'[i].at)
                    /\ FileName(admitted'[i].at) \in namespaces'[j].children
        BY Zenon, <2>1, <4>3 DEF ns
      <4>7. \A j \in DOMAIN namespaces' : \A c \in namespaces'[j].children :
              \E i \in DOMAIN admitted' : /\ admitted'[i].synthetic
                                         /\ admitted'[i].at = Append(namespaces'[j].at, c)
        BY Zenon, <2>1, <4>4 DEF ns
      <4> QED BY <4>5, <4>6, <4>7, Zenon DEF NamespaceInv
    <3> QED BY Zenon, <3>3, <3>4
  <2>11. QuietInv'
    <3> SUFFICES ASSUME changes = 0 PROVE QuietInv'
      BY Zenon, <2>1 DEF QuietInv
    <3>0. /\ \A p : DirectoryIsEmpty(p)' <=> DirectoryIsEmpty(p)
          /\ \A c : Destination(c)' <=> Destination(c)
          /\ UNCHANGED <<request, tree>> /\ verdict' = "none"
      BY Zenon, <2>1, AdmissibleFrame DEF given, StateInv
    <3>1. \A i \in 1..(n + 1) : i \in 1..n \/ i = n + 1
      BY <2>1
    <3> HIDE DEF b, earlier, accepted, n
    <3>2. ASSUME NEW i \in 1..(n + 1)
          PROVE  /\ Destination(request[i])
                 /\ ~admitted'[i].synthetic => admitted'[i].target = tree[admitted'[i].at]
      <4>1. CASE i \in 1..n
        BY Zenon, <2>1, <4>1 DEF QuietInv
      <4>2. CASE i = n + 1
        <5>1. request[i] = b
          BY Zenon, <2>1, <4>2 DEF b
        <5> QED BY Zenon, <2>2, <2>4, <4>2, <5>1
      <4> QED BY Zenon, <3>1, <4>1, <4>2
    <3>3. ASSUME NEW i \in DOMAIN ns
          PROVE  /\ ns[i].at \in DOMAIN tree /\ DirectoryIsEmpty(ns[i].at)
                 /\ ns[i].target = tree[ns[i].at]
      <4>1. CASE b.role \notin InputRoles
        BY Zenon, <2>2, <4>1 DEF QuietInv
      <4>2. CASE b.role \in InputRoles /\ i \in DOMAIN namespaces
        <5>1. ns[i].at = namespaces[i].at /\ ns[i].target = namespaces[i].target
          BY Zenon, <2>7, <4>2
        <5> HIDE DEF ns
        <5> QED BY Zenon, <4>2, <5>1 DEF QuietInv
      <4>3. CASE b.role \in InputRoles /\ i \notin DOMAIN namespaces
        <5>1. ns[i].at = Parent(b.at) /\ ns[i].target = tree[Parent(b.at)]
          BY Zenon, <2>7, <4>3
        <5> HIDE DEF ns
        <5> QED BY Zenon, <2>5, <4>3, <5>1
      <4> QED BY Zenon, <4>1, <4>2, <4>3
    <3> QED BY <2>1, <3>0, <3>2, <3>3, Zenon DEF QuietInv, ns
  <2> QED BY Zenon, <2>8, <2>9, <2>10, <2>11
<1> QED BY Zenon, <1>1, <1>2

\* Nothing is admitted at first.
LEMMA AdmitInit == Init => AdmitInv
<1> SUFFICES ASSUME Init PROVE AdmitInv
  BY Zenon
<1>0. /\ request \in Requests /\ root_path \in RootPaths /\ tree \in Trees
      /\ phase = "start" /\ next = 1 /\ admitted = <<>> /\ namespaces = <<>>
      /\ verdict = "none" /\ changes = 0
  BY Zenon DEF Init
<1>1. /\ Len(admitted) = 0 /\ DOMAIN admitted = {} /\ DOMAIN namespaces = {}
      /\ admitted \in Seq(AdmittedType) /\ namespaces \in Seq(NamespaceType)
  BY <1>0, SeqEmpty
<1>2. IsTree(tree) /\ Len(request) \in Nat
  BY Zenon, <1>0, RequestIs, MountAssumption
<1>3. StateInv
  BY <1>0, <1>1, <1>2 DEF StateInv, Bare, Rooted
<1>4. AdmissionInv
  BY <1>0, <1>1 DEF AdmissionInv
<1>5. NamespaceInv
  BY Zenon, <1>0, <1>1 DEF NamespaceInv
<1>6. QuietInv
  BY Zenon, <1>0, <1>1 DEF QuietInv
<1> QED BY Zenon, <1>3, <1>4, <1>5, <1>6 DEF AdmitInv

\* What the host has changed before, and what it looks like now, is no matter to
\* the records of the admission.
LEMMA HostStep ==
    ASSUME AdmitInv, HostReplaces \/ HostRemoves \/ HostCreates
    PROVE  /\ AdmitInv' /\ changes' = changes + 1
           /\ phase \in {"start", "admission", "admitted"}
           /\ UNCHANGED <<given, phase, next, admitted, namespaces, verdict, stage,
                          mounts, faulted>>
<1>1. /\ phase \in {"start", "admission", "admitted"} /\ changes' = changes + 1
      /\ UNCHANGED <<given, phase, next, admitted, namespaces, verdict, stage,
                     mounts, faulted>>
  BY Zenon DEF HostReplaces, HostRemoves, HostCreates, HostChange
<1>2. IsTree(tree') /\ changes \in Nat
  BY Zenon, HostKeepsTree DEF AdmitInv, StateInv
<1>3. StateInv'
  BY <1>1, <1>2 DEF AdmitInv, StateInv, Bare, Rooted, given
<1>4. AdmissionInv'
  BY <1>1 DEF AdmitInv, AdmissionInv, given, RoleAccess, Overlap
<1>5. NamespaceInv'
  BY Zenon, <1>1 DEF AdmitInv, NamespaceInv
<1>6. QuietInv'
  BY <1>1, <1>2 DEF QuietInv
<1> QED BY Zenon, <1>1, <1>3, <1>4, <1>5, <1>6 DEF AdmitInv

\* Steps that leave the records and the root view alone.
LEMMA QuietFrame ==
    ASSUME QuietInv, UNCHANGED <<given, tree, admitted, namespaces, changes>>,
           changes = 0 /\ verdict' = "rejected" => faulted' \/ ~Admissible
    PROVE  QuietInv'
<1>1. /\ Admissible' <=> Admissible
      /\ \A p : DirectoryIsEmpty(p)' <=> DirectoryIsEmpty(p)
      /\ \A c : Destination(c)' <=> Destination(c)
  BY Zenon, AdmissibleFrame DEF given
<1> QED BY Zenon, <1>1 DEF QuietInv, given

\* Every step keeps what is known of the admission.
LEMMA AdmitStep ==
    ASSUME AdmitInv, [Next]_vars
    PROVE  AdmitInv'
<1>0. StateInv /\ AdmissionInv /\ NamespaceInv /\ QuietInv
  BY Zenon DEF AdmitInv
<1>1. CASE OpenRoot
  <2>1. /\ phase = "start"
        /\ IF root_path = <<>> THEN phase' = "done" /\ verdict' = "rejected"
                               ELSE phase' = "admission" /\ UNCHANGED verdict
        /\ UNCHANGED <<given, tree, next, admitted, namespaces, stage, mounts,
                       changes, faulted>>
    BY Zenon, <1>1 DEF OpenRoot
  <2>2. StateInv'
    BY Zenon, <1>0, <2>1 DEF StateInv, Bare, Rooted, given
  <2>3. AdmissionInv'
    BY <1>0, <2>1 DEF AdmissionInv, given, RoleAccess, Overlap
  <2>4. NamespaceInv'
    BY Zenon, <1>0, <2>1 DEF NamespaceInv
  <2>5. verdict = "none"
    BY Zenon, <1>0, <2>1 DEF StateInv
  <2>6. verdict' = "rejected" => ~Admissible
    BY Zenon, <2>1, <2>5 DEF Admissible
  <2>7. QuietInv'
    BY Zenon, <1>0, <2>1, <2>6, QuietFrame
  <2> QED BY Zenon, <2>2, <2>3, <2>4, <2>7 DEF AdmitInv
<1>2. CASE AdmitBinding
  BY Zenon, <1>2, AdmitBindingStep
<1>3. CASE MakeScratch
  <2>1. /\ phase = "admission" /\ next > Len(request) /\ phase' = "admitted"
        /\ UNCHANGED <<given, tree, next, admitted, namespaces, verdict, stage,
                       mounts, changes, faulted>>
    BY Zenon, <1>3 DEF MakeScratch
  <2>2. Len(admitted) = Len(request)
    <3>1. next = Len(admitted) + 1 /\ Len(admitted) <= Len(request) /\ Len(admitted) \in Nat
      BY Zenon, <1>0, <2>1, SeqIs DEF StateInv, AdmissionInv
    <3>2. Len(request) \in Nat
      BY Zenon, <1>0, RequestIs DEF StateInv
    <3> QED BY <2>1, <3>1, <3>2
  <2>3. StateInv' /\ verdict' = "none"
    BY Zenon, <1>0, <2>1, <2>2 DEF StateInv, Bare, Rooted, given
  <2>4. root_path # <<>>
    BY Zenon, <1>0, <2>1 DEF AdmissionInv
  <2>5. AdmissionInv' /\ NamespaceInv'
    BY Zenon, <1>0, <2>1, <2>4, AdmitFrame
  <2>6. QuietInv'
    BY Zenon, <1>0, <2>1, <2>3, QuietFrame
  <2> QED BY Zenon, <2>3, <2>5, <2>6 DEF AdmitInv
<1>4. CASE AdmissionFails
  <2>1. /\ phase \in {"start", "admission"}
        /\ phase' = "done" /\ verdict' = "rejected" /\ faulted' = TRUE
        /\ UNCHANGED <<given, tree, next, admitted, namespaces, stage, mounts, changes>>
    BY Zenon, <1>4 DEF AdmissionFails
  <2>2. StateInv'
    BY Zenon, <1>0, <2>1 DEF StateInv, Bare, Rooted, given
  <2>3. AdmissionInv' /\ NamespaceInv'
    BY Zenon, <1>0, <2>1, AdmitFrame
  <2>4. QuietInv'
    BY Zenon, <1>0, <2>1, QuietFrame
  <2> QED BY Zenon, <2>2, <2>3, <2>4 DEF AdmitInv
<1>5. CASE HostReplaces \/ HostRemoves \/ HostCreates
  BY Zenon, <1>5, HostStep
<1>6. CASE Build
  <2>1. /\ UNCHANGED <<given, tree, admitted, namespaces, changes>>
        /\ phase \in BuildPhases /\ next' \in Nat \ {0}
        /\ \/ phase' \in BuildPhases \ {"admitted"} /\ verdict' = verdict
           \/ phase' = "done" /\ verdict' \in {"failed", "ready"}
    BY Zenon, <1>0, <1>6, BuildFrame DEF StateInv
  <2>2. verdict = "none" /\ Len(admitted) = Len(request)
    BY Zenon, <1>0, <2>1 DEF StateInv, BuildPhases, Bare, Rooted
  <2>3. StateInv'
    BY Zenon, <1>0, <2>1, <2>2 DEF StateInv, BuildPhases, given
  <2>4. AdmissionInv' /\ NamespaceInv'
    BY Zenon, <1>0, <2>1, AdmitFrame DEF BuildPhases
  <2>5. QuietInv'
    BY Zenon, <1>0, <2>1, <2>2, QuietFrame
  <2> QED BY Zenon, <2>3, <2>4, <2>5 DEF AdmitInv
<1>7. CASE UNCHANGED vars
  <2>1. UNCHANGED <<given, tree, phase, next, admitted, namespaces, verdict, stage,
                    mounts, changes, faulted>>
    BY Zenon, <1>7 DEF vars
  <2>2. StateInv'
    BY Zenon, <1>0, <2>1 DEF StateInv, Bare, Rooted, given
  <2>3. AdmissionInv'
    BY <1>0, <2>1 DEF AdmissionInv, given, RoleAccess, Overlap
  <2>4. NamespaceInv'
    BY Zenon, <1>0, <2>1 DEF NamespaceInv
  <2>5. QuietInv'
    BY Zenon, <1>0, <2>1, QuietFrame DEF QuietInv
  <2> QED BY Zenon, <2>2, <2>3, <2>4, <2>5 DEF AdmitInv
<1> QED BY Zenon, <1>1, <1>2, <1>3, <1>4, <1>5, <1>6, <1>7 DEF Next, Build, Terminated
=============================================================================
