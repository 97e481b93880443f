---------------------------- MODULE MountProofs -----------------------------
(***************************************************************************)
(* The private view of an isolated execution, for every request, root view *)
(* and number of changes the host makes: the steps of the child keep the   *)
(* invariant, and the properties follow from it.                           *)
(***************************************************************************)
EXTENDS MountFacts

(***************************************************************************)
(* The child builds the view.                                              *)
(***************************************************************************)
\* What the child does to the table is to add a mount that is seen where it was
\* put, and changes no lookup elsewhere.
LEMMA NewMount ==
    ASSUME IsRooted(mounts), NEW p \in Path, p # <<>>, Reached(p) # 0,
           NEW mount, mount.kind \in {"dev", "namespace", "bind"}, mount.source \in Nat,
           mount.access \in Accesses, mount.children \in SUBSET Names,
           NEW table, table = Mounted(p, mount)
    PROVE  LET n == Len(mounts) + 1 IN
           /\ IsRooted(table) /\ Len(table) = n /\ DOMAIN table = 1..n
           /\ Len(mounts) \in Nat \ {0} /\ DOMAIN mounts = 1..Len(mounts)
           /\ \A m \in 1..Len(mounts) : table[m] = mounts[m]
           /\ table[n].at = p /\ table[n].kind = mount.kind
           /\ table[n].source = mount.source /\ table[n].access = mount.access
           /\ table[n].children = mount.children
           /\ ReachedIn(DOMAIN tree, table, p) = n
           /\ \A q \in Path : ~PathContains(p, q) =>
                                ReachedIn(DOMAIN tree, table, q) = Reached(q)
<1> DEFINE x == [base |-> Reached(Parent(p)), at |-> p, kind |-> mount.kind,
                 source |-> mount.source, access |-> mount.access,
                 children |-> mount.children]
<1>1. table = Append(mounts, x)
  BY Zenon DEF Mounted
<1>2. Len(mounts) \in Nat \ {0} /\ DOMAIN mounts = 1..Len(mounts) /\ mounts \in Seq(MountType)
      /\ mounts # <<>>
  BY Zenon, TableLen DEF IsRooted
<1>3. Reached(Parent(p)) \in Nat
  BY <1>2, ParentDef, ReachedType DEF Reached
<1>4. /\ x.base = Reached(Parent(p)) /\ x.at = p /\ x.kind = mount.kind
      /\ x.source = mount.source /\ x.access = mount.access /\ x.children = mount.children
  BY Zenon
<1>5. x \in MountType
  <2>1. mount.kind \in {"root", "dev", "namespace", "bind"}
    BY Zenon
  <2> QED BY <1>3, <2>1, Zenon DEF MountType
<1>6. x.kind # "root"
  BY Zenon
<1> HIDE DEF x
<1>7. IsRooted(table)
  BY Zenon, <1>1, <1>5, <1>6, AppendRooted
<1>8. /\ DOMAIN table = 1..(Len(mounts) + 1) /\ Len(table) = Len(mounts) + 1
      /\ \A m \in 1..Len(mounts) : table[m] = mounts[m]
      /\ table[Len(mounts) + 1] = x
  BY <1>1, <1>2, <1>5, AppendMount
<1>9. ReachedIn(DOMAIN tree, table, p) = Len(mounts) + 1
  <2>1. /\ x.base = ReachedIn(DOMAIN tree, mounts, Parent(p))
        /\ ReachedIn(DOMAIN tree, mounts, p) # 0 /\ x.at = p
    BY Zenon, <1>4 DEF Reached
  <2>2. ReachedIn(DOMAIN tree, Append(mounts, x), p) = Len(mounts) + 1
    BY <1>5, <1>6, <2>1, MountIsSeen, Zenon
  <2> QED BY Zenon, <1>1, <2>2
<1>10. \A q \in Path : ~PathContains(p, q) => ReachedIn(DOMAIN tree, table, q) = Reached(q)
  BY <1>1, <1>4, <1>5, MountElsewhere DEF Reached
<1> QED BY Zenon, <1>2, <1>4, <1>7, <1>8, <1>9, <1>10

\* Where the mount points are.
LEMMA PointsAre ==
    ASSUME AdmitInv
    PROVE  /\ Len(admitted) \in Nat /\ DOMAIN admitted = 1..Len(admitted)
           /\ Len(namespaces) \in Nat /\ DOMAIN namespaces = 1..Len(namespaces)
           /\ \A i \in DOMAIN admitted :
                /\ admitted[i] \in AdmittedType
                /\ admitted[i].at \in Path /\ admitted[i].at # <<>>
                /\ admitted[i].access \in Accesses
                /\ admitted[i].source \in Nat \ {0} /\ admitted[i].target \in Nat
                /\ admitted[i].synthetic \/ admitted[i].target # 0
                /\ ~PathContains(Dev, admitted[i].at) /\ ~PathContains(admitted[i].at, Dev)
           /\ \A i, j \in DOMAIN admitted :
                i # j => ~PathContains(admitted[i].at, admitted[j].at)
           /\ \A i \in DOMAIN namespaces :
                /\ namespaces[i].at \in Path /\ namespaces[i].at # <<>>
                /\ namespaces[i].target \in Nat \ {0}
                /\ namespaces[i].children \in SUBSET Names
                /\ ~PathContains(Dev, namespaces[i].at) /\ ~PathContains(namespaces[i].at, Dev)
<1>0. StateInv /\ AdmissionInv /\ NamespaceInv
  BY Zenon DEF AdmitInv
<1>1. /\ Len(admitted) \in Nat /\ DOMAIN admitted = 1..Len(admitted)
      /\ \A i \in DOMAIN admitted : admitted[i] \in AdmittedType
  BY Zenon, <1>0, SeqIs, SeqElement DEF StateInv
<1>2. /\ Len(namespaces) \in Nat /\ DOMAIN namespaces = 1..Len(namespaces)
      /\ \A i \in DOMAIN namespaces : namespaces[i] \in NamespaceType
  BY Zenon, <1>0, SeqIs, SeqElement DEF StateInv
<1>3. \A a \in AdmittedType : /\ a.at \in Path /\ a.access \in Accesses
                              /\ a.source \in Nat \ {0} /\ a.target \in Nat
  BY DEF AdmittedType
<1>4. \A n \in NamespaceType : /\ n.at \in Path /\ n.target \in Nat \ {0}
                               /\ n.children \in SUBSET Names
  BY Zenon DEF NamespaceType
<1>5. \A i \in DOMAIN admitted :
        /\ admitted[i].at # <<>> /\ ~PathContains(Dev, admitted[i].at)
        /\ admitted[i].synthetic => Len(admitted[i].at) > 1
        /\ admitted[i].synthetic \/ admitted[i].target # 0
  BY Zenon, <1>0 DEF AdmissionInv
<1>6. \A i, j \in DOMAIN admitted : i # j => ~PathContains(admitted[i].at, admitted[j].at)
  BY Zenon, <1>0 DEF AdmissionInv
<1>7. ASSUME NEW p \in Path, p # <<>>, ~PathContains(Dev, p)
      PROVE  ~PathContains(p, Dev)
  BY Zenon, <1>7, DevPath, PrefixOrder
<1>8. ASSUME NEW i \in DOMAIN namespaces
      PROVE  namespaces[i].at # <<>> /\ ~PathContains(Dev, namespaces[i].at)
  <2> DEFINE q == namespaces[i].at
  <2>0. /\ namespaces[i].children # {}
        /\ \A c \in namespaces[i].children :
             \E k \in DOMAIN admitted : admitted[k].synthetic /\ admitted[k].at = Append(q, c)
    BY Zenon, <1>0 DEF NamespaceInv
  <2>1. PICK c \in namespaces[i].children : TRUE
    BY Zenon, <2>0
  <2>2. PICK k \in DOMAIN admitted : admitted[k].synthetic /\ admitted[k].at = Append(q, c)
    BY Zenon, <2>0
  <2>3. q \in Path /\ c \in Names
    BY Zenon, <1>2, <1>4
  <2>4. Append(q, c) \in Path /\ Append(q, c) # <<>> /\ Len(Append(q, c)) = Len(q) + 1
        /\ Parent(Append(q, c)) = q /\ Len(q) \in Nat
    BY Zenon, <2>3, AppendDef, ParentAppend, EmptyPath
  <2>5. Len(q) # 0
    BY <1>5, <2>2, <2>4
  <2>6. ~PathContains(Dev, Append(q, c))
    BY Zenon, <1>5, <2>2
  <2>7. q # <<>>
    BY Zenon, <2>3, <2>5, EmptyPath
  <2>8. ~PathContains(Dev, q)
    <3>1. Dev \in Path
      BY Zenon, DevPath
    <3> DEFINE child == Append(q, c)
    <3>2. child \in Path /\ child # <<>> /\ Parent(child) = q
      BY Zenon, <2>4
    <3> HIDE DEF child, q
    <3>3. PathContains(Dev, child) <=> Dev = child \/ PathContains(Dev, Parent(child))
      BY <3>1, <3>2, PrefixParent, Zenon
    <3> QED BY Zenon, <2>6, <3>2, <3>3 DEF child
  <2> QED BY Zenon, <2>7, <2>8
<1> QED BY Zenon, <1>1, <1>2, <1>3, <1>4, <1>5, <1>6, <1>7, <1>8

\* What is known of the view.
BuildInv == TableInv /\ ViewInv /\ AdmittedIsRealizable

\* Without a root there is nothing to say of the view.
LEMMA NothingBuilt ==
    ASSUME ~Rooted', phase' # "dev", phase' \in Bare => mounts' = <<>>,
           AdmittedIsRealizable'
    PROVE  BuildInv'
<1>1. TableInv'
  BY Zenon DEF TableInv, Rooted
<1>2. ViewInv'
  BY Zenon DEF ViewInv, Overlaid, Attached
<1> QED BY Zenon, <1>1, <1>2 DEF BuildInv

\* The steps before there is a root, and the failures.
LEMMA BareStep ==
    ASSUME AdmitInv, BuildInv,
           \/ OpenRoot \/ AdmitBinding \/ MakeScratch \/ AdmissionFails
           \/ HostReplaces \/ HostRemoves \/ HostCreates \/ SetupFails
           \/ StartChild \/ CloneRoot \/ CloneBindings
           \/ Unshare \/ MakePrivate \/ MountScratch
    PROVE  BuildInv'
<1>0. StateInv /\ TableInv
  BY Zenon DEF AdmitInv, BuildInv
<1>1. CASE SetupFails
  <2>1. phase' = "done" /\ verdict' = "failed" /\ faulted' = TRUE
    BY Zenon, <1>1 DEF SetupFails, Fail
  <2>2. ~Rooted' /\ AdmittedIsRealizable'
    BY Zenon, <2>1 DEF Rooted, AdmittedIsRealizable
  <2> QED BY Zenon, <2>1, <2>2, NothingBuilt DEF Bare
<1>2. ASSUME phase \in Bare, phase' \in Bare \cup {"done"}, mounts' = mounts,
             \/ phase' = phase /\ verdict' = verdict
             \/ phase' = "done" /\ verdict' = "rejected"
             \/ phase' \in Bare /\ verdict' = verdict
      PROVE  BuildInv'
  <2>1. mounts = <<>> /\ verdict = "none"
    BY Zenon, <1>0, <1>2 DEF TableInv, StateInv, Bare
  <2>2. ~Rooted' /\ AdmittedIsRealizable' /\ phase' # "dev"
    BY Zenon, <1>2, <2>1 DEF Rooted, AdmittedIsRealizable, Bare
  <2> QED BY Zenon, <1>2, <2>1, <2>2, NothingBuilt
<1>3. CASE OpenRoot \/ MakeScratch \/ AdmissionFails
  BY Zenon, <1>2, <1>3 DEF OpenRoot, MakeScratch, AdmissionFails, Bare
<1>4. CASE AdmitBinding
  <2>1. /\ phase = "admission" /\ mounts' = mounts
        /\ \/ UNCHANGED <<phase, verdict>>
           \/ phase' = "done" /\ verdict' = "rejected"
    BY <1>4, Zenon DEF AdmitBinding
  <2> QED BY Zenon, <1>2, <2>1 DEF Bare
<1>5. CASE HostReplaces \/ HostRemoves \/ HostCreates
  <2>1. phase \in {"start", "admission", "admitted"} /\ UNCHANGED <<phase, verdict, mounts>>
    BY Zenon, <1>5, HostStep
  <2> QED BY Zenon, <1>2, <2>1 DEF Bare
<1>6. CASE StartChild \/ CloneRoot \/ CloneBindings \/ Unshare \/ MakePrivate \/ MountScratch
  <2>1. phase \in Bare /\ phase' \in Bare /\ UNCHANGED <<verdict, mounts>>
    BY Zenon, <1>6 DEF StartChild, CloneRoot, CloneBindings, Unshare, MakePrivate, MountScratch,
       Step, Goto, Bare
  <2> QED BY Zenon, <1>2, <2>1
<1> QED BY Zenon, <1>1, <1>3, <1>4, <1>5, <1>6

\* The clone of the root view becomes the first mount.
LEMMA AttachRootStep ==
    ASSUME AdmitInv, BuildInv, AttachRoot
    PROVE  BuildInv'
<1>0. StateInv /\ TableInv
  BY Zenon DEF AdmitInv, BuildInv
<1> DEFINE x == [base |-> 0, at |-> <<>>, kind |-> "root", source |-> tree[<<>>],
                 access |-> "read_only", children |-> {}]
<1>1. /\ phase = "root" /\ phase' = "dev" /\ next' = 1
      /\ mounts' = Append(mounts, x) /\ verdict' = verdict
  BY Zenon DEF AttachRoot, Step, Goto, Mounted
<1>2. mounts = <<>> /\ verdict = "none"
  BY Zenon, <1>0, <1>1 DEF TableInv, StateInv, Bare
<1>3. tree[<<>>] \in Nat
  BY Zenon, <1>0 DEF StateInv, IsTree
<1>4. x \in MountType
  <2>1. <<>> \in Path /\ {} \in SUBSET Names /\ "read_only" \in Accesses
        /\ "root" \in {"root", "dev", "namespace", "bind"} /\ 0 \in Nat
    BY Zenon, EmptyPath DEF Accesses
  <2> QED BY <1>3, <2>1, Zenon DEF MountType
<1>5. /\ x.at = <<>> /\ x.base = 0 /\ x.access = "read_only" /\ x.kind = "root"
  BY Zenon
<1> HIDE DEF x
<1>6. /\ mounts' \in Seq(MountType) /\ mounts' # <<>> /\ Len(mounts') = 1
      /\ DOMAIN mounts' = 1..1 /\ mounts'[1] = x
  <2>1. mounts \in Seq(MountType) /\ Len(mounts) = 0
    BY Zenon, <1>2, SeqEmpty
  <2> QED BY <1>1, <1>4, <2>1, AppendMount
<1>7. TableInv'
  BY <1>1, <1>2, <1>5, <1>6 DEF TableInv, Rooted, Bare
<1>8. ViewInv'
  BY Zenon, <1>1, <1>2 DEF ViewInv, Overlaid, Attached, Rooted
<1>9. AdmittedIsRealizable'
  BY Zenon, <1>1, <1>2 DEF AdmittedIsRealizable
<1> QED BY Zenon, <1>7, <1>8, <1>9 DEF BuildInv

\* What the invariant says of the table once it has a root.
LEMMA RootedTable ==
    ASSUME TableInv, phase = "dev" \/ Rooted
    PROVE  /\ IsRooted(mounts) /\ mounts[1].access = "read_only"
           /\ Len(mounts) \in Nat \ {0} /\ DOMAIN mounts = 1..Len(mounts)
<1>1. IsRooted(mounts) /\ mounts[1].access = "read_only"
  BY Zenon DEF TableInv, IsRooted
<1> QED BY Zenon, <1>1, TableLen

\* /dev is mounted where the root view has the directory; where it has not, the
\* setup fails for that.
LEMMA MountDevStep ==
    ASSUME AdmitInv, BuildInv, MountDev
    PROVE  BuildInv'
<1>0. StateInv /\ TableInv
  BY Zenon DEF AdmitInv, BuildInv
<1>1. phase = "dev" /\ UNCHANGED <<given, tree, admitted, namespaces, changes>>
      /\ verdict = "none"
  BY Zenon, <1>0 DEF MountDev, Step, StateInv
<1>2. /\ IsRooted(mounts) /\ mounts[1].access = "read_only" /\ Len(mounts) = 1
      /\ DOMAIN mounts = 1..Len(mounts)
  BY Zenon, <1>0, <1>1, RootedTable DEF TableInv
<1>3. CASE Reached(Dev) = 0
  <2>1. phase' = "done" /\ verdict' = "failed"
    BY Zenon, <1>3 DEF MountDev, Fail
  <2>2. Dev \notin DOMAIN tree
    <3> SUFFICES ASSUME Dev \in DOMAIN tree PROVE FALSE
      BY Zenon
    <3>1. /\ DOMAIN tree \in SUBSET Path /\ \A q \in DOMAIN tree \ {<<>>} : Parent(q) \in DOMAIN tree
      BY Zenon, <1>0 DEF StateInv, IsTree
    <3>2. \A m \in 2..Len(mounts) : ~PathContains(mounts[m].at, Dev)
      BY <1>2
    <3>3. ReachedIn(DOMAIN tree, mounts, Dev) = 1
      BY Zenon, <1>2, <3>1, <3>2, RootIsSeen
    <3> QED BY <1>3, <3>3 DEF Reached
  <2>3. ~Rooted' /\ AdmittedIsRealizable'
    BY Zenon, <1>1, <2>1, <2>2 DEF Rooted, AdmittedIsRealizable
  <2> QED BY Zenon, <2>1, <2>3, NothingBuilt DEF Bare
<1>4. CASE Reached(Dev) # 0
  <2> DEFINE mount == Tmpfs("dev", {"null"})
  <2>1. mounts' = Mounted(Dev, mount) /\ phase' = "overlay" /\ next' = 1 /\ verdict' = verdict
    BY Zenon, <1>4 DEF MountDev, Goto
  <2>2. /\ mount.kind = "dev" /\ mount.source = 0 /\ mount.access \in Accesses
        /\ mount.children \in SUBSET Names /\ mount.source \in Nat
        /\ mount.kind \in {"dev", "namespace", "bind"}
    BY Zenon, MountAssumption DEF Tmpfs, Accesses
  <2> HIDE DEF mount
  <2>3. Dev \in Path /\ Dev # <<>>
    BY Zenon, DevPath
  <2>4. /\ IsRooted(mounts') /\ Len(mounts') = Len(mounts) + 1
        /\ DOMAIN mounts' = 1..(Len(mounts) + 1)
        /\ \A m \in 1..Len(mounts) : mounts'[m] = mounts[m]
        /\ mounts'[Len(mounts) + 1].at = Dev /\ mounts'[Len(mounts) + 1].kind = "dev"
        /\ mounts'[Len(mounts) + 1].source = 0
        /\ ReachedIn(DOMAIN tree, mounts', Dev) = Len(mounts) + 1
    BY <1>2, <1>4, <2>1, <2>2, <2>3, NewMount
  <2>5. Reached(Dev)' = 2
    BY <1>1, <1>2, <2>4 DEF Reached
  <2>6. mounts'[1].access = "read_only" /\ 1 \in 1..1
    BY <1>2, <2>4
  <2>7. TableInv'
    <3>1. /\ mounts' \in Seq(MountType) /\ mounts' # <<>>
          /\ \A m \in DOMAIN mounts' : mounts'[m].kind = "root" <=> m = 1
          /\ mounts'[1].at = <<>> /\ mounts'[1].base = 0
      BY Zenon, <2>4 DEF IsRooted
    <3>2. \A m \in DOMAIN mounts' \ {1} :
            mounts'[m].kind = "dev" /\ mounts'[m].at = Dev /\ mounts'[m].source = 0
      BY <1>2, <2>4
    <3>3. Reached(Dev)' # 0 /\ mounts'[Reached(Dev)'].kind = "dev"
      BY <1>2, <2>4, <2>5
    <3> QED BY Zenon, <2>1, <2>6, <3>1, <3>2, <3>3 DEF TableInv, Bare
  <2>8. Overlaid' = {} /\ Attached' = {}
    <3>1. \A i \in DOMAIN namespaces : ~(i < 1)
      BY PointsAre
    <3> QED BY Zenon, <1>1, <2>1, <3>1 DEF Overlaid, Attached
  <2>9. ViewInv'
    BY Zenon, <2>8 DEF ViewInv
  <2>10. AdmittedIsRealizable'
    BY Zenon, <1>1, <2>1 DEF AdmittedIsRealizable
  <2> QED BY Zenon, <2>7, <2>9, <2>10 DEF BuildInv
<1> QED BY Zenon, <1>3, <1>4

\* A table that has got one more namespace or binding.
LEMMA TableGrows ==
    ASSUME AdmitInv, TableInv, Rooted, Rooted', UNCHANGED <<tree, namespaces, admitted>>,
           IsRooted(mounts'), NEW n, n = Len(mounts) + 1, DOMAIN mounts' = 1..n,
           \A m \in 1..Len(mounts) : mounts'[m] = mounts[m],
           \/ /\ mounts'[n].kind = "namespace" /\ mounts'[n].source = 0
              /\ \E i \in Overlaid' : mounts'[n].at = namespaces[i].at
           \/ /\ mounts'[n].kind = "bind"
              /\ \E i \in Attached' : /\ mounts'[n].at = admitted[i].at
                                      /\ mounts'[n].source = admitted[i].source,
           Overlaid \subseteq Overlaid', Attached \subseteq Attached',
           \A q \in Path : ~PathContains(mounts'[n].at, q) =>
                             ReachedIn(DOMAIN tree, mounts', q) = Reached(q),
           phase' \notin Bare \cup {"dev"},
           phase' \in {"overlay", "seal"} => next' = 1 \/ next' <= Len(namespaces),
           phase' = "attach" => next' = 1 \/ next' <= Len(admitted)
    PROVE  TableInv'
<1>0. /\ IsRooted(mounts) /\ mounts[1].access = "read_only"
      /\ Len(mounts) \in Nat \ {0} /\ DOMAIN mounts = 1..Len(mounts)
  BY Zenon, RootedTable
<1>1. mounts'[1].access = "read_only"
  BY <1>0
<1>2. /\ mounts' \in Seq(MountType) /\ mounts' # <<>>
      /\ \A m \in DOMAIN mounts' : mounts'[m].kind = "root" <=> m = 1
      /\ mounts'[1].at = <<>> /\ mounts'[1].base = 0
  BY Zenon DEF IsRooted
<1>3. ~PathContains(mounts'[n].at, Dev)
  BY Zenon, PointsAre DEF Overlaid, Attached
<1>4. /\ Reached(Dev)' = Reached(Dev) /\ Reached(Dev) # 0 /\ Reached(Dev) \in 1..Len(mounts)
      /\ mounts'[Reached(Dev)].kind = "dev"
  <2>1. Reached(Dev)' = Reached(Dev)
    BY Zenon, <1>3, DevPath DEF Reached
  <2>2. Reached(Dev) # 0 /\ mounts[Reached(Dev)].kind = "dev"
    BY Zenon DEF TableInv
  <2>3. Reached(Dev) \in 0..Len(mounts)
    BY Zenon, <1>0, DevPath, ReachedType DEF Reached, IsRooted
  <2>4. Reached(Dev) \in 1..Len(mounts)
    BY <1>0, <2>2, <2>3
  <2> QED BY Zenon, <2>1, <2>2, <2>4
<1>5. ASSUME NEW m \in DOMAIN mounts' \ {1}
      PROVE  \/ mounts'[m].kind = "dev" /\ mounts'[m].at = Dev /\ mounts'[m].source = 0
             \/ /\ mounts'[m].kind = "namespace" /\ mounts'[m].source = 0
                /\ \E i \in Overlaid' : mounts'[m].at = namespaces[i].at
             \/ /\ mounts'[m].kind = "bind"
                /\ \E i \in Attached' : /\ mounts'[m].at = admitted[i].at
                                        /\ mounts'[m].source = admitted[i].source
  <2>1. m = n \/ m \in DOMAIN mounts \ {1}
    BY <1>0, <1>5
  <2>2. CASE m \in DOMAIN mounts \ {1}
    <3>1. \/ mounts[m].kind = "dev" /\ mounts[m].at = Dev /\ mounts[m].source = 0
          \/ /\ mounts[m].kind = "namespace" /\ mounts[m].source = 0
             /\ \E i \in Overlaid : mounts[m].at = namespaces[i].at
          \/ /\ mounts[m].kind = "bind"
             /\ \E i \in Attached : /\ mounts[m].at = admitted[i].at
                                    /\ mounts[m].source = admitted[i].source
      BY Zenon, <2>2 DEF TableInv
    <3>2. mounts'[m] = mounts[m]
      BY Zenon, <1>0, <2>2
    <3> QED BY Zenon, <3>1, <3>2
  <2>3. CASE m = n
    BY Zenon, <2>3
  <2> QED BY Zenon, <2>1, <2>2, <2>3
<1>6. \A m \in DOMAIN mounts' \ {1} :
        \/ mounts'[m].kind = "dev" /\ mounts'[m].at = Dev /\ mounts'[m].source = 0
        \/ /\ mounts'[m].kind = "namespace" /\ mounts'[m].source = 0
           /\ \E i \in Overlaid' : mounts'[m].at = namespaces'[i].at
        \/ /\ mounts'[m].kind = "bind"
           /\ \E i \in Attached' : /\ mounts'[m].at = admitted'[i].at
                                   /\ mounts'[m].source = admitted'[i].source
  BY Zenon, <1>5
<1>7. Reached(Dev)' # 0 /\ mounts'[Reached(Dev)'].kind = "dev"
  BY Zenon, <1>4
<1>8. /\ phase' \in Bare => mounts' = <<>>
      /\ phase' = "dev" => Len(mounts') = 1
      /\ phase' \in {"overlay", "seal"} => next' = 1 \/ next' <= Len(namespaces')
      /\ phase' = "attach" => next' = 1 \/ next' <= Len(admitted')
  BY Zenon
<1> HIDE DEF Rooted
<1> QED BY <1>1, <1>2, <1>6, <1>7, <1>8, Zenon DEF TableInv

\* A directory of the backend's own has no inode of the root view, and a binding
\* that is attached is not on the way to another one.
LEMMA SeenInRoot ==
    ASSUME AdmitInv, TableInv, Rooted, NEW p \in Path, NEW inode \in Nat \ {0},
           StillThere(p, inode),
           \A i \in Attached : admitted[i].at # p
    PROVE  p \in DOMAIN tree /\ tree[p] = inode
<1> DEFINE m == Reached(p)
<1>0. /\ IsRooted(mounts) /\ DOMAIN mounts = 1..Len(mounts)
  BY Zenon, RootedTable
<1>1. m # 0 /\ InodeIn(mounts[m], p) = inode
  BY Zenon DEF StillThere, InodeAt
<1>2. /\ m \in 1..Len(mounts)
      /\ mounts[m].kind = "bind" => p = mounts[m].at
      /\ m = 1 => p \in DOMAIN tree
  BY Zenon, <1>0, <1>1, ReachedOnPath DEF Reached
<1> HIDE DEF m
<1>3. m = 1
  <2> SUFFICES ASSUME m # 1 PROVE FALSE
    BY Zenon
  <2>1. \/ mounts[m].kind = "dev" /\ mounts[m].source = 0
        \/ mounts[m].kind = "namespace" /\ mounts[m].source = 0
        \/ mounts[m].kind = "bind" /\ \E i \in Attached : mounts[m].at = admitted[i].at
    BY Zenon, <1>0, <1>2 DEF TableInv
  <2> QED BY Zenon, <1>1, <1>2, <2>1 DEF InodeIn
<1>4. mounts[1].kind = "root"
  BY Zenon, <1>0, <1>2, <1>3 DEF IsRooted
<1> QED BY Zenon, <1>1, <1>2, <1>3, <1>4 DEF InodeIn

\* A name in a namespace is the mount point of an input.
LEMMA ChildIsPoint ==
    ASSUME AdmitInv, NEW i \in DOMAIN namespaces
    PROVE  /\ namespaces[i].children # {}
           /\ \A c \in namespaces[i].children :
                \E k \in DOMAIN admitted :
                   /\ admitted[k].synthetic
                   /\ admitted[k].at = Append(namespaces[i].at, c)
                   /\ Parent(admitted[k].at) = namespaces[i].at
                   /\ PathContains(namespaces[i].at, admitted[k].at)
                   /\ ~PathContains(admitted[k].at, namespaces[i].at)
<1>0. NamespaceInv
  BY Zenon DEF AdmitInv
<1>1. /\ namespaces[i].children # {}
      /\ \A c \in namespaces[i].children :
           \E k \in DOMAIN admitted : /\ admitted[k].synthetic
                                      /\ admitted[k].at = Append(namespaces[i].at, c)
  BY Zenon, <1>0 DEF NamespaceInv
<1>2. ASSUME NEW c \in namespaces[i].children, NEW k \in DOMAIN admitted,
             admitted[k].at = Append(namespaces[i].at, c)
      PROVE  /\ Parent(admitted[k].at) = namespaces[i].at
             /\ PathContains(namespaces[i].at, admitted[k].at)
             /\ ~PathContains(admitted[k].at, namespaces[i].at)
  <2>1. namespaces[i].at \in Path /\ c \in Names /\ admitted[k].at \in Path
        /\ admitted[k].at # <<>>
    BY Zenon, PointsAre
  <2>2. Parent(admitted[k].at) = namespaces[i].at
    BY Zenon, <1>2, <2>1, ParentAppend
  <2>3. /\ ~PathContains(admitted[k].at, Parent(admitted[k].at))
        /\ PathContains(Parent(admitted[k].at), admitted[k].at)
    BY Zenon, <2>1, NotInParent
  <2> QED BY Zenon, <2>2, <2>3
<1> QED BY Zenon, <1>1, <1>2

\* Where one namespace contains another, no name of the first leads to the second.
LEMMA NamesLeadElsewhere ==
    ASSUME AdmitInv, NEW i \in DOMAIN namespaces, NEW j \in DOMAIN namespaces, i # j
    PROVE  \A c \in namespaces[i].children :
              ~PathContains(Append(namespaces[i].at, c), namespaces[j].at)
<1> TAKE c \in namespaces[i].children
<1>1. PICK k \in DOMAIN admitted : /\ admitted[k].at = Append(namespaces[i].at, c)
                                   /\ Parent(admitted[k].at) = namespaces[i].at
  BY ChildIsPoint
<1>2. PICK d \in namespaces[j].children : TRUE
  BY ChildIsPoint
<1>3. PICK l \in DOMAIN admitted : /\ admitted[l].at = Append(namespaces[j].at, d)
                                   /\ Parent(admitted[l].at) = namespaces[j].at
                                   /\ PathContains(namespaces[j].at, admitted[l].at)
  BY ChildIsPoint
<1>4. namespaces[i].at # namespaces[j].at
  BY Zenon DEF AdmitInv, NamespaceInv
<1>5. k # l
  BY Zenon, <1>1, <1>3, <1>4
<1>6. ~PathContains(admitted[k].at, admitted[l].at)
  BY Zenon, <1>5, PointsAre
<1>7. admitted[k].at \in Path /\ admitted[l].at \in Path /\ namespaces[j].at \in Path
  BY Zenon, PointsAre
<1> QED BY <1>1, <1>3, <1>6, <1>7, PrefixOrder

\* On a host that changes nothing the child finds every parent of an input.
LEMMA ParentIsThere ==
    ASSUME AdmitInv, TableInv, phase = "overlay", changes = 0, next \in DOMAIN namespaces
    PROVE  StillThere(namespaces[next].at, namespaces[next].target)
<1> DEFINE p == namespaces[next].at
<1>0. Rooted /\ QuietInv
  BY Zenon DEF Rooted, AdmitInv
<1>1. /\ IsRooted(mounts) /\ DOMAIN mounts = 1..Len(mounts) /\ Len(mounts) \in Nat \ {0}
  BY Zenon, <1>0, RootedTable
<1>2. /\ p \in DOMAIN tree /\ namespaces[next].target = tree[p] /\ p \in Path
      /\ \A i \in DOMAIN namespaces : DirectoryIsEmpty(namespaces[i].at)
  BY Zenon, <1>0, PointsAre DEF QuietInv
<1>3. ASSUME NEW m \in 2..Len(mounts) PROVE ~PathContains(mounts[m].at, p)
  <2>1. m \in DOMAIN mounts \ {1}
    BY <1>1
  <2>2. \/ mounts[m].at = Dev
        \/ \E i \in Overlaid : mounts[m].at = namespaces[i].at
        \/ \E i \in Attached : TRUE
    BY Zenon, <1>0, <2>1 DEF TableInv
  <2>3. Attached = {}
    BY Zenon DEF Attached
  <2>4. CASE mounts[m].at = Dev
    BY Zenon, <2>4, PointsAre
  <2>5. ASSUME NEW i \in Overlaid, mounts[m].at = namespaces[i].at
        PROVE  ~PathContains(mounts[m].at, p)
    <3>1. i \in DOMAIN namespaces /\ i # next
      BY PointsAre DEF Overlaid
    <3>2. namespaces[i].at # p
      BY Zenon, <3>1 DEF AdmitInv, NamespaceInv
    <3> QED BY Zenon, <1>2, <2>5, <3>1, <3>2 DEF DirectoryIsEmpty
  <2> QED BY Zenon, <2>2, <2>3, <2>4, <2>5
<1>4. /\ DOMAIN tree \in SUBSET Path
      /\ \A q \in DOMAIN tree \ {<<>>} : Parent(q) \in DOMAIN tree
  BY Zenon DEF AdmitInv, StateInv, IsTree
<1>5. Reached(p) = 1
  BY Zenon, <1>1, <1>2, <1>3, <1>4, RootIsSeen DEF Reached
<1>6. mounts[1].kind = "root"
  BY <1>1 DEF IsRooted
<1> QED BY <1>2, <1>5, <1>6 DEF StillThere, InodeAt, InodeIn

\* A turn of the first loop over the namespaces.  What was compared is the root
\* view's, and a namespace that the host has moved another one into hides that one.
LEMMA OverlayStep ==
    ASSUME AdmitInv, BuildInv, OverlayNamespace
    PROVE  BuildInv'
<1>0. StateInv /\ TableInv /\ ViewInv
  BY Zenon DEF AdmitInv, BuildInv
<1>1. phase = "overlay" /\ UNCHANGED <<given, tree, admitted, namespaces, changes, faulted>>
      /\ verdict = "none" /\ Rooted /\ Attached = {}
  BY Zenon, <1>0 DEF OverlayNamespace, Step, StateInv, Rooted, Attached
<1>2. /\ IsRooted(mounts) /\ DOMAIN mounts = 1..Len(mounts) /\ Len(mounts) \in Nat \ {0}
  BY Zenon, <1>0, <1>1, RootedTable
<1>3. /\ Len(namespaces) \in Nat /\ DOMAIN namespaces = 1..Len(namespaces)
      /\ next \in Nat \ {0}
  BY Zenon, <1>0, PointsAre DEF StateInv
<1>4. CASE namespaces = <<>>
  <2>1. phase' = "attach" /\ next' = 1 /\ UNCHANGED <<verdict, mounts>>
    BY Zenon, <1>4 DEF OverlayNamespace, Goto
  <2>2. DOMAIN namespaces = {} /\ Rooted'
    BY <1>4, <2>1, SeqEmpty DEF Rooted
  <2>3. Overlaid = {} /\ Overlaid' = {} /\ Attached' = {}
    <3>1. \A i \in DOMAIN admitted : ~(i < 1)
      BY PointsAre
    <3> QED BY Zenon, <1>1, <2>1, <2>2, <3>1 DEF Overlaid, Attached
  <2>4. TableInv'
    <3>1. Reached(Dev)' = Reached(Dev)
      BY Zenon, <1>1, <2>1 DEF Reached
    <3> QED BY Zenon, <1>0, <1>1, <2>1, <2>2, <2>3, <3>1 DEF TableInv, Bare
  <2>5. ViewInv'
    BY Zenon, <2>3 DEF ViewInv
  <2>6. AdmittedIsRealizable'
    BY Zenon, <1>1, <2>1 DEF AdmittedIsRealizable
  <2> QED BY Zenon, <2>4, <2>5, <2>6 DEF BuildInv
<1>5. CASE namespaces # <<>>
  <2> DEFINE n == namespaces[next]
             L == Len(mounts) + 1
  <2>1. next \in DOMAIN namespaces
    <3>1. Len(namespaces) # 0
      BY Zenon, <1>0, <1>5, SeqEmpty DEF StateInv
    <3>2. next = 1 \/ next <= Len(namespaces)
      BY Zenon, <1>0, <1>1 DEF TableInv
    <3> QED BY <1>3, <3>1, <3>2
  <2>2. /\ n.at \in Path /\ n.at # <<>> /\ n.target \in Nat \ {0}
        /\ n.children \in SUBSET Names
    BY Zenon, <2>1, PointsAre
  <2>3. CASE ~StillThere(n.at, n.target)
    <3>1. phase' = "done" /\ verdict' = "failed"
      BY Zenon, <1>5, <2>3 DEF OverlayNamespace, Fail
    <3>2. changes # 0 /\ changes \in Nat
      BY Zenon, <1>0, <1>1, <2>1, <2>3, ParentIsThere DEF StateInv
    <3>3. ~Rooted' /\ AdmittedIsRealizable'
      BY <1>1, <3>1, <3>2 DEF Rooted, AdmittedIsRealizable
    <3> QED BY Zenon, <3>1, <3>3, NothingBuilt DEF Bare
  <2>4. CASE StillThere(n.at, n.target)
    <3> DEFINE mount == Tmpfs("namespace", n.children)
    <3>1. /\ mounts' = Mounted(n.at, mount)
          /\ IF next < Len(namespaces) THEN next' = next + 1 /\ phase' = "overlay"
                                       ELSE next' = 1 /\ phase' = "attach"
          /\ verdict' = verdict
      BY Zenon, <1>1, <1>5, <2>4 DEF OverlayNamespace, Onward
    <3>2. /\ mount.kind = "namespace" /\ mount.source = 0 /\ mount.access \in Accesses
          /\ mount.children = n.children /\ mount.source \in Nat
          /\ mount.kind \in {"dev", "namespace", "bind"}
      BY Zenon DEF Tmpfs, Accesses
    <3>3. Reached(n.at) # 0
      BY Zenon, <2>4 DEF StillThere
    <3> HIDE DEF mount
    <3>4. /\ IsRooted(mounts') /\ Len(mounts') = L /\ DOMAIN mounts' = 1..L
          /\ \A m \in 1..Len(mounts) : mounts'[m] = mounts[m]
          /\ mounts'[L].at = n.at /\ mounts'[L].kind = "namespace"
          /\ mounts'[L].source = 0 /\ mounts'[L].children = n.children
          /\ ReachedIn(DOMAIN tree, mounts', n.at) = L
          /\ \A q \in Path : ~PathContains(n.at, q) =>
                               ReachedIn(DOMAIN tree, mounts', q) = Reached(q)
      BY <1>2, <2>2, <3>1, <3>2, <3>3, NewMount
    <3>5. Rooted' /\ phase' \in {"overlay", "attach"} /\ verdict' = "none"
      BY Zenon, <1>1, <3>1 DEF Rooted
    <3>6. /\ Overlaid = {i \in DOMAIN namespaces : i < next}
          /\ Overlaid' = Overlaid \cup {next} /\ Attached' = {} /\ IsSealed' = {}
      <4>1. Overlaid = {i \in DOMAIN namespaces : i < next}
        BY Zenon, <1>1 DEF Overlaid
      <4>2. \A i \in DOMAIN namespaces : (phase' = "overlay" => i < next') <=> (i < next \/ i = next)
        BY <1>3, <2>1, <3>1
      <4>3. \A i \in DOMAIN admitted : ~(i < 1)
        BY PointsAre
      <4>4. Attached' = {}
        BY Zenon, <1>1, <3>1, <3>5, <4>3 DEF Attached
      <4>5. IsSealed' = {}
        BY Zenon, <3>5 DEF IsSealed
      <4>6. Overlaid' = Overlaid \cup {next}
        BY Zenon, <1>1, <2>1, <3>5, <4>1, <4>2 DEF Overlaid
      <4> QED BY Zenon, <4>1, <4>4, <4>5, <4>6
    <3>7. TableInv'
      <4>1. phase' \in {"overlay", "seal"} => next' = 1 \/ next' <= Len(namespaces)
        BY <1>3, <3>1
      <4>2. phase' = "attach" => next' = 1 \/ next' <= Len(admitted)
        BY Zenon, <3>1
      <4>3. \E i \in Overlaid' : mounts'[L].at = namespaces[i].at
        BY Zenon, <3>4, <3>6
      <4>4. \A q \in Path : ~PathContains(mounts'[L].at, q) =>
                               ReachedIn(DOMAIN tree, mounts', q) = Reached(q)
        BY Zenon, <3>4
      <4>5. phase' \notin Bare \cup {"dev"}
        BY Zenon, <3>5 DEF Bare
      <4>6. Overlaid \subseteq Overlaid' /\ Attached \subseteq Attached'
        BY Zenon, <1>1, <3>6
      <4>7. UNCHANGED <<tree, namespaces, admitted>>
        BY Zenon, <1>1
      <4> HIDE DEF n
      <4> QED BY Zenon, <1>0, <1>1, <3>4, <3>5, <4>1, <4>2, <4>3, <4>4, <4>5, <4>6, <4>7, TableGrows
    <3>8. ASSUME NEW i \in Overlaid'
          PROVE  LET o == namespaces[i]
                     m == ReachedIn(DOMAIN tree, mounts', o.at)
                 IN /\ o.at \in DOMAIN tree /\ o.target = tree[o.at]
                    /\ changes = 0 => m # 0
                    /\ m # 0 => /\ mounts'[m].kind = "namespace" /\ mounts'[m].at = o.at
                                /\ mounts'[m].children = o.children
      <4> DEFINE o == namespaces[i]
      <4>1. CASE i = next
        <5>1. n.at \in DOMAIN tree /\ tree[n.at] = n.target
          BY Zenon, <1>0, <1>1, <2>2, <2>4, SeenInRoot
        <5> QED BY <1>2, <3>4, <4>1, <5>1
      <4>2. CASE i # next
        <5>1. i \in Overlaid /\ i \in DOMAIN namespaces
          BY Zenon, <3>6, <4>2
        <5>2. /\ o.at \in DOMAIN tree /\ o.target = tree[o.at]
              /\ changes = 0 => Reached(o.at) # 0
              /\ Reached(o.at) # 0 =>
                   /\ mounts[Reached(o.at)].kind = "namespace"
                   /\ mounts[Reached(o.at)].at = o.at
                   /\ mounts[Reached(o.at)].children = o.children
          BY Zenon, <1>0, <5>1 DEF ViewInv
        <5>3. o.at \in Path /\ o.at # n.at
          BY Zenon, <2>1, <4>2, <5>1, PointsAre DEF AdmitInv, NamespaceInv
        <5>4. CASE ~PathContains(n.at, o.at)
          <6>1. ReachedIn(DOMAIN tree, mounts', o.at) = Reached(o.at)
            BY Zenon, <3>4, <5>3, <5>4
          <6>2. Reached(o.at) \in 0..Len(mounts)
            BY Zenon, <1>2, <5>3, ReachedType DEF Reached, IsRooted
          <6>3. Reached(o.at) # 0 => mounts'[Reached(o.at)] = mounts[Reached(o.at)]
            BY <1>2, <3>4, <6>2
          <6> QED BY Zenon, <5>2, <6>1, <6>3
        <5>5. CASE PathContains(n.at, o.at)
          <6>1. \A c \in mounts'[L].children : ~PathContains(Append(n.at, c), o.at)
            BY Zenon, <2>1, <3>4, <4>2, <5>1, NamesLeadElsewhere
          <6>2. L = ReachedIn(DOMAIN tree, mounts', n.at) /\ L # 0
            BY <1>2, <3>4
          <6>3. ReachedIn(DOMAIN tree, mounts', o.at) = 0
            BY Zenon, <2>2, <3>4, <5>3, <5>5, <6>1, <6>2, NamespaceHides
          <6>4. changes # 0
            <7> SUFFICES ASSUME changes = 0 PROVE FALSE
              BY Zenon
            <7>1. DirectoryIsEmpty(n.at)
              BY Zenon, <2>1 DEF AdmitInv, QuietInv
            <7> QED BY Zenon, <5>2, <5>3, <5>5, <7>1 DEF DirectoryIsEmpty
          <6> QED BY Zenon, <5>2, <6>3, <6>4
        <5> QED BY Zenon, <5>4, <5>5
      <4> QED BY Zenon, <4>1, <4>2
    <3>9. ViewInv'
      <4> HIDE DEF n, L
      <4> QED BY Zenon, <1>1, <3>6, <3>8 DEF ViewInv, Reached
    <3>10. AdmittedIsRealizable'
      BY Zenon, <3>5 DEF AdmittedIsRealizable
    <3> QED BY Zenon, <3>7, <3>9, <3>10 DEF BuildInv
  <2> QED BY Zenon, <2>3, <2>4
<1> QED BY Zenon, <1>4, <1>5

\* On a host that changes nothing the child finds every destination.
LEMMA DestinationIsThere ==
    ASSUME AdmitInv, BuildInv, phase = "attach", changes = 0, next \in DOMAIN admitted
    PROVE  /\ Reached(admitted[next].at) # 0
           /\ ~admitted[next].synthetic => StillThere(admitted[next].at, admitted[next].target)
<1> DEFINE b == admitted[next]
           p == b.at
<1>0. Rooted /\ QuietInv /\ TableInv /\ ViewInv /\ NamespaceInv /\ AdmissionInv
  BY Zenon DEF Rooted, AdmitInv, BuildInv
<1>1. /\ IsRooted(mounts) /\ DOMAIN mounts = 1..Len(mounts) /\ Len(mounts) \in Nat \ {0}
  BY Zenon, <1>0, RootedTable
<1>2. p \in Path /\ p # <<>>
  BY Zenon, PointsAre
<1>3. CASE b.synthetic
  <2>1. PICK j \in DOMAIN namespaces : /\ namespaces[j].at = Parent(p)
                                       /\ FileName(p) \in namespaces[j].children
    BY Zenon, <1>0, <1>3 DEF NamespaceInv
  <2>2. j \in Overlaid
    BY Zenon, <1>0 DEF Overlaid
  <2> DEFINE m == Reached(Parent(p))
  <2>3. /\ m # 0 /\ mounts[m].kind = "namespace" /\ mounts[m].at = Parent(p)
        /\ mounts[m].children = namespaces[j].children
    BY <1>0, <2>1, <2>2 DEF ViewInv
  <2>4. Parent(p) \in Path /\ Append(Parent(p), FileName(p)) = p
    BY Zenon, <1>2, ParentDef, AppendParent
  <2>5. m \in 0..Len(mounts)
    BY Zenon, <1>1, <2>4, ReachedType DEF Reached, IsRooted
  <2>6. Holds(DOMAIN tree, mounts, m, p)
    BY Zenon, <2>1, <2>3, <2>4 DEF Holds
  <2>7. Reached(p) = Entered(DOMAIN tree, mounts, m, p)
    BY Zenon, <1>2, ReachedDef DEF Reached
  <2> HIDE DEF m, p
  <2>8. Reached(p) # 0
    BY <1>1, <2>3, <2>5, <2>6, <2>7, EnteredDef DEF IsRooted
  <2> QED BY Zenon, <1>3, <2>8 DEF p
<1>4. CASE ~b.synthetic
  <2>1. /\ request[next].role \notin InputRoles /\ request[next].at = p
    BY Zenon, <1>0, <1>4 DEF AdmissionInv
  <2>2. Destination(request[next]) /\ b.target = tree[p]
    BY Zenon, <1>0, <1>4 DEF QuietInv
  <2>3. p \in DOMAIN tree
    BY Zenon, <2>1, <2>2 DEF Destination
  <2>4. ASSUME NEW m \in 2..Len(mounts) PROVE ~PathContains(mounts[m].at, p)
    <3>1. m \in DOMAIN mounts \ {1}
      BY <1>1
    <3>2. \/ mounts[m].at = Dev
          \/ \E i \in Overlaid : mounts[m].at = namespaces[i].at
          \/ \E i \in Attached : mounts[m].at = admitted[i].at
      BY Zenon, <1>0, <3>1 DEF TableInv
    <3>3. CASE mounts[m].at = Dev
      BY Zenon, <3>3, PointsAre
    <3>4. ASSUME NEW i \in Overlaid, mounts[m].at = namespaces[i].at
          PROVE  ~PathContains(mounts[m].at, p)
      <4>1. i \in DOMAIN namespaces /\ DirectoryIsEmpty(namespaces[i].at)
        BY Zenon, <1>0 DEF Overlaid, QuietInv
      <4>2. namespaces[i].at # p
        <5> SUFFICES ASSUME namespaces[i].at = p PROVE FALSE
          BY Zenon
        <5>1. PICK c \in namespaces[i].children : TRUE
          BY <4>1, ChildIsPoint
        <5>2. PICK k \in DOMAIN admitted :
                 admitted[k].synthetic /\ PathContains(namespaces[i].at, admitted[k].at)
          BY Zenon, <4>1, <5>1, ChildIsPoint
        <5>3. k # next
          BY Zenon, <1>4, <5>2
        <5> QED BY Zenon, <5>2, <5>3, PointsAre
      <4> QED BY Zenon, <2>3, <3>4, <4>1, <4>2 DEF DirectoryIsEmpty
    <3>5. ASSUME NEW i \in Attached, mounts[m].at = admitted[i].at
          PROVE  ~PathContains(mounts[m].at, p)
      <4>1. i \in DOMAIN admitted /\ i # next
        BY PointsAre DEF Attached
      <4> QED BY Zenon, <3>5, <4>1, PointsAre
    <3> QED BY Zenon, <3>2, <3>3, <3>4, <3>5
  <2>5. /\ DOMAIN tree \in SUBSET Path
        /\ \A q \in DOMAIN tree \ {<<>>} : Parent(q) \in DOMAIN tree
    BY Zenon DEF AdmitInv, StateInv, IsTree
  <2>6. Reached(p) = 1
    BY Zenon, <1>1, <2>3, <2>4, <2>5, RootIsSeen DEF Reached
  <2>7. mounts[1].kind = "root"
    BY <1>1 DEF IsRooted
  <2> QED BY <2>2, <2>6, <2>7 DEF StillThere, InodeAt, InodeIn
<1> QED BY Zenon, <1>3, <1>4

\* A binding that is attached hides no namespace, no other binding and no parent
\* of one.
LEMMA BindingHidesNothing ==
    ASSUME AdmitInv, NEW k \in DOMAIN admitted
    PROVE  /\ \A i \in DOMAIN namespaces : ~PathContains(admitted[k].at, namespaces[i].at)
           /\ \A j \in DOMAIN admitted :
                /\ j # k => ~PathContains(admitted[k].at, admitted[j].at)
                /\ Parent(admitted[j].at) \in Path
                /\ ~PathContains(admitted[k].at, Parent(admitted[j].at))
<1>1. ASSUME NEW i \in DOMAIN namespaces
      PROVE  ~PathContains(admitted[k].at, namespaces[i].at)
  <2>1. PICK c \in namespaces[i].children : TRUE
    BY ChildIsPoint
  <2>2. PICK l \in DOMAIN admitted : /\ PathContains(namespaces[i].at, admitted[l].at)
                                     /\ ~PathContains(admitted[l].at, namespaces[i].at)
    BY Zenon, <2>1, ChildIsPoint
  <2>3. admitted[k].at \in Path /\ admitted[l].at \in Path /\ namespaces[i].at \in Path
        /\ (k # l => ~PathContains(admitted[k].at, admitted[l].at))
    BY Zenon, PointsAre
  <2> QED BY Zenon, <2>2, <2>3, PrefixOrder
<1>2. ASSUME NEW j \in DOMAIN admitted
      PROVE  /\ j # k => ~PathContains(admitted[k].at, admitted[j].at)
             /\ Parent(admitted[j].at) \in Path
             /\ ~PathContains(admitted[k].at, Parent(admitted[j].at))
  <2>1. admitted[k].at \in Path /\ admitted[j].at \in Path /\ admitted[j].at # <<>>
        /\ (j # k => ~PathContains(admitted[k].at, admitted[j].at))
    BY Zenon, PointsAre
  <2>2. /\ Parent(admitted[j].at) \in Path
        /\ ~PathContains(admitted[j].at, Parent(admitted[j].at))
        /\ PathContains(Parent(admitted[j].at), admitted[j].at)
    BY Zenon, <2>1, NotInParent
  <2> QED BY <2>1, <2>2, PrefixOrder
<1> QED BY Zenon, <1>1, <1>2

\* What one turn of the loop over the bindings does, its second look included:
\* the new mount is what the path shows.
LEMMA AttachIs ==
    ASSUME AdmitInv, BuildInv, AttachBinding, admitted # <<>>
    PROVE  LET b == admitted[next]
               n == Len(mounts) + 1
           IN /\ next \in DOMAIN admitted
              /\ \/ /\ Reached(b.at) = 0 \/ (~b.synthetic /\ ~StillThere(b.at, b.target))
                    /\ phase' = "done" /\ verdict' = "failed"
                 \/ /\ Reached(b.at) # 0
                    /\ ~b.synthetic => StillThere(b.at, b.target)
                    /\ IF next < Len(admitted) THEN next' = next + 1 /\ phase' = "attach"
                                               ELSE next' = 1 /\ phase' = "seal"
                    /\ verdict' = verdict
                    /\ IsRooted(mounts') /\ Len(mounts') = n /\ DOMAIN mounts' = 1..n
                    /\ \A m \in 1..Len(mounts) : mounts'[m] = mounts[m]
                    /\ mounts'[n].at = b.at /\ mounts'[n].kind = "bind"
                    /\ mounts'[n].source = b.source /\ mounts'[n].access = b.access
                    /\ ReachedIn(DOMAIN tree, mounts', b.at) = n
                    /\ \A q \in Path : ~PathContains(b.at, q) =>
                                         ReachedIn(DOMAIN tree, mounts', q) = Reached(q)
<1> DEFINE b == admitted[next]
           n == Len(mounts) + 1
           mount == [kind |-> "bind", access |-> b.access, source |-> b.source,
                     children |-> {}]
           table == Mounted(b.at, mount)
           shown == ReachedIn(DOMAIN tree, table, b.at)
           missing == Reached(b.at) = 0 \/ (~b.synthetic /\ ~StillThere(b.at, b.target))
<1>0. StateInv /\ TableInv /\ phase = "attach" /\ Rooted
  BY Zenon DEF AdmitInv, BuildInv, AttachBinding, Step, Rooted
<1>1. /\ IsRooted(mounts) /\ DOMAIN mounts = 1..Len(mounts) /\ Len(mounts) \in Nat \ {0}
  BY Zenon, <1>0, RootedTable
<1>2. next \in DOMAIN admitted
  <2>1. /\ Len(admitted) \in Nat /\ DOMAIN admitted = 1..Len(admitted) /\ next \in Nat \ {0}
    BY Zenon, <1>0, PointsAre DEF StateInv
  <2>2. Len(admitted) # 0
    BY Zenon, <1>0, SeqEmpty DEF StateInv
  <2>3. next = 1 \/ next <= Len(admitted)
    BY Zenon, <1>0 DEF TableInv
  <2> QED BY <2>1, <2>2, <2>3
<1>3. /\ b.at \in Path /\ b.at # <<>> /\ b.source \in Nat /\ b.access \in Accesses
  BY Zenon, <1>2, PointsAre
<1>4. IF missing THEN phase' = "done" /\ verdict' = "failed"
      ELSE /\ mounts' = table
           /\ IF shown # 0 /\ InodeIn(table[shown], b.at) = b.source
                THEN Onward(Len(admitted), "seal") ELSE Fail("resource_tree")
  BY Zenon DEF AttachBinding, Fail
<1>5. CASE missing
  BY Zenon, <1>2, <1>4, <1>5
<1>6. CASE ~missing
  <2>1. Reached(b.at) # 0 /\ (~b.synthetic => StillThere(b.at, b.target))
    BY Zenon, <1>6
  <2>2. /\ mount.kind = "bind" /\ mount.source = b.source /\ mount.access = b.access
        /\ mount.children \in SUBSET Names /\ mount.kind \in {"dev", "namespace", "bind"}
    BY Zenon
  <2>3. mounts' = table
    BY Zenon, <1>4, <1>6
  <2> HIDE DEF mount
  <2>4. /\ IsRooted(table) /\ Len(table) = n /\ DOMAIN table = 1..n
        /\ \A m \in 1..Len(mounts) : table[m] = mounts[m]
        /\ table[n].at = b.at /\ table[n].kind = "bind"
        /\ table[n].source = b.source /\ table[n].access = b.access
        /\ ReachedIn(DOMAIN tree, table, b.at) = n
        /\ \A q \in Path : ~PathContains(b.at, q) =>
                             ReachedIn(DOMAIN tree, table, q) = Reached(q)
    <3>1. mount.source \in Nat /\ mount.access \in Accesses
      BY Zenon, <1>3, <2>2
    <3>2. table = Mounted(b.at, mount)
      BY Zenon
    <3> HIDE DEF b, table
    <3>3. /\ IsRooted(table) /\ Len(table) = n /\ DOMAIN table = 1..n
          /\ \A m \in 1..Len(mounts) : table[m] = mounts[m]
          /\ table[n].at = b.at /\ table[n].kind = mount.kind
          /\ table[n].source = mount.source /\ table[n].access = mount.access
          /\ ReachedIn(DOMAIN tree, table, b.at) = n
          /\ \A q \in Path : ~PathContains(b.at, q) =>
                               ReachedIn(DOMAIN tree, table, q) = Reached(q)
      BY <1>1, <1>3, <2>1, <2>2, <3>1, <3>2, NewMount
    <3> QED BY Zenon, <2>2, <3>3
  <2>5. shown # 0 /\ InodeIn(table[shown], b.at) = b.source
    BY <1>1, <2>4 DEF InodeIn
  <2>6. Onward(Len(admitted), "seal")
    BY Zenon, <1>4, <1>6, <2>5
  <2>7. /\ IF next < Len(admitted) THEN next' = next + 1 /\ phase' = "attach"
                                   ELSE next' = 1 /\ phase' = "seal"
        /\ verdict' = verdict
    BY Zenon, <1>0, <2>6 DEF Onward
  <2> HIDE DEF table, b, n
  <2>8. /\ IsRooted(mounts') /\ Len(mounts') = n /\ DOMAIN mounts' = 1..n
        /\ \A m \in 1..Len(mounts) : mounts'[m] = mounts[m]
        /\ mounts'[n].at = b.at /\ mounts'[n].kind = "bind"
        /\ mounts'[n].source = b.source /\ mounts'[n].access = b.access
        /\ ReachedIn(DOMAIN tree, mounts', b.at) = n
        /\ \A q \in Path : ~PathContains(b.at, q) =>
                             ReachedIn(DOMAIN tree, mounts', q) = Reached(q)
    BY <2>3, <2>4, Zenon
  <2> QED BY <1>2, <2>1, <2>7, <2>8, Zenon DEF b, n
<1> QED BY Zenon, <1>5, <1>6

\* A turn of the loop over the bindings: the new one is seen, and it hides none of
\* what is there.
LEMMA AttachStep ==
    ASSUME AdmitInv, BuildInv, AttachBinding
    PROVE  BuildInv'
<1>0. StateInv /\ TableInv /\ ViewInv
  BY Zenon DEF AdmitInv, BuildInv
<1>1. phase = "attach" /\ UNCHANGED <<given, tree, admitted, namespaces, changes, faulted>>
      /\ verdict = "none" /\ Rooted
  BY Zenon, <1>0 DEF AttachBinding, Step, StateInv, Rooted
<1>2. /\ IsRooted(mounts) /\ DOMAIN mounts = 1..Len(mounts) /\ Len(mounts) \in Nat \ {0}
  BY Zenon, <1>0, <1>1, RootedTable
<1>3. /\ Len(admitted) \in Nat /\ DOMAIN admitted = 1..Len(admitted)
      /\ next \in Nat \ {0} /\ DOMAIN namespaces = 1..Len(namespaces)
  BY Zenon, <1>0, PointsAre DEF StateInv
<1>4. Overlaid = DOMAIN namespaces /\ Attached = {i \in DOMAIN admitted : i < next}
  BY Zenon, <1>1 DEF Overlaid, Attached
<1>5. CASE admitted = <<>>
  <2>1. phase' = "seal" /\ next' = 1 /\ UNCHANGED <<verdict, mounts>>
    BY Zenon, <1>5 DEF AttachBinding, Goto
  <2>2. DOMAIN admitted = {} /\ Rooted'
    BY <1>5, <2>1, SeqEmpty DEF Rooted
  <2>3. Overlaid' = Overlaid /\ Attached = {} /\ Attached' = {} /\ IsSealed' = {}
    <3>1. \A i \in DOMAIN namespaces : ~(i < 1)
      BY PointsAre
    <3> QED BY Zenon, <1>1, <1>4, <2>1, <2>2, <3>1 DEF Overlaid, Attached, IsSealed
  <2>4. \A p : Reached(p)' = Reached(p)
    BY Zenon, <1>1, <2>1 DEF Reached
  <2>5. TableInv'
    BY Zenon, <1>0, <1>1, <2>1, <2>2, <2>3, <2>4 DEF TableInv, Bare
  <2>6. ViewInv'
    BY Zenon, <1>0, <1>1, <2>1, <2>3, <2>4 DEF ViewInv
  <2>7. AdmittedIsRealizable'
    BY Zenon, <1>1, <2>1 DEF AdmittedIsRealizable
  <2> QED BY Zenon, <2>5, <2>6, <2>7 DEF BuildInv
<1>6. CASE admitted # <<>>
  <2> DEFINE b == admitted[next]
             n == Len(mounts) + 1
  <2>1. next \in DOMAIN admitted
    BY Zenon, <1>6, AttachIs
  <2>2. CASE /\ Reached(b.at) = 0 \/ (~b.synthetic /\ ~StillThere(b.at, b.target))
             /\ phase' = "done" /\ verdict' = "failed"
    <3>1. changes # 0 /\ changes \in Nat
      BY Zenon, <1>0, <1>1, <2>1, <2>2, DestinationIsThere DEF StateInv
    <3>2. ~Rooted' /\ AdmittedIsRealizable'
      BY <1>1, <2>2, <3>1 DEF Rooted, AdmittedIsRealizable
    <3> QED BY Zenon, <2>2, <3>2, NothingBuilt DEF Bare
  <2>3. CASE /\ Reached(b.at) # 0
             /\ ~b.synthetic => StillThere(b.at, b.target)
             /\ IF next < Len(admitted) THEN next' = next + 1 /\ phase' = "attach"
                                        ELSE next' = 1 /\ phase' = "seal"
             /\ verdict' = verdict
             /\ IsRooted(mounts') /\ Len(mounts') = n /\ DOMAIN mounts' = 1..n
             /\ \A m \in 1..Len(mounts) : mounts'[m] = mounts[m]
             /\ mounts'[n].at = b.at /\ mounts'[n].kind = "bind"
             /\ mounts'[n].source = b.source /\ mounts'[n].access = b.access
             /\ ReachedIn(DOMAIN tree, mounts', b.at) = n
             /\ \A q \in Path : ~PathContains(b.at, q) =>
                                  ReachedIn(DOMAIN tree, mounts', q) = Reached(q)
    <3>1. Rooted' /\ phase' \in {"attach", "seal"} /\ verdict' = "none"
      BY Zenon, <1>1, <2>3 DEF Rooted
    <3>2. Overlaid' = Overlaid /\ Attached' = Attached \cup {next} /\ IsSealed' = {}
      <4>1. \A i \in DOMAIN admitted : (phase' = "attach" => i < next') <=> (i < next \/ i = next)
        BY <1>3, <2>1, <2>3
      <4>2. \A i \in DOMAIN namespaces : ~(i < 1)
        BY PointsAre
      <4>3. Attached' = Attached \cup {next}
        BY Zenon, <1>1, <1>4, <2>1, <3>1, <4>1 DEF Attached
      <4>4. Overlaid' = Overlaid
        BY Zenon, <1>1, <1>4, <3>1 DEF Overlaid
      <4>5. IsSealed' = {}
        BY Zenon, <1>1, <2>3, <3>1, <4>2 DEF IsSealed
      <4> QED BY Zenon, <4>3, <4>4, <4>5
    <3>3. TableInv'
      <4>1. phase' \in {"overlay", "seal"} => next' = 1 \/ next' <= Len(namespaces)
        BY Zenon, <2>3, <3>1
      <4>2. phase' = "attach" => next' = 1 \/ next' <= Len(admitted)
        BY <1>3, <2>3
      <4>3. \E i \in Attached' : /\ mounts'[n].at = admitted[i].at
                                 /\ mounts'[n].source = admitted[i].source
        BY Zenon, <2>3, <3>2
      <4>4. \A q \in Path : ~PathContains(mounts'[n].at, q) =>
                               ReachedIn(DOMAIN tree, mounts', q) = Reached(q)
        BY Zenon, <2>3
      <4>5. phase' \notin Bare \cup {"dev"}
        BY Zenon, <3>1 DEF Bare
      <4>6. Overlaid \subseteq Overlaid' /\ Attached \subseteq Attached'
        BY Zenon, <3>2
      <4>7. UNCHANGED <<tree, namespaces, admitted>>
        BY Zenon, <1>1
      <4>8. /\ IsRooted(mounts') /\ DOMAIN mounts' = 1..n /\ mounts'[n].kind = "bind"
            /\ \A m \in 1..Len(mounts) : mounts'[m] = mounts[m]
        BY Zenon, <2>3
      <4> HIDE DEF b
      <4> QED BY Zenon, <1>0, <1>1, <3>1, <4>1, <4>2, <4>3, <4>4, <4>5, <4>6, <4>7, <4>8, TableGrows
    <3>4. ASSUME NEW q \in Path, ~PathContains(b.at, q)
          PROVE  /\ ReachedIn(DOMAIN tree, mounts', q) = Reached(q)
                 /\ Reached(q) # 0 => mounts'[Reached(q)] = mounts[Reached(q)]
      <4>1. ReachedIn(DOMAIN tree, mounts', q) = Reached(q)
        BY Zenon, <2>3, <3>4
      <4>2. Reached(q) \in 0..Len(mounts)
        BY Zenon, <1>2, ReachedType DEF Reached, IsRooted
      <4> QED BY <1>2, <2>3, <4>1, <4>2
    <3>5. ASSUME NEW i \in Overlaid'
          PROVE  LET o == namespaces[i]
                     m == ReachedIn(DOMAIN tree, mounts', o.at)
                 IN /\ o.at \in DOMAIN tree /\ o.target = tree[o.at]
                    /\ changes = 0 => m # 0
                    /\ m # 0 => /\ mounts'[m].kind = "namespace" /\ mounts'[m].at = o.at
                                /\ mounts'[m].children = o.children
      <4> DEFINE o == namespaces[i]
      <4>1. i \in Overlaid /\ i \in DOMAIN namespaces
        BY Zenon, <1>4, <3>2
      <4>2. /\ o.at \in DOMAIN tree /\ o.target = tree[o.at]
            /\ changes = 0 => Reached(o.at) # 0
            /\ Reached(o.at) # 0 =>
                 /\ mounts[Reached(o.at)].kind = "namespace"
                 /\ mounts[Reached(o.at)].at = o.at
                 /\ mounts[Reached(o.at)].children = o.children
        BY Zenon, <1>0, <4>1 DEF ViewInv
      <4>3. o.at \in Path /\ ~PathContains(b.at, o.at)
        BY Zenon, <2>1, <4>1, PointsAre, BindingHidesNothing
      <4> QED BY Zenon, <3>4, <4>2, <4>3
    <3>6. ASSUME NEW i \in Attached'
          PROVE  LET a == admitted[i]
                     m == ReachedIn(DOMAIN tree, mounts', a.at)
                 IN /\ m # 0
                    /\ mounts'[m].kind = "bind" /\ mounts'[m].source = a.source
                    /\ mounts'[m].access = a.access
                    /\ IF a.synthetic THEN ReachedIn(DOMAIN tree, mounts', Parent(a.at)) # 0
                       ELSE a.at \in DOMAIN tree /\ a.target = tree[a.at]
      <4> DEFINE a == admitted[i]
      <4>0. i \in DOMAIN admitted /\ a.at \in Path /\ a.at # <<>> /\ Parent(a.at) \in Path
            /\ ~PathContains(b.at, Parent(a.at))
        BY Zenon, <1>4, <2>1, <3>2, PointsAre, BindingHidesNothing
      <4>1. ReachedIn(DOMAIN tree, mounts', Parent(a.at)) = Reached(Parent(a.at))
        BY Zenon, <3>4, <4>0
      <4>2. CASE i # next
        <5>1. i \in Attached
          BY Zenon, <3>2, <4>2
        <5>2. /\ Reached(a.at) # 0
              /\ mounts[Reached(a.at)].kind = "bind" /\ mounts[Reached(a.at)].source = a.source
              /\ mounts[Reached(a.at)].access = a.access
              /\ IF a.synthetic THEN Reached(Parent(a.at)) # 0
                 ELSE a.at \in DOMAIN tree /\ a.target = tree[a.at]
          BY Zenon, <1>0, <5>1 DEF ViewInv
        <5>3. ~PathContains(b.at, a.at)
          BY ZenonT(40), <2>1, <4>0, <4>2, PointsAre
        <5> QED BY Zenon, <3>4, <4>0, <4>1, <5>2, <5>3
      <4>3. CASE i = next
        <5>1. a.synthetic => Reached(Parent(a.at)) # 0
          <6>1. Reached(a.at) = Entered(DOMAIN tree, mounts, Reached(Parent(a.at)), a.at)
            BY Zenon, <4>0, ReachedDef DEF Reached
          <6>2. Reached(Parent(a.at)) \in 0..Len(mounts)
            BY Zenon, <1>2, <4>0, ReachedType DEF Reached, IsRooted
          <6>3. Reached(a.at) # 0
            BY Zenon, <2>3, <4>3
          <6> QED BY <1>2, <6>1, <6>2, <6>3, EnteredDef DEF IsRooted
        <5>2. ~a.synthetic => a.at \in DOMAIN tree /\ a.target = tree[a.at]
          <6> SUFFICES ASSUME ~a.synthetic PROVE a.at \in DOMAIN tree /\ a.target = tree[a.at]
            BY Zenon
          <6>1. a.target \in Nat \ {0}
            BY Zenon, <4>0, PointsAre
          <6>2. StillThere(a.at, a.target)
            BY Zenon, <2>3, <4>3
          <6>3. \A k \in Attached : admitted[k].at # a.at
            <7> TAKE k \in Attached
            <7>1. k \in DOMAIN admitted /\ k # next
              BY <1>3, <1>4
            <7> QED BY Zenon, <4>0, <4>3, <7>1, PointsAre, PrefixOrder
          <6> QED BY Zenon, <1>0, <1>1, <4>0, <6>1, <6>2, <6>3, SeenInRoot
        <5> QED BY <1>2, <2>3, <4>1, <4>3, <5>1, <5>2
      <4> QED BY Zenon, <4>2, <4>3
    <3>7. ViewInv'
      <4> HIDE DEF b, n
      <4> QED BY ZenonT(40), <1>1, <3>2, <3>5, <3>6 DEF ViewInv, Reached
    <3>8. AdmittedIsRealizable'
      BY Zenon, <3>1 DEF AdmittedIsRealizable
    <3> QED BY Zenon, <3>3, <3>7, <3>8 DEF BuildInv
  <2> QED BY Zenon, <1>6, <2>2, <2>3, AttachIs
<1> QED BY Zenon, <1>5, <1>6

\* The steps that leave the table alone and take nothing back.
LEMMA SameView ==
    ASSUME TableInv, ViewInv, Rooted, Rooted', UNCHANGED <<tree, admitted, namespaces, mounts, changes>>,
           Overlaid' = Overlaid, Attached' = Attached, IsSealed' \subseteq IsSealed,
           phase' \notin Bare \cup {"dev"},
           phase' \in {"overlay", "seal"} => next' = 1 \/ next' <= Len(namespaces),
           phase' = "attach" => next' = 1 \/ next' <= Len(admitted)
    PROVE  TableInv' /\ ViewInv'
<1>1. \A p : Reached(p)' = Reached(p)
  BY Zenon DEF Reached
<1>2. TableInv'
  BY <1>1 DEF TableInv
<1>3. ViewInv'
  BY ZenonT(40), <1>1 DEF ViewInv
<1> QED BY Zenon, <1>2, <1>3

\* A turn of the second loop over the namespaces: it seals a namespace and no
\* binding.
LEMMA SealStep ==
    ASSUME AdmitInv, BuildInv, SealNamespace
    PROVE  BuildInv'
<1>0. StateInv /\ TableInv /\ ViewInv
  BY Zenon DEF AdmitInv, BuildInv
<1>1. phase = "seal" /\ UNCHANGED <<given, tree, admitted, namespaces, changes, faulted>>
      /\ verdict = "none" /\ Rooted
  BY Zenon, <1>0 DEF SealNamespace, Step, StateInv, Rooted
<1>2. /\ IsRooted(mounts) /\ DOMAIN mounts = 1..Len(mounts) /\ Len(mounts) \in Nat \ {0}
      /\ mounts[1].access = "read_only"
  BY Zenon, <1>0, <1>1, RootedTable
<1>3. /\ Len(namespaces) \in Nat /\ DOMAIN namespaces = 1..Len(namespaces)
      /\ next \in Nat \ {0}
  BY Zenon, <1>0, PointsAre DEF StateInv
<1>4. /\ Overlaid = DOMAIN namespaces /\ Attached = DOMAIN admitted
      /\ IsSealed = {i \in DOMAIN namespaces : i < next}
  BY Zenon, <1>1 DEF Overlaid, Attached, IsSealed
<1>5. CASE namespaces = <<>>
  <2>1. phase' = "enter" /\ next' = 1 /\ UNCHANGED <<verdict, mounts>>
    BY Zenon, <1>5 DEF SealNamespace, Goto
  <2>2. DOMAIN namespaces = {} /\ Rooted'
    BY <1>5, <2>1, SeqEmpty DEF Rooted
  <2>3. Overlaid' = Overlaid /\ Attached' = Attached /\ IsSealed' \subseteq IsSealed
    BY Zenon, <1>1, <1>4, <2>1, <2>2 DEF Overlaid, Attached, IsSealed
  <2>4. phase' \notin Bare \cup {"dev"}
    BY Zenon, <2>1 DEF Bare
  <2>5. TableInv' /\ ViewInv'
    BY Zenon, <1>0, <1>1, <2>1, <2>2, <2>3, <2>4, SameView
  <2>6. AdmittedIsRealizable'
    BY Zenon, <1>1, <2>1 DEF AdmittedIsRealizable
  <2> QED BY Zenon, <2>5, <2>6 DEF BuildInv
<1>6. CASE namespaces # <<>>
  <2> DEFINE n == namespaces[next]
             m == Reached(n.at)
  <2>1. next \in DOMAIN namespaces
    <3>1. Len(namespaces) # 0
      BY Zenon, <1>0, <1>6, SeqEmpty DEF StateInv
    <3>2. next = 1 \/ next <= Len(namespaces)
      BY Zenon, <1>0, <1>1 DEF TableInv
    <3> QED BY <1>3, <3>1, <3>2
  <2>2. /\ changes = 0 => m # 0
        /\ m # 0 => mounts[m].kind = "namespace"
    BY Zenon, <1>0, <1>4, <2>1 DEF ViewInv
  <2>3. CASE m = 0
    <3>1. phase' = "done" /\ verdict' = "failed"
      BY Zenon, <1>6, <2>3 DEF SealNamespace, Fail
    <3>2. changes # 0 /\ changes \in Nat
      BY Zenon, <1>0, <2>2, <2>3 DEF StateInv
    <3>3. ~Rooted' /\ AdmittedIsRealizable'
      BY <1>1, <3>1, <3>2 DEF Rooted, AdmittedIsRealizable
    <3> QED BY Zenon, <3>1, <3>3, NothingBuilt DEF Bare
  <2>4. CASE m # 0
    <3>1. /\ mounts' = [mounts EXCEPT ![m].access = "read_only"]
          /\ IF next < Len(namespaces) THEN next' = next + 1 /\ phase' = "seal"
                                       ELSE next' = 1 /\ phase' = "enter"
          /\ verdict' = verdict
      BY Zenon, <1>1, <1>6, <2>4 DEF SealNamespace, Onward, Sealed
    <3>2. n.at \in Path
      BY Zenon, <2>1, PointsAre
    <3>3. m \in 1..Len(mounts)
      BY Zenon, <1>2, <2>4, <3>2, ReachedOnPath DEF Reached
    <3> HIDE DEF m
    <3>4. /\ DOMAIN mounts' = DOMAIN mounts
          /\ \A k \in DOMAIN mounts : mounts[k] \in MountType
      BY Zenon, <1>2, <3>1, TableLen
    <3>5. ASSUME NEW k \in DOMAIN mounts
          PROVE  /\ mounts'[k].base = mounts[k].base /\ mounts'[k].at = mounts[k].at
                 /\ mounts'[k].kind = mounts[k].kind /\ mounts'[k].source = mounts[k].source
                 /\ mounts'[k].children = mounts[k].children
                 /\ mounts'[k].access = IF k = m THEN "read_only" ELSE mounts[k].access
                 /\ mounts'[k] \in MountType
      <4>1. k = m => mounts'[k] = [mounts[k] EXCEPT !.access = "read_only"]
        BY Zenon, <3>1
      <4>2. k # m => mounts'[k] = mounts[k]
        BY Zenon, <3>1
      <4>3. mounts[k] \in MountType /\ "read_only" \in Accesses
        BY Zenon, <3>4 DEF Accesses
      <4> QED BY Zenon, <4>1, <4>2, <4>3 DEF MountType
    <3>6. mounts' \in Seq(MountType) /\ mounts' # <<>> /\ Len(mounts') = Len(mounts)
      <4>1. mounts \in [1..Len(mounts) -> MountType]
        BY Zenon, <1>2, SeqIs DEF IsRooted
      <4>2. mounts' \in [1..Len(mounts) -> MountType]
        <5>1. [mounts[m] EXCEPT !.access = "read_only"] \in MountType
          BY Zenon, <1>2, <3>1, <3>3, <3>5
        <5> QED BY Zenon, <3>1, <3>3, <4>1, <5>1
      <4>3. mounts' \in Seq(MountType) /\ Len(mounts') = Len(mounts)
        BY Zenon, <1>2, <4>2, SeqIs, SeqOf
      <4> QED BY Zenon, <1>2, <4>3, SeqEmpty
    <3>7. \A p \in Path : Reached(p)' = Reached(p)
      <4> TAKE p \in Path
      <4>1. ReachedIn(DOMAIN tree, mounts', p) = ReachedIn(DOMAIN tree, mounts, p)
        BY <1>2, <3>4, <3>5, AccessIsNoMatter
      <4> QED BY <1>1, <4>1, Zenon DEF Reached
    <3>8. \A p \in Path : Reached(p) # 0 => Reached(p) \in DOMAIN mounts
      BY Zenon, <1>2, ReachedOnPath DEF Reached
    <3>9. Rooted' /\ phase' \in {"seal", "enter"} /\ verdict' = "none"
      BY Zenon, <1>1, <3>1 DEF Rooted
    <3>10. Overlaid' = Overlaid /\ Attached' = Attached /\ IsSealed' = IsSealed \cup {next}
      <4>1. \A i \in DOMAIN namespaces : (phase' = "seal" => i < next') <=> (i < next \/ i = next)
        BY <1>3, <2>1, <3>1
      <4>2. Overlaid' = Overlaid /\ Attached' = Attached
        BY Zenon, <1>1, <1>4, <3>9 DEF Overlaid, Attached
      <4>3. IsSealed' = IsSealed \cup {next}
        BY Zenon, <1>1, <1>4, <2>1, <3>9, <4>1 DEF IsSealed
      <4> QED BY Zenon, <4>2, <4>3
    <3>11. TableInv'
      <4>1. /\ \A k \in DOMAIN mounts' : mounts'[k].kind = "root" <=> k = 1
            /\ mounts'[1].at = <<>> /\ mounts'[1].base = 0 /\ mounts'[1].access = "read_only"
        BY <1>2, <3>4, <3>5 DEF IsRooted
      <4>2. Reached(Dev)' # 0 /\ mounts'[Reached(Dev)'].kind = "dev"
        <5>1. Reached(Dev) # 0 /\ mounts[Reached(Dev)].kind = "dev"
          BY Zenon, <1>0, <1>1 DEF TableInv
        <5>2. Reached(Dev)' = Reached(Dev) /\ Reached(Dev) \in DOMAIN mounts
          BY Zenon, <3>7, <3>8, <5>1, DevPath
        <5> QED BY Zenon, <3>5, <5>1, <5>2
      <4>3. \A k \in DOMAIN mounts' \ {1} :
              \/ mounts'[k].kind = "dev" /\ mounts'[k].at = Dev /\ mounts'[k].source = 0
              \/ /\ mounts'[k].kind = "namespace" /\ mounts'[k].source = 0
                 /\ \E i \in Overlaid' : mounts'[k].at = namespaces'[i].at
              \/ /\ mounts'[k].kind = "bind"
                 /\ \E i \in Attached' : /\ mounts'[k].at = admitted'[i].at
                                         /\ mounts'[k].source = admitted'[i].source
        <5>1. \A k \in DOMAIN mounts \ {1} :
                \/ mounts[k].kind = "dev" /\ mounts[k].at = Dev /\ mounts[k].source = 0
                \/ /\ mounts[k].kind = "namespace" /\ mounts[k].source = 0
                   /\ \E i \in Overlaid : mounts[k].at = namespaces[i].at
                \/ /\ mounts[k].kind = "bind"
                   /\ \E i \in Attached : /\ mounts[k].at = admitted[i].at
                                          /\ mounts[k].source = admitted[i].source
          BY Zenon, <1>0, <1>1 DEF TableInv
        <5> QED BY <1>1, <3>4, <3>5, <3>10, <5>1
      <4>4. /\ phase' \notin Bare \cup {"dev"}
            /\ phase' \in {"overlay", "seal"} => next' = 1 \/ next' <= Len(namespaces')
            /\ phase' # "attach"
        BY <1>1, <1>3, <3>1, <3>9 DEF Bare
      <4> QED BY <3>6, <4>1, <4>2, <4>3, <4>4, Zenon DEF TableInv
    <3>12. ASSUME NEW i \in Overlaid'
           PROVE  LET o == namespaces[i]
                      r == Reached(o.at)
                  IN /\ o.at \in DOMAIN tree /\ o.target = tree[o.at] /\ o.at \in Path
                     /\ changes = 0 => r # 0
                     /\ r # 0 => /\ mounts'[r].kind = "namespace" /\ mounts'[r].at = o.at
                                 /\ mounts'[r].children = o.children
                                 /\ i \in IsSealed' => mounts'[r].access = "read_only"
      <4> DEFINE o == namespaces[i]
                 r == Reached(o.at)
      <4>1. i \in Overlaid /\ i \in DOMAIN namespaces /\ o.at \in Path
        BY Zenon, <1>4, <3>10, PointsAre
      <4>2. /\ o.at \in DOMAIN tree /\ o.target = tree[o.at]
            /\ changes = 0 => r # 0
            /\ r # 0 => /\ mounts[r].kind = "namespace" /\ mounts[r].at = o.at
                        /\ mounts[r].children = o.children
                        /\ i \in IsSealed => mounts[r].access = "read_only"
        BY Zenon, <1>0, <4>1 DEF ViewInv
      <4>3. r # 0 => r \in DOMAIN mounts
        BY Zenon, <3>8, <4>1
      <4>4. i = next => r = m
        BY Zenon DEF m
      <4>5. i \in IsSealed' => i \in IsSealed \/ i = next
        BY Zenon, <3>10
      <4> HIDE DEF r
      <4>6. r # 0 => /\ mounts'[r].kind = "namespace" /\ mounts'[r].at = o.at
                     /\ mounts'[r].children = o.children
                     /\ i \in IsSealed' => mounts'[r].access = "read_only"
        BY Zenon, <3>5, <4>2, <4>3, <4>4, <4>5
      <4> QED BY Zenon, <4>1, <4>2, <4>6 DEF r
    <3>13. ASSUME NEW i \in Attached'
           PROVE  LET a == admitted[i]
                      r == Reached(a.at)
                  IN /\ r # 0 /\ a.at \in Path
                     /\ a.synthetic => Parent(a.at) \in Path
                     /\ mounts'[r].kind = "bind" /\ mounts'[r].source = a.source
                     /\ mounts'[r].access = a.access
                     /\ IF a.synthetic THEN Reached(Parent(a.at)) # 0
                        ELSE a.at \in DOMAIN tree /\ a.target = tree[a.at]
      <4> DEFINE a == admitted[i]
                 r == Reached(a.at)
      <4>1. i \in Attached /\ i \in DOMAIN admitted /\ a.at \in Path /\ a.at # <<>>
        BY Zenon, <1>4, <3>10, PointsAre
      <4>2. /\ r # 0
            /\ mounts[r].kind = "bind" /\ mounts[r].source = a.source
            /\ mounts[r].access = a.access
            /\ IF a.synthetic THEN Reached(Parent(a.at)) # 0
               ELSE a.at \in DOMAIN tree /\ a.target = tree[a.at]
        BY Zenon, <1>0, <4>1 DEF ViewInv
      <4>3. r \in DOMAIN mounts
        BY Zenon, <3>8, <4>1, <4>2
      <4>4. r # m
        BY Zenon, <2>2, <2>4, <4>2 DEF m
      <4>5. Parent(a.at) \in Path
        BY Zenon, <4>1, ParentDef
      <4> HIDE DEF r
      <4>6. mounts'[r].kind = "bind" /\ mounts'[r].source = a.source
            /\ mounts'[r].access = a.access
        BY ZenonT(40), <3>5, <4>2, <4>3, <4>4
      <4> QED BY Zenon, <4>1, <4>2, <4>5, <4>6 DEF r
    <3>14. ViewInv'
      <4> HIDE DEF n
      <4>1. ASSUME NEW i \in Overlaid'
            PROVE  Reached(namespaces[i].at)' = Reached(namespaces[i].at)
        BY Zenon, <1>1, <3>7, <3>12
      <4>2. ASSUME NEW i \in Attached'
            PROVE  /\ Reached(admitted[i].at)' = Reached(admitted[i].at)
                   /\ admitted[i].synthetic =>
                        Reached(Parent(admitted[i].at))' = Reached(Parent(admitted[i].at))
        BY Zenon, <1>1, <3>7, <3>13
      <4> QED BY <1>1, <3>12, <3>13, <4>1, <4>2 DEF ViewInv
    <3>15. AdmittedIsRealizable'
      BY Zenon, <3>9 DEF AdmittedIsRealizable
    <3> QED BY Zenon, <3>11, <3>14, <3>15 DEF BuildInv
  <2> QED BY Zenon, <2>3, <2>4
<1> QED BY Zenon, <1>5, <1>6

\* The child enters what it has built.
LEMMA EnterStep ==
    ASSUME AdmitInv, BuildInv, EnterRoot
    PROVE  BuildInv'
<1>0. StateInv /\ TableInv /\ ViewInv
  BY Zenon DEF AdmitInv, BuildInv
<1>1. /\ phase = "enter" /\ phase' = "done" /\ verdict' = "ready"
      /\ UNCHANGED <<tree, admitted, namespaces, mounts, changes>>
  BY Zenon DEF EnterRoot, Step
<1>2. Rooted /\ Rooted'
  BY Zenon, <1>1 DEF Rooted
<1>3. Overlaid' = Overlaid /\ Attached' = Attached /\ IsSealed' \subseteq IsSealed
  BY Zenon, <1>1, <1>2 DEF Overlaid, Attached, IsSealed
<1>4. phase' \notin Bare \cup {"dev"}
  BY Zenon, <1>1 DEF Bare
<1>5. TableInv' /\ ViewInv'
  BY Zenon, <1>0, <1>1, <1>2, <1>3, <1>4, SameView
<1>6. AdmittedIsRealizable'
  BY Zenon, <1>1 DEF AdmittedIsRealizable
<1> QED BY Zenon, <1>5, <1>6 DEF BuildInv

\* Every step keeps what is known of the view.
LEMMA BuildStep ==
    ASSUME AdmitInv, BuildInv, [Next]_vars
    PROVE  BuildInv'
<1>1. CASE UNCHANGED vars
  <2>1. UNCHANGED <<given, tree, phase, next, admitted, namespaces, verdict, stage,
                    mounts, changes, faulted>>
    BY Zenon, <1>1 DEF vars
  <2>2. /\ \A p : Reached(p)' = Reached(p)
        /\ Rooted' = Rooted /\ Overlaid' = Overlaid /\ Attached' = Attached
        /\ IsSealed' = IsSealed
    BY Zenon, <2>1 DEF Reached, Rooted, Overlaid, Attached, IsSealed
  <2>3. TableInv'
    BY Zenon, <2>1, <2>2 DEF BuildInv, TableInv, Bare
  <2>4. ViewInv'
    BY ZenonT(40), <2>1, <2>2 DEF BuildInv, ViewInv
  <2>5. AdmittedIsRealizable'
    BY Zenon, <2>1 DEF BuildInv, AdmittedIsRealizable
  <2> QED BY Zenon, <2>3, <2>4, <2>5 DEF BuildInv
<1>2. CASE \/ OpenRoot \/ AdmitBinding \/ MakeScratch \/ AdmissionFails
           \/ HostReplaces \/ HostRemoves \/ HostCreates \/ SetupFails
           \/ StartChild \/ CloneRoot \/ CloneBindings
           \/ Unshare \/ MakePrivate \/ MountScratch
  BY Zenon, <1>2, BareStep
<1>3. CASE AttachRoot
  BY Zenon, <1>3, AttachRootStep
<1>4. CASE MountDev
  BY Zenon, <1>4, MountDevStep
<1>5. CASE OverlayNamespace
  BY Zenon, <1>5, OverlayStep
<1>6. CASE AttachBinding
  BY Zenon, <1>6, AttachStep
<1>7. CASE SealNamespace
  BY Zenon, <1>7, SealStep
<1>8. CASE EnterRoot
  BY Zenon, <1>8, EnterStep
<1> QED BY Zenon, <1>1, <1>2, <1>3, <1>4, <1>5, <1>6, <1>7, <1>8 DEF Next, Terminated

\* A directory that the host makes has a number that is new or was used before.
LEMMA TreeStep ==
    ASSUME AdmitInv, TreeInv, [Next]_vars
    PROVE  TreeInv'
<1> DEFINE Known(n) == n >= 100 \/ \E t \in Trees : \E q \in DOMAIN t : t[q] = n
<1>0. changes \in Nat /\ 100 + changes >= 100
  BY DEF AdmitInv, StateInv
<1>n. \A dirs : \A n \in Unused(dirs) : Known(n)
  BY Zenon, <1>0 DEF Unused, TreeInv
<1>1. ASSUME tree' = tree PROVE TreeInv'
  BY Zenon, <1>1 DEF TreeInv
<1>2. ASSUME \A p \in DOMAIN tree' : Known(tree'[p]) \/ (p \in DOMAIN tree /\ tree'[p] = tree[p])
      PROVE  TreeInv'
  <2> SUFFICES ASSUME NEW p \in DOMAIN tree' PROVE Known(tree'[p])
    BY Zenon DEF TreeInv
  <2>1. CASE p \in DOMAIN tree /\ tree'[p] = tree[p]
    BY Zenon, <2>1 DEF TreeInv
  <2> QED BY Zenon, <1>2, <2>1
<1> HIDE DEF Known
<1>3. CASE HostReplaces
  <2>0. PICK p \in DOMAIN tree \ {<<>>} : \E n \in Unused(Without(p)) :
          tree' = [q \in Without(p) \cup {p} |-> IF q = p THEN n ELSE tree[q]]
    BY Zenon, <1>3 DEF HostReplaces, HostChange
  <2>1. PICK n \in Unused(Without(p)) :
          tree' = [q \in Without(p) \cup {p} |-> IF q = p THEN n ELSE tree[q]]
    BY Zenon, <2>0
  <2>2. Without(p) \subseteq DOMAIN tree /\ Known(n)
    BY Zenon, <1>n, <2>1 DEF Without
  <2> QED BY Zenon, <1>2, <2>1, <2>2
<1>4. CASE HostRemoves
  <2>1. PICK p \in DOMAIN tree \ {<<>>} : tree' = [q \in Without(p) |-> tree[q]]
    BY Zenon, <1>4 DEF HostRemoves, HostChange
  <2>2. Without(p) \subseteq DOMAIN tree
    BY Zenon DEF Without
  <2> QED BY Zenon, <1>2, <2>1, <2>2
<1>5. CASE HostCreates
  <2>1. PICK p \in DOMAIN tree, n \in Unused(DOMAIN tree) :
          tree' = [q \in DOMAIN tree \cup {Append(p, "new")} |->
                     IF q = Append(p, "new") THEN n ELSE tree[q]]
    BY Zenon, <1>5 DEF HostCreates, HostChange
  <2> DEFINE new == Append(p, "new")
  <2>2. tree' = [q \in DOMAIN tree \cup {new} |-> IF q = new THEN n ELSE tree[q]]
    BY Zenon, <2>1
  <2> HIDE DEF new
  <2>3. Known(n)
    BY Zenon, <1>n, <2>1
  <2> QED BY Zenon, <1>2, <2>2, <2>3
<1>6. CASE Build
  BY Zenon, <1>1, <1>6, BuildFrame DEF AdmitInv, StateInv
<1>7. CASE OpenRoot \/ MakeScratch \/ AdmissionFails \/ UNCHANGED vars
  BY Zenon, <1>1, <1>7 DEF OpenRoot, MakeScratch, AdmissionFails, vars
<1>8. CASE AdmitBinding
  BY <1>1, <1>8, Zenon DEF AdmitBinding
<1> QED BY Zenon, <1>3, <1>4, <1>5, <1>6, <1>7, <1>8 DEF Next, Build, Terminated

\* The inductive invariant of admit_isolated_resources and create_private_root,
\* for every request, root view and number of changes of the host.
THEOREM MountInvariant == Spec => []MountInv
<1>1. Init => MountInv
  <2> SUFFICES ASSUME Init PROVE MountInv
    BY Zenon
  <2>1. AdmitInv
    BY Zenon, AdmitInit
  <2>2. BuildInv
    <3>1. ~Rooted /\ phase = "start" /\ mounts = <<>> /\ AdmittedIsRealizable
      BY Zenon DEF Init, Rooted, AdmittedIsRealizable
    <3>2. TableInv
      BY Zenon, <3>1 DEF TableInv
    <3>3. ViewInv
      BY Zenon, <3>1 DEF ViewInv, Overlaid, Attached
    <3> QED BY Zenon, <3>1, <3>2, <3>3 DEF BuildInv
  <2>3. TreeInv
    BY Zenon DEF Init, TreeInv
  <2> QED BY Zenon, <2>1, <2>2, <2>3 DEF MountInv, AdmitInv, BuildInv
<1>2. MountInv /\ [Next]_vars => MountInv'
  <2> SUFFICES ASSUME MountInv, [Next]_vars PROVE MountInv'
    BY Zenon
  <2>1. AdmitInv /\ BuildInv /\ TreeInv
    BY Zenon DEF MountInv, AdmitInv, BuildInv
  <2>2. AdmitInv' /\ BuildInv' /\ TreeInv'
    BY Zenon, <2>1, AdmitStep, BuildStep, TreeStep
  <2> QED BY Zenon, <2>2 DEF MountInv, AdmitInv, BuildInv
<1> QED BY <1>1, <1>2, PTL DEF Spec

(***************************************************************************)
(* What the invariant is for.                                              *)
(***************************************************************************)
\* When the child enters the view everything is overlaid, attached and sealed.
LEMMA WhenReady ==
    ASSUME MountInv, verdict = "ready"
    PROVE  /\ AdmitInv /\ TableInv /\ ViewInv /\ Rooted
           /\ Overlaid = DOMAIN namespaces /\ IsSealed = DOMAIN namespaces
           /\ Attached = DOMAIN admitted /\ DOMAIN admitted = DOMAIN request
           /\ \A i \in DOMAIN request :
                /\ admitted[i].at = request[i].at /\ admitted[i].access = request[i].access
                /\ admitted[i].source = HostInode[request[i].host]
                /\ admitted[i].synthetic <=> request[i].role \in InputRoles
<1>1. AdmitInv /\ TableInv /\ ViewInv /\ Rooted /\ phase = "done"
  BY Zenon DEF MountInv, AdmitInv, StateInv, Rooted
<1>2. /\ Overlaid = DOMAIN namespaces /\ IsSealed = DOMAIN namespaces
      /\ Attached = DOMAIN admitted
  BY Zenon, <1>1 DEF Overlaid, IsSealed, Attached
<1>3. DOMAIN admitted = DOMAIN request
  BY Zenon, <1>1, PointsAre, RequestIs DEF AdmitInv, StateInv
<1>4. \A i \in DOMAIN admitted :
        /\ admitted[i].at = request[i].at /\ admitted[i].access = request[i].access
        /\ admitted[i].source = HostInode[request[i].host]
        /\ admitted[i].synthetic <=> request[i].role \in InputRoles
  BY Zenon, <1>1 DEF AdmitInv, AdmissionInv
<1> QED BY Zenon, <1>1, <1>2, <1>3, <1>4

\* A namespace has the names of the inputs under it and no other.
LEMMA NamesAreInputs ==
    ASSUME MountInv, verdict = "ready", NEW j \in DOMAIN namespaces
    PROVE  namespaces[j].children =
             {FileName(c.at) : c \in {d \in Requested : /\ d.role \in InputRoles
                                                    /\ Parent(d.at) = namespaces[j].at}}
<1> DEFINE inputs == {d \in Requested : d.role \in InputRoles /\ Parent(d.at) = namespaces[j].at}
           names == {FileName(c.at) : c \in inputs}
<1>1. /\ AdmitInv /\ DOMAIN admitted = DOMAIN request
      /\ \A i \in DOMAIN request :
           /\ admitted[i].at = request[i].at
           /\ admitted[i].synthetic <=> request[i].role \in InputRoles
  BY Zenon, WhenReady
<1>2. ASSUME NEW c \in namespaces[j].children PROVE c \in names
  <2>1. PICK k \in DOMAIN admitted : /\ admitted[k].synthetic
                                     /\ admitted[k].at = Append(namespaces[j].at, c)
                                     /\ Parent(admitted[k].at) = namespaces[j].at
    BY <1>1, ChildIsPoint
  <2>2. FileName(admitted[k].at) = c
    BY <1>1, <2>1, PointsAre, ParentAppend
  <2>3. request[k] \in Requested
    BY Zenon, <1>1 DEF Requested
  <2>4. request[k] \in inputs
    BY Zenon, <1>1, <2>1, <2>3
  <2> QED BY Zenon, <1>1, <2>2, <2>4
<1>3. ASSUME NEW d \in inputs PROVE FileName(d.at) \in namespaces[j].children
  <2>1. PICK k \in DOMAIN request : d = request[k]
    BY Zenon DEF Requested
  <2>2. admitted[k].synthetic /\ admitted[k].at = d.at /\ k \in DOMAIN admitted
    BY Zenon, <1>1, <2>1
  <2>3. PICK i \in DOMAIN namespaces : /\ namespaces[i].at = Parent(d.at)
                                       /\ FileName(d.at) \in namespaces[i].children
    BY <1>1, <2>2 DEF AdmitInv, NamespaceInv
  <2>4. i = j
    BY <1>1, <2>3 DEF AdmitInv, NamespaceInv
  <2> QED BY Zenon, <2>3, <2>4
<1> QED BY Zenon, <1>2, <1>3

\* The view that a child enters is the requested one: create_private_root shows every
\* resource, namespace and /dev where it was asked for, with its access.
THEOREM ViewAlwaysExact == Spec => []ViewIsExact
<1>1. MountInv => ViewIsExact
  <2> SUFFICES ASSUME MountInv, verdict = "ready"
               PROVE  /\ \A b \in Requested :
                           /\ Reached(b.at) # 0
                           /\ LET m == mounts[Reached(b.at)] IN
                              m.kind = "bind" /\ m.source = HostInode[b.host]
                                              /\ m.access = b.access
                           /\ b.role \in InputRoles =>
                                LET n == mounts[Reached(Parent(b.at))] IN
                                /\ n.kind = "namespace" /\ n.access = "read_only"
                                /\ n.children = {FileName(c.at) : c \in
                                     {d \in Requested : /\ d.role \in InputRoles
                                                        /\ Parent(d.at) = Parent(b.at)}}
                      /\ mounts[Reached(Dev)].kind = "dev"
                      /\ mounts[1].access = "read_only"
    BY Zenon DEF ViewIsExact
  <2>1. /\ AdmitInv /\ TableInv /\ ViewInv /\ Rooted
        /\ Overlaid = DOMAIN namespaces /\ IsSealed = DOMAIN namespaces
        /\ Attached = DOMAIN admitted /\ DOMAIN admitted = DOMAIN request
        /\ \A i \in DOMAIN request :
             /\ admitted[i].at = request[i].at /\ admitted[i].access = request[i].access
             /\ admitted[i].source = HostInode[request[i].host]
             /\ admitted[i].synthetic <=> request[i].role \in InputRoles
    BY Zenon, WhenReady
  <2>2. mounts[Reached(Dev)].kind = "dev" /\ mounts[1].access = "read_only"
    BY Zenon, <2>1 DEF TableInv
  <2>3. ASSUME NEW b \in Requested
        PROVE  /\ Reached(b.at) # 0
               /\ mounts[Reached(b.at)].kind = "bind"
               /\ mounts[Reached(b.at)].source = HostInode[b.host]
               /\ mounts[Reached(b.at)].access = b.access
    <3>1. PICK i \in DOMAIN request : b = request[i]
      BY Zenon DEF Requested
    <3>2. i \in Attached
      BY Zenon, <2>1
    <3> QED BY <2>1, <3>1, <3>2 DEF ViewInv
  <2>4. ASSUME NEW b \in Requested, b.role \in InputRoles
        PROVE  /\ mounts[Reached(Parent(b.at))].kind = "namespace"
               /\ mounts[Reached(Parent(b.at))].access = "read_only"
               /\ mounts[Reached(Parent(b.at))].children = {FileName(c.at) : c \in
                    {d \in Requested : /\ d.role \in InputRoles
                                       /\ Parent(d.at) = Parent(b.at)}}
    <3>1. PICK i \in DOMAIN request : b = request[i]
      BY Zenon DEF Requested
    <3>2. i \in Attached /\ admitted[i].synthetic /\ admitted[i].at = b.at
      BY Zenon, <2>1, <2>4, <3>1
    <3>3. Reached(Parent(b.at)) # 0
      BY <2>1, <3>2 DEF ViewInv
    <3>4. PICK j \in DOMAIN namespaces : namespaces[j].at = Parent(b.at)
      BY <2>1, <3>2 DEF AdmitInv, NamespaceInv
    <3>5. j \in Overlaid /\ j \in IsSealed
      BY Zenon, <2>1
    <3>6. /\ mounts[Reached(Parent(b.at))].kind = "namespace"
          /\ mounts[Reached(Parent(b.at))].access = "read_only"
          /\ mounts[Reached(Parent(b.at))].children = namespaces[j].children
      BY <2>1, <3>3, <3>4, <3>5 DEF ViewInv
    <3>7. namespaces[j].children = {FileName(c.at) : c \in
             {d \in Requested : /\ d.role \in InputRoles /\ Parent(d.at) = Parent(b.at)}}
      BY Zenon, <3>4, NamesAreInputs
    <3> QED BY Zenon, <3>6, <3>7
  <2> QED BY Zenon, <2>2, <2>3, <2>4
<1> QED BY <1>1, MountInvariant, PTL

\* A child does not enter a view in which a place that admit_isolated_resources
\* looked at has no directory, or one with another number: same_inode refuses it
\* (mount_isolation.cpp:105-115, 701-731).
THEOREM AdmittedInodesAlwaysHold == Spec => []AdmittedInodesHold
<1>1. MountInv => AdmittedInodesHold
  <2> SUFFICES ASSUME MountInv, verdict = "ready"
               PROVE  /\ \A i \in DOMAIN admitted :
                           ~admitted[i].synthetic =>
                             /\ admitted[i].at \in DOMAIN tree
                             /\ admitted[i].target = tree[admitted[i].at]
                      /\ \A i \in DOMAIN namespaces :
                           /\ namespaces[i].at \in DOMAIN tree
                           /\ namespaces[i].target = tree[namespaces[i].at]
    BY Zenon DEF AdmittedInodesHold
  <2>1. ViewInv /\ Overlaid = DOMAIN namespaces /\ Attached = DOMAIN admitted
    BY Zenon, WhenReady
  <2> QED BY Zenon, <2>1 DEF ViewInv
<1> QED BY <1>1, MountInvariant, PTL

\* What admit_isolated_resources accepts, create_private_root can build, unless a
\* system call fails, the host changes the root view or it has no /dev.
THEOREM AdmittedAlwaysRealizable == Spec => []AdmittedIsRealizable
<1>1. MountInv => AdmittedIsRealizable
  BY Zenon DEF MountInv
<1> QED BY <1>1, MountInvariant, PTL

\* On a quiet host the loop of admit_isolated_resources, which compares a binding with
\* the ones before it, decides what does not depend on their order.
THEOREM AdmissionAlwaysOrderFree == Spec => []AdmissionIsOrderFree
<1>1. MountInv => AdmissionIsOrderFree
  <2> SUFFICES ASSUME MountInv, changes = 0, ~faulted
               PROVE  /\ phase = "admitted" => Admissible
                      /\ verdict = "rejected" => ~Admissible
    BY Zenon DEF AdmissionIsOrderFree
  <2>1. StateInv /\ AdmissionInv /\ QuietInv /\ AdmitInv
    BY Zenon DEF MountInv, AdmitInv
  <2>2. verdict = "rejected" => ~Admissible
    BY Zenon, <2>1 DEF QuietInv
  <2>3. ASSUME phase = "admitted" PROVE Admissible
    <3>1. DOMAIN admitted = DOMAIN request
      BY Zenon, <2>1, <2>3, PointsAre, RequestIs DEF StateInv, Bare
    <3>2. root_path # <<>>
      BY Zenon, <2>1, <2>3 DEF AdmissionInv
    <3>3. ASSUME NEW b \in Requested
          PROVE  /\ RoleAccess(b) /\ Destination(b) /\ b.at # <<>> /\ b.at[1] # "dev"
                 /\ ~Overlap(root_path, b.host)
      <4>1. PICK i \in DOMAIN admitted : b = request[i]
        BY Zenon, <3>1 DEF Requested
      <4>2. /\ RoleAccess(b) /\ b.at # <<>> /\ ~PathContains(Dev, b.at)
            /\ ~Overlap(root_path, b.host) /\ admitted[i].at = b.at
        BY Zenon, <2>1, <4>1 DEF AdmissionInv
      <4>3. Destination(b)
        BY Zenon, <2>1, <4>1 DEF QuietInv
      <4>4. b.at \in Path
        BY Zenon, <2>1, <4>2, PointsAre
      <4>5. b.at[1] # "dev"
        BY Zenon, <4>2, <4>4, DevPath
      <4> QED BY Zenon, <4>2, <4>3, <4>5
    <3>4. \A i, j \in DOMAIN request :
            i # j => /\ ~PathContains(request[i].at, request[j].at)
                     /\ ~PathContains(request[i].host, request[j].host)
                     /\ HostInode[request[i].host] # HostInode[request[j].host]
      BY Zenon, <2>1, <3>1 DEF AdmissionInv
    <3> QED BY Zenon, <3>2, <3>3, <3>4 DEF Admissible
  <2> QED BY Zenon, <2>2, <2>3
<1> QED BY <1>1, MountInvariant, PTL

\* The host has no second name for a directory of the root view: a host path that
\* names one lies in the root view.
NoAlias == \A t \in Trees : \A q \in DOMAIN t : \A h \in DOMAIN HostInode :
             t[q] = HostInode[h] => \A r \in RootPaths : PathContains(r, h)

\* On such a host a resource is visible at its mount point only: the comparison of
\* host paths in admit_isolated_resources is enough.
THEOREM AlwaysExposedOnce ==
    ASSUME NoAlias
    PROVE  Spec => []ExposedOnce
<1>1. MountInv => ExposedOnce
  <2> SUFFICES ASSUME MountInv, verdict = "ready", NEW b \in Requested, NEW p \in DOMAIN tree,
                      Reached(p) # 0, InodeAt(p) = HostInode[b.host]
               PROVE  p = b.at
    BY Zenon DEF ExposedOnce
  <2>1. /\ AdmitInv /\ TableInv /\ Rooted /\ DOMAIN admitted = DOMAIN request
        /\ Attached = DOMAIN admitted
        /\ \A i \in DOMAIN request :
             /\ admitted[i].at = request[i].at
             /\ admitted[i].source = HostInode[request[i].host]
    BY Zenon, WhenReady
  <2>2. PICK i \in DOMAIN request : b = request[i]
    BY Zenon DEF Requested
  <2>3. b.host \in DOMAIN HostInode /\ HostInode[b.host] \in 1..99 /\ p \in Path
        /\ root_path \in RootPaths
    BY Zenon, <2>1, <2>2, RequestIs DEF AdmitInv, StateInv, IsTree
  <2> DEFINE m == Reached(p)
  <2>4. IsRooted(mounts) /\ DOMAIN mounts = 1..Len(mounts)
    BY Zenon, <2>1, RootedTable
  <2>5. m \in 1..Len(mounts) /\ (mounts[m].kind = "bind" => p = mounts[m].at)
    BY Zenon, <2>3, <2>4, ReachedOnPath DEF Reached
  <2>6. InodeIn(mounts[m], p) = HostInode[b.host]
    BY Zenon DEF InodeAt
  <2> HIDE DEF m
  <2>7. CASE m = 1
    <3>1. tree[p] = HostInode[b.host]
      BY Zenon, <2>4, <2>5, <2>6, <2>7 DEF IsRooted, InodeIn
    <3>2. PICK t \in Trees : \E q \in DOMAIN t : t[q] = HostInode[b.host]
      <4>1. tree[p] >= 100 \/ \E t \in Trees : \E q \in DOMAIN t : t[q] = tree[p]
        BY Zenon DEF MountInv, TreeInv
      <4>2. ~(HostInode[b.host] >= 100)
        BY <2>3
      <4> QED BY <3>1, <4>1, <4>2, Zenon
    <3>3. PathContains(root_path, b.host)
      BY Zenon, <2>3, <3>2 DEF NoAlias
    <3>4. ~Overlap(root_path, b.host)
      BY Zenon, <2>1, <2>2 DEF AdmitInv, AdmissionInv
    <3> QED BY Zenon, <3>3, <3>4 DEF Overlap
  <2>8. CASE m # 1
    <3>1. \/ mounts[m].kind = "dev" /\ mounts[m].source = 0
          \/ mounts[m].kind = "namespace" /\ mounts[m].source = 0
          \/ /\ mounts[m].kind = "bind"
             /\ \E k \in Attached : /\ mounts[m].at = admitted[k].at
                                    /\ mounts[m].source = admitted[k].source
      <4>1. m \in DOMAIN mounts \ {1}
        BY Zenon, <2>4, <2>5, <2>8
      <4> QED BY Zenon, <2>1, <4>1 DEF TableInv
    <3>2. mounts[m].source = HostInode[b.host] /\ mounts[m].kind = "bind"
      BY <2>3, <2>6, <3>1 DEF InodeIn
    <3>3. PICK k \in Attached : /\ mounts[m].at = admitted[k].at
                                /\ mounts[m].source = admitted[k].source
      BY Zenon, <3>1, <3>2
    <3>4. k = i
      <4>1. k \in DOMAIN admitted /\ i \in DOMAIN admitted /\ k \in DOMAIN request
        BY Zenon, <2>1
      <4>2. HostInode[request[k].host] = HostInode[request[i].host]
        BY Zenon, <2>1, <2>2, <3>2, <3>3, <4>1
      <4>3. AdmissionInv
        BY Zenon, <2>1 DEF AdmitInv
      <4> QED BY Zenon, <4>1, <4>2, <4>3 DEF AdmissionInv
    <3> QED BY Zenon, <2>1, <2>2, <2>5, <3>2, <3>3, <3>4
  <2> QED BY Zenon, <2>7, <2>8
<1> QED BY <1>1, MountInvariant, PTL
=============================================================================
