--------------------------- MODULE MountIsolation ---------------------------
(***************************************************************************)
(* The private filesystem view of an isolated execution: the parent admits *)
(* the root view and the resource directories (admit_isolated_resources),  *)
(* and later the child builds the view from the admitted descriptors       *)
(* (create_private_root).  Between the two the host may change the         *)
(* directories of the root view.                                           *)
(*                                                                         *)
(* A path is the sequence of its components.  A directory is its inode; a  *)
(* descriptor stands for the inode it was opened on.                       *)
(***************************************************************************)
EXTENDS Naturals, Sequences, FiniteSetsExt

CONSTANTS
    Names,          \* the components of paths
    Requests,       \* sequences of bindings: role, access, at (the mount
                    \* point) and host (the path of its materialization)
    Trees,          \* root views: functions from directory paths to inodes
    RootPaths,      \* host paths of the root view
    HostInode,      \* the directory each host path names
    MountFaults,    \* the setup stages that may fail by themselves
    MaxChanges      \* bound on the changes the host makes

Dev == <<"dev">>

Path == Seq(Names)

\* path::parent_path and path::filename
Parent(p)   == SubSeq(p, 1, Len(p) - 1)
FileName(p) == p[Len(p)]

InputRoles    == {"build_input_tree", "check_input_tree"}
ReadOnlyRoles == InputRoles \cup {"source_tree", "package_tree"}
WritableRoles == {"build_workspace", "package_output_root",
                  "private_temporary_root", "managed_target_root"}

\* A role that validate_role_access has no rule for is an other one.
Roles    == ReadOnlyRoles \cup WritableRoles \cup {"other"}
Accesses == {"read_only", "writable"}

Binding == [role : Roles, access : Accesses, at : Path, host : DOMAIN HostInode]

\* Every directory is in a directory.  No inode has the number 0, which stands for
\* the directories of the backend's own filesystems.
IsTree(t) ==
    /\ t \in [DOMAIN t -> Nat \ {0}]
    /\ DOMAIN t \subseteq Path
    /\ <<>> \in DOMAIN t
    /\ \A p \in DOMAIN t \ {<<>>} : Parent(p) \in DOMAIN t

\* Numbers from 100 on are those of directories that are made later.
ASSUME MountAssumption ==
    /\ MaxChanges \in Nat
    /\ {"dev", "new", "null"} \subseteq Names
    /\ HostInode \in [DOMAIN HostInode -> 1..99]
    /\ DOMAIN HostInode \subseteq Path
    /\ RootPaths \subseteq Path
    /\ Requests \subseteq Seq(Binding)
    /\ \A t \in Trees : IsTree(t)

VARIABLES
    request, root_path, tree,
    phase,          \* start, admission, admitted, then the steps of the child
    next,           \* index of the binding or namespace that is next
    admitted,       \* isolated_admission::bindings
    namespaces,     \* isolated_admission::namespaces
    verdict,        \* rejected, failed (setup returned false) or ready
    stage,          \* mount_setup_stage of the failure
    mounts,         \* the mount table under the scratch root, oldest first
    changes,        \* host changes so far
    faulted         \* history: a stage failed by itself

\* What only the request and the admission decide.
given == <<request, root_path>>

vars == <<given, tree, phase, next, admitted, namespaces, verdict, stage,
          mounts, changes, faulted>>

(***************************************************************************)
(* Admission.                                                              *)
(***************************************************************************)
\* path_contains on normal paths.
PathContains(parent, child) ==
    /\ Len(parent) <= Len(child)
    /\ \A i \in 1..Len(parent) : parent[i] = child[i]

Overlap(p, q) == PathContains(p, q) \/ PathContains(q, p)

\* validate_role_access
RoleAccess(b) == /\ b.role \in ReadOnlyRoles => b.access = "read_only"
                 /\ b.role \in WritableRoles => b.access = "writable"

DirectoryIsEmpty(p) ==
    \A q \in DOMAIN tree : q = p \/ ~PathContains(p, q)

\* What one turn of the admission loop asks of a binding by itself.  The
\* destination of an input is created in a private namespace over its parent,
\* every other destination must exist in the root view.
Destination(b) ==
    IF b.role \in InputRoles
      THEN /\ Len(b.at) > 1
           /\ Parent(b.at) \in DOMAIN tree
           /\ DirectoryIsEmpty(Parent(b.at))
      ELSE b.at \in DOMAIN tree

\* Faulty: only the paths before this one are asked whether they contain it.
Separate_OneWay(b, earlier) ==
    \A e \in earlier : /\ ~PathContains(e.at, b.at)
                       /\ ~PathContains(e.host, b.host)
                       /\ HostInode[e.host] # HostInode[b.host]

\* Against the bindings before it.
Separate(b, earlier) ==
    \A e \in earlier : /\ ~Overlap(e.at, b.at)
                       /\ ~Overlap(e.host, b.host)
                       /\ HostInode[e.host] # HostInode[b.host]

\* Faulty: a host path may lie inside the root view.
Acceptable_InsideRoot(b, earlier) ==
    /\ RoleAccess(b)
    /\ b.at # <<>> /\ ~PathContains(Dev, b.at)
    /\ Separate(b, earlier)
    /\ Destination(b)

Acceptable(b, earlier) ==
    /\ RoleAccess(b)
    /\ b.at # <<>> /\ ~PathContains(Dev, b.at)
    /\ ~Overlap(root_path, b.host)
    /\ Separate(b, earlier)
    /\ Destination(b)

\* Faulty: a second input under the same parent replaces the first.
EnterNamespace_Replaces(b) ==
    LET parent == Parent(b.at)
        others == SelectSeq(namespaces, LAMBDA n : n.at # parent)
    IN Append(others, [at |-> parent, target |-> tree[parent],
                       children |-> {FileName(b.at)}])

\* The namespace list with the parent of an input entered into it.
EnterNamespace(b) ==
    LET parent == Parent(b.at)
        found  == {i \in DOMAIN namespaces : namespaces[i].at = parent}
    IN IF found = {}
         THEN Append(namespaces, [at |-> parent, target |-> tree[parent],
                                  children |-> {FileName(b.at)}])
         ELSE [i \in DOMAIN namespaces |->
                 IF i \in found
                   THEN [namespaces[i] EXCEPT !.children = @ \cup {FileName(b.at)}]
                   ELSE namespaces[i]]

\* "root input namespace changed during admission"
SameNamespace(b) ==
    \A i \in DOMAIN namespaces :
        namespaces[i].at = Parent(b.at) =>
            namespaces[i].target = tree[Parent(b.at)]

\* The root view cannot be the host's root; its descriptor is opened once.
OpenRoot ==
    /\ phase = "start"
    /\ IF root_path = <<>> THEN phase' = "done" /\ verdict' = "rejected"
                           ELSE phase' = "admission" /\ UNCHANGED verdict
    /\ UNCHANGED <<given, tree, next, admitted, namespaces, stage, mounts,
                   changes, faulted>>

AdmitBinding ==
    /\ phase = "admission" /\ next <= Len(request)
    /\ LET b == request[next]
           earlier == {request[i] : i \in 1..(next - 1)}
           input == b.role \in InputRoles
       IN IF Acceptable(b, earlier) /\ (input => SameNamespace(b))
            THEN /\ admitted' = Append(admitted,
                       [source |-> HostInode[b.host], access |-> b.access,
                        at |-> b.at, synthetic |-> input,
                        target |-> IF input THEN 0 ELSE tree[b.at]])
                 /\ namespaces' = IF input THEN EnterNamespace(b)
                                           ELSE namespaces
                 /\ next' = next + 1
                 /\ UNCHANGED <<phase, verdict>>
            ELSE /\ phase' = "done" /\ verdict' = "rejected"
                 /\ UNCHANGED <<admitted, namespaces, next>>
    /\ UNCHANGED <<given, tree, stage, mounts, changes, faulted>>

\* make_scratch, the last step of the admission.
MakeScratch ==
    /\ phase = "admission" /\ next > Len(request)
    /\ phase' = "admitted"
    /\ UNCHANGED <<given, tree, next, admitted, namespaces, verdict, stage,
                   mounts, changes, faulted>>

\* An exception of the admission: open, stat or mkdtemp fails, a directory is
\* not writable.
AdmissionFails ==
    /\ phase \in {"start", "admission"} /\ "admission" \in MountFaults
    /\ phase' = "done" /\ verdict' = "rejected" /\ faulted' = TRUE
    /\ UNCHANGED <<given, tree, next, admitted, namespaces, stage, mounts,
                   changes>>

(***************************************************************************)
(* The host, until the child starts to build the view.                     *)
(***************************************************************************)
HostChange(newTree) ==
    /\ phase \in {"start", "admission", "admitted"} /\ changes < MaxChanges
    /\ tree' = newTree
    /\ changes' = changes + 1
    /\ UNCHANGED <<given, phase, next, admitted, namespaces, verdict, stage,
                   mounts, faulted>>

Without(p) == {q \in DOMAIN tree : ~PathContains(p, q)}

\* The numbers a new directory may be given when dirs remain: one that no directory
\* had, or one of a directory that is removed.
Unused(dirs) ==
    ({100 + changes} \cup {tree[q] : q \in DOMAIN tree}) \ {tree[q] : q \in dirs}

\* A directory is replaced by another, empty one, which may have been made after
\* its removal and have its number.
HostReplaces ==
    \E p \in DOMAIN tree \ {<<>>} : \E n \in Unused(Without(p)) :
        HostChange([q \in Without(p) \cup {p} |->
                      IF q = p THEN n ELSE tree[q]])

HostRemoves ==
    \E p \in DOMAIN tree \ {<<>>} : HostChange([q \in Without(p) |-> tree[q]])

HostCreates ==
    \E p \in DOMAIN tree : \E n \in Unused(DOMAIN tree) :
        LET new == Append(p, "new") IN
        /\ new \notin DOMAIN tree
        /\ HostChange([q \in DOMAIN tree \cup {new} |->
                         IF q = new THEN n ELSE tree[q]])

(***************************************************************************)
(* The mount table.  A mount covers the directory it was attached to;      *)
(* base is the mount that directory belongs to.                            *)
(***************************************************************************)
\* The directory p belongs to mount m; dirs are the directories of the root view.
Holds(dirs, table, m, p) ==
    LET mount == table[m] IN
    \/ mount.kind = "root" /\ p \in dirs
    \/ mount.kind = "namespace" /\ \E c \in mount.children : p = Append(mount.at, c)
    \/ mount.kind # "root" /\ p = mount.at

Covering(table, m, p) ==
    {i \in DOMAIN table : table[i].base = m /\ table[i].at = p}

\* The mount in which the lookup of p ends that has come to mount m, or 0.
Entered(dirs, table, m, p) ==
    IF m = 0 \/ ~Holds(dirs, table, m, p) THEN 0
    ELSE Max({m} \cup Covering(table, m, p))

\* The mounts that the lookup of a path passes, component by component.
Walk(dirs, table, p) ==
    LET walk[k \in 0..Len(p)] ==
          Entered(dirs, table, IF k = 0 THEN 1 ELSE walk[k - 1], SubSeq(p, 1, k))
    IN walk

\* The mount in which a path of the view ends, or 0 when it does not exist.
ReachedIn(dirs, table, p) == Walk(dirs, table, p)[Len(p)]

Reached(p) == ReachedIn(DOMAIN tree, mounts, p)

\* The directory a path of the view names when it ends in mount m; 0 for one of
\* the backend's own.
InodeIn(mount, p) == IF mount.kind = "root" THEN tree[p] ELSE mount.source

InodeAt(p) == InodeIn(mounts[Reached(p)], p)

\* A mount on what the path names now.
Mounted(p, mount) ==
    LET base == IF p = <<>> THEN 0
                ELSE Reached(Parent(p))
    IN Append(mounts, [base |-> base, at |-> p, kind |-> mount.kind,
                       source |-> mount.source, access |-> mount.access,
                       children |-> mount.children])

Tmpfs(kind, children) == [kind |-> kind, source |-> 0, access |-> "writable",
                          children |-> children]

(***************************************************************************)
(* create_private_root.                                                    *)
(***************************************************************************)
Fail(at) == /\ phase' = "done" /\ verdict' = "failed" /\ stage' = at
            /\ UNCHANGED next

Step(at) == /\ phase = at
            /\ UNCHANGED <<given, tree, admitted, namespaces, changes>>

Goto(label) == /\ phase' = label /\ next' = 1
               /\ UNCHANGED <<verdict, stage>>

\* The stage a failing system call of each step is reported as.
StageOf == [clone_root     |-> "root_tree",
            clone_bindings |-> "resource_tree",
            unshare        |-> "mount_namespace",
            private        |-> "private_propagation",
            scratch        |-> "scratch_mount",
            root           |-> "root_tree",
            dev            |-> "device_filesystem",
            overlay        |-> "input_namespace",
            attach         |-> "resource_tree",
            seal           |-> "input_namespace",
            enter          |-> "root_entry"]

SetupFails ==
    \E at \in DOMAIN StageOf :
        /\ Step(at)
        /\ StageOf[at] \in MountFaults
        /\ Fail(StageOf[at]) /\ UNCHANGED mounts
        /\ faulted' = TRUE

\* The child starts: fork, and setup_isolated_filesystem is called.
StartChild ==
    /\ Step("admitted")
    /\ Goto("clone_root")
    /\ UNCHANGED <<mounts, faulted>>

\* clone_tree and seal_tree, on the root's descriptor of the admission.
CloneRoot ==
    /\ Step("clone_root")
    /\ Goto("clone_bindings")
    /\ UNCHANGED <<mounts, faulted>>

\* The same on the source descriptor of every binding.
CloneBindings ==
    /\ Step("clone_bindings")
    /\ Goto("unshare")
    /\ UNCHANGED <<mounts, faulted>>

Unshare ==
    /\ Step("unshare")
    /\ Goto("private")
    /\ UNCHANGED <<mounts, faulted>>

MakePrivate ==
    /\ Step("private")
    /\ Goto("scratch")
    /\ UNCHANGED <<mounts, faulted>>

MountScratch ==
    /\ Step("scratch")
    /\ Goto("root")
    /\ UNCHANGED <<mounts, faulted>>

AttachRoot ==
    /\ Step("root")
    /\ mounts' = Mounted(<<>>, [kind |-> "root", source |-> tree[<<>>],
                                access |-> "read_only", children |-> {}])
    /\ Goto("dev")
    /\ UNCHANGED faulted

MountDev ==
    /\ Step("dev")
    /\ IF Reached(Dev) = 0
         THEN Fail("device_filesystem") /\ UNCHANGED mounts
         ELSE /\ mounts' = Mounted(Dev, Tmpfs("dev", {"null"}))
              /\ Goto("overlay")
    /\ UNCHANGED faulted

\* Faulty: the identity of the directory is not compared.
StillThere_Exists(p, inode) == Reached(p) # 0

\* open_beneath and same_inode.
StillThere(p, inode) == Reached(p) # 0 /\ InodeAt(p) = inode

Onward(limit, label) ==
    /\ IF next < limit THEN next' = next + 1 /\ phase' = phase
                       ELSE next' = 1 /\ phase' = label
    /\ UNCHANGED <<verdict, stage>>

\* One turn of the first loop over the namespaces.
OverlayNamespace ==
    /\ Step("overlay")
    /\ IF namespaces = <<>> THEN Goto("attach") /\ UNCHANGED mounts
       ELSE LET n == namespaces[next] IN
         IF ~StillThere(n.at, n.target)
         THEN Fail("input_namespace") /\ UNCHANGED mounts
         ELSE /\ mounts' = Mounted(n.at, Tmpfs("namespace", n.children))
              /\ Onward(Len(namespaces), "attach")
    /\ UNCHANGED faulted

\* One turn of the loop over the bindings: open the destination, attach, look
\* at what the path shows now.
AttachBinding ==
    /\ Step("attach")
    /\ IF admitted = <<>> THEN Goto("seal") /\ UNCHANGED mounts
       ELSE LET b == admitted[next] IN
         IF \/ Reached(b.at) = 0
            \/ ~b.synthetic /\ ~StillThere(b.at, b.target)
         THEN Fail("resource_tree") /\ UNCHANGED mounts
         ELSE LET table == Mounted(b.at, [kind |-> "bind", access |-> b.access,
                                          source |-> b.source,
                                          children |-> {}])
                  shown == ReachedIn(DOMAIN tree, table, b.at)
              IN /\ mounts' = table
                 /\ IF shown # 0 /\ InodeIn(table[shown], b.at) = b.source
                      THEN Onward(Len(admitted), "seal")
                      ELSE Fail("resource_tree")
    /\ UNCHANGED faulted

\* Faulty: the descriptor of the root is sealed, not the namespace's.
Sealed_Root(m) == [mounts EXCEPT ![1].access = "read_only"]

\* seal_namespace_mount
Sealed(m) == [mounts EXCEPT ![m].access = "read_only"]

\* One turn of the second loop over the namespaces.
SealNamespace ==
    /\ Step("seal")
    /\ IF namespaces = <<>> THEN Goto("enter") /\ UNCHANGED mounts
       ELSE LET m == Reached(namespaces[next].at) IN
         IF m = 0 THEN Fail("input_namespace") /\ UNCHANGED mounts
         ELSE /\ mounts' = Sealed(m)
              /\ Onward(Len(namespaces), "enter")
    /\ UNCHANGED faulted

\* fchdir, chroot, chdir.
EnterRoot ==
    /\ Step("enter")
    /\ phase' = "done" /\ verdict' = "ready"
    /\ UNCHANGED <<next, stage, mounts, faulted>>

Terminated == phase = "done" /\ UNCHANGED vars

Init ==
    /\ request \in Requests /\ root_path \in RootPaths /\ tree \in Trees
    /\ phase = "start" /\ next = 1
    /\ admitted = <<>> /\ namespaces = <<>>
    /\ verdict = "none" /\ stage = "none"
    /\ mounts = <<>>
    /\ changes = 0 /\ faulted = FALSE

Next ==
    \/ OpenRoot \/ AdmitBinding \/ MakeScratch \/ AdmissionFails
    \/ HostReplaces \/ HostRemoves \/ HostCreates
    \/ SetupFails
    \/ StartChild \/ CloneRoot \/ CloneBindings
    \/ Unshare \/ MakePrivate \/ MountScratch \/ AttachRoot \/ MountDev
    \/ OverlayNamespace \/ AttachBinding \/ SealNamespace \/ EnterRoot
    \/ Terminated

Spec == Init /\ [][Next]_vars

(***************************************************************************)
(* Properties.                                                             *)
(***************************************************************************)
Requested == {request[i] : i \in DOMAIN request}

\* The view a child enters is the requested one: every resource is visible at
\* its mount point with its access, nothing later covers it; every input
\* namespace shows the requested names and no other and is read-only; /dev is
\* the backend's own; what remains of the root view is read-only.
ViewIsExact ==
    verdict = "ready" =>
      /\ \A b \in Requested :
           /\ Reached(b.at) # 0
           /\ LET m == mounts[Reached(b.at)] IN
              m.kind = "bind" /\ m.source = HostInode[b.host]
                              /\ m.access = b.access
           /\ b.role \in InputRoles =>
                LET n == mounts[Reached(Parent(b.at))] IN
                /\ n.kind = "namespace" /\ n.access = "read_only"
                /\ n.children = {FileName(c.at) : c \in
                     {d \in Requested : /\ d.role \in InputRoles
                                        /\ Parent(d.at) = Parent(b.at)}}
      /\ mounts[Reached(Dev)].kind = "dev"
      /\ mounts[1].access = "read_only"

\* When the child enters the view, every place that the admission looked at in the
\* root view has a directory with the device and inode number it had then.  This
\* is all that same_inode can tell: a replacement that was given the number of the
\* directory it replaces is taken for it.
AdmittedInodesHold ==
    verdict = "ready" =>
      /\ \A i \in DOMAIN admitted :
           ~admitted[i].synthetic =>
             /\ admitted[i].at \in DOMAIN tree
             /\ admitted[i].target = tree[admitted[i].at]
      /\ \A i \in DOMAIN namespaces :
           /\ namespaces[i].at \in DOMAIN tree
           /\ namespaces[i].target = tree[namespaces[i].at]

\* What is admitted can be realized: the child only fails when a system call
\* fails, the host has changed the root view, or the root view has no /dev.
AdmittedIsRealizable ==
    verdict = "failed" => faulted \/ changes > 0 \/ Dev \notin DOMAIN tree

\* A reference definition of an admissible request that does not depend on the
\* order of the bindings.
Admissible ==
    /\ root_path # <<>>
    /\ \A b \in Requested : /\ RoleAccess(b) /\ Destination(b)
                            /\ b.at # <<>> /\ b.at[1] # "dev"
                            /\ ~Overlap(root_path, b.host)
    /\ \A i, j \in DOMAIN request :
         i # j => LET a == request[i]
                      b == request[j]
                  IN /\ ~PathContains(a.at, b.at)
                     /\ ~PathContains(a.host, b.host)
                     /\ HostInode[a.host] # HostInode[b.host]

\* On a quiet host the admission loop, which compares each binding with the
\* ones before it, decides exactly that.
AdmissionIsOrderFree ==
    changes = 0 /\ ~faulted =>
      /\ phase = "admitted" => Admissible
      /\ verdict = "rejected" => ~Admissible

\* The directory of a resource is visible at its mount point only, not at a
\* path of the root view as well: the admission refuses host paths inside the
\* root view (and, by comparing paths, can only see those).
ExposedOnce ==
    verdict = "ready" =>
      \A b \in Requested : \A p \in DOMAIN tree :
        Reached(p) # 0 /\ InodeAt(p) = HostInode[b.host] => p = b.at

(***************************************************************************)
(* The inductive invariant.                                                *)
(***************************************************************************)
Bare == {"start", "admission", "admitted", "clone_root", "clone_bindings",
         "unshare", "private", "scratch", "root"}

\* What the child has done: the view has a root and /dev, the namespaces that are
\* overlaid, the bindings that are attached, the namespaces that are sealed.
Rooted   == phase \in {"overlay", "attach", "seal", "enter"} \/ verdict = "ready"
Overlaid == {i \in DOMAIN namespaces : Rooted /\ (phase = "overlay" => i < next)}
Attached == {i \in DOMAIN admitted :
               Rooted /\ phase # "overlay" /\ (phase = "attach" => i < next)}
IsSealed == {i \in DOMAIN namespaces :
               Rooted /\ phase \notin {"overlay", "attach"} /\ (phase = "seal" => i < next)}

AdmittedType  == [source : 1..99, access : Accesses, at : Path, synthetic : BOOLEAN,
                  target : Nat]
NamespaceType == [at : Path, target : Nat \ {0}, children : SUBSET Names]
MountType     == [base : Nat, at : Path, kind : {"root", "dev", "namespace", "bind"},
                  source : Nat, access : Accesses, children : SUBSET Names]

StateInv ==
    /\ request \in Requests /\ root_path \in RootPaths
    /\ IsTree(tree) /\ changes \in Nat
    /\ next \in Nat \ {0}
    /\ phase = "done" <=> verdict # "none"
    /\ admitted \in Seq(AdmittedType)
    /\ namespaces \in Seq(NamespaceType)
    /\ Len(admitted) <= Len(request)
    /\ phase \in (Bare \cup {"dev"}) \ {"start", "admission"} \/ Rooted
         => Len(admitted) = Len(request)

\* The numbers in the root view are those it can have begun with and new ones.
TreeInv ==
    \A p \in DOMAIN tree :
        tree[p] >= 100 \/ \E t \in Trees : \E q \in DOMAIN t : t[q] = tree[p]

\* What each admitted binding was asked, in whatever order they came.
AdmissionInv ==
    /\ phase = "start" => admitted = <<>> /\ namespaces = <<>>
    /\ phase \in {"start", "admission"} => next = Len(admitted) + 1
    /\ phase \in {"admission", "admitted"} => root_path # <<>>
    /\ \A i \in DOMAIN admitted :
         LET a == admitted[i]
             b == request[i]
         IN /\ a.at = b.at /\ a.access = b.access /\ a.source = HostInode[b.host]
            /\ a.synthetic = (b.role \in InputRoles)
            /\ RoleAccess(b) /\ b.at # <<>> /\ ~PathContains(Dev, b.at)
            /\ ~Overlap(root_path, b.host)
            /\ IF a.synthetic THEN Len(a.at) > 1 ELSE a.target # 0
    /\ \A i, j \in DOMAIN admitted :
         i # j => /\ ~PathContains(request[i].at, request[j].at)
                  /\ ~PathContains(request[i].host, request[j].host)
                  /\ HostInode[request[i].host] # HostInode[request[j].host]

\* There is one namespace for each parent of an input, with a name for each input.
NamespaceInv ==
    /\ \A i, j \in DOMAIN namespaces : i # j => namespaces[i].at # namespaces[j].at
    /\ \A i \in DOMAIN admitted :
         admitted[i].synthetic =>
           \E j \in DOMAIN namespaces : /\ namespaces[j].at = Parent(admitted[i].at)
                                        /\ FileName(admitted[i].at) \in namespaces[j].children
    /\ \A j \in DOMAIN namespaces :
         /\ namespaces[j].children # {}
         /\ \A c \in namespaces[j].children :
              \E i \in DOMAIN admitted : /\ admitted[i].synthetic
                                         /\ admitted[i].at = Append(namespaces[j].at, c)

\* On a host that changes nothing, what was looked at is still there.
QuietInv ==
    changes = 0 =>
      /\ \A i \in DOMAIN admitted :
           /\ Destination(request[i])
           /\ ~admitted[i].synthetic => admitted[i].target = tree[admitted[i].at]
      /\ \A i \in DOMAIN namespaces :
           /\ namespaces[i].at \in DOMAIN tree
           /\ DirectoryIsEmpty(namespaces[i].at)
           /\ namespaces[i].target = tree[namespaces[i].at]
      /\ verdict = "rejected" => faulted \/ ~Admissible

\* Every mount is the root, /dev, a namespace or a binding.
TableInv ==
    /\ phase \in Bare => mounts = <<>>
    /\ phase = "dev" => Len(mounts) = 1
    /\ phase \in {"overlay", "seal"} => next = 1 \/ next <= Len(namespaces)
    /\ phase = "attach" => next = 1 \/ next <= Len(admitted)
    /\ phase = "dev" \/ Rooted =>
         /\ mounts \in Seq(MountType)
         /\ mounts # <<>>
         /\ \A m \in DOMAIN mounts : mounts[m].kind = "root" <=> m = 1
         /\ mounts[1].at = <<>> /\ mounts[1].base = 0 /\ mounts[1].access = "read_only"
    /\ Rooted =>
         /\ Reached(Dev) # 0 /\ mounts[Reached(Dev)].kind = "dev"
         /\ \A m \in DOMAIN mounts \ {1} :
              \/ mounts[m].kind = "dev" /\ mounts[m].at = Dev /\ mounts[m].source = 0
              \/ /\ mounts[m].kind = "namespace" /\ mounts[m].source = 0
                 /\ \E i \in Overlaid : mounts[m].at = namespaces[i].at
              \/ /\ mounts[m].kind = "bind"
                 /\ \E i \in Attached : /\ mounts[m].at = admitted[i].at
                                         /\ mounts[m].source = admitted[i].source

\* What is overlaid shows its names or, where the host has since put a namespace
\* inside of another, nothing at all; what is attached is visible.
ViewInv ==
    /\ \A i \in Overlaid :
         LET n == namespaces[i]
             m == Reached(n.at)
         IN /\ n.at \in DOMAIN tree /\ n.target = tree[n.at]
            /\ changes = 0 => m # 0
            /\ m # 0 => /\ mounts[m].kind = "namespace" /\ mounts[m].at = n.at
                        /\ mounts[m].children = n.children
                        /\ i \in IsSealed => mounts[m].access = "read_only"
    /\ \A i \in Attached :
         LET a == admitted[i]
             m == Reached(a.at)
         IN /\ m # 0
            /\ mounts[m].kind = "bind" /\ mounts[m].source = a.source
            /\ mounts[m].access = a.access
            /\ IF a.synthetic THEN Reached(Parent(a.at)) # 0
               ELSE a.at \in DOMAIN tree /\ a.target = tree[a.at]

MountInv == /\ StateInv /\ TreeInv /\ AdmissionInv /\ NamespaceInv /\ QuietInv
            /\ TableInv /\ ViewInv /\ AdmittedIsRealizable
=============================================================================
