----------------------------- MODULE Namespace -----------------------------
(***************************************************************************)
(* File names: the archive that becomes the root directory                 *)
(* (src/filesystem/fs/tarfs), mount_fs, the device directory               *)
(* (src/filesystem/fs/devfs), vfs_find_vnode and vfs_stat, in the order in *)
(* which init_filesystem and register_devices call them.                   *)
(*                                                                         *)
(* A string is the sequence of what stands between its slashes: "/dev/fb0" *)
(* is <<"", "dev", "fb0">> and the archive's "bin/" is <<"bin", "">>.  All *)
(* names are shorter than the buffers they are copied to.                  *)
(***************************************************************************)
EXTENDS Integers, SequencesExt

CONSTANTS Archives,   \* possible contents: sequences of [name, size]
          ChildSlots, \* pointers in children and dev_children (64)
          FbSize,     \* bytes of the framebuffer
          Paths       \* paths that programs look up

Dev == <<"dev">>
Order == <<"fb0", "stdin", "stdout", "stderr">>   \* as register_devices calls
Devices == Range(Order)

\* The names between the slashes of a string; a header of the archive, whose name
\* is not empty.
Text == Seq(STRING) \ {<<>>}
Header == [name : Text \ {<<"">>}, size : Nat]

\* A boot archive leaves room for the mount point and the final NULL.
ASSUME ArchiveAssumption ==
  \A a \in Archives : a \in Seq(Header) /\ Len(a) + 2 <= ChildSlots
ASSUME SlotAssumption == ChildSlots \in Nat /\ Len(Order) < ChildSlots /\ FbSize \in Nat
ASSUME PathAssumption == Paths \subseteq Text

VARIABLES booted,       \* history: the whole archive
          archive,      \* headers tarfs_init has not read yet
          children,     \* the root directory
          dev_children, \* the device directory
          devSize,      \* dev_root_node.size
          pc,           \* how far init_filesystem and register_devices are
          found         \* the last call: its path, vnode and status

namespaceVars == <<booted, archive, children, dev_children, devSize, pc, found>>

\* A vnode: its name, size, operations, and what its internal points to.
\* Directories have no ops and point to an array of children.
Vnode(name, size, ops, internal) ==
  [name |-> name, size |-> size, ops |-> ops, internal |-> internal]
Root == Vnode(<<"", "">>, 0, "none", "children")
DevRoot == Vnode(Dev, 0, "none", "dev_children")
NULL == Vnode(<<>>, 0, "none", "nothing")
Wild == Vnode(<<>>, 0, "none", "wild")
IsDir(n) == n.ops = "none" /\ n.internal \in {"children", "dev_children"}

Nothing == [path |-> <<>>, node |-> NULL, stat |-> <<>>]

NamespaceInit ==
  /\ booted \in Archives /\ archive = booted
  /\ children = <<>> /\ dev_children = <<>> /\ devSize = 0
  /\ pc = "tarfs" /\ found = Nothing
-----------------------------------------------------------------------------
\* A leading "./" is dropped.
Unpacked(name) == IF name[1] = "." /\ Len(name) > 1 THEN Tail(name) ELSE name

\* One header: the empty name ends the archive.  Sizes are what oct2bin reads.
TarEntry ==
  /\ pc = "tarfs" /\ archive # <<>>
  /\ LET h == Head(archive) IN
     children' = Append(children, Vnode(Unpacked(h.name), h.size, "tar", "data"))
  /\ archive' = Tail(archive)
  /\ UNCHANGED <<booted, dev_children, devSize, pc, found>>

\* The end of tarfs_init, and devfs_init.
TarDone == /\ pc = "tarfs" /\ archive = <<>>
           /\ pc' = "mount"
           /\ dev_children' = <<>> /\ devSize' = 0
           /\ UNCHANGED <<booted, archive, children, found>>

\* mount_fs below the root: the child of that name is replaced, or one is added.
Mounted(dir, name, node) ==
  LET same == {i \in 1..Len(dir) : dir[i].name = name} IN
  CASE same # {} -> [dir EXCEPT ![Min(same)] = node]
    [] same = {} /\ Len(dir) < ChildSlots -> Append(dir, node)
    [] OTHER -> dir

MountDev == /\ pc = "mount"
            /\ children' = Mounted(children, Dev, DevRoot)
            /\ pc' = "devices"
            /\ UNCHANGED <<booted, archive, dev_children, devSize, found>>

OpsOf(name) == IF name = "fb0" THEN "fb" ELSE "std"
InternalOf(name) == IF name = "fb0" THEN "framebuffer" ELSE "nothing"
SizeOf(name) == IF name = "fb0" THEN FbSize ELSE 0
DeviceNode(name) == Vnode(<<name>>, SizeOf(name), OpsOf(name), InternalOf(name))

Counted(dir) == Len(dir)

\* devfs_register, and the size fb_device_init gives fb0.
devfs_register ==
  /\ pc = "devices" /\ Len(dev_children) < Len(Order)
  /\ dev_children' = Append(dev_children, DeviceNode(Order[Len(dev_children) + 1]))
  /\ devSize' = Counted(dev_children')
  /\ UNCHANGED <<booted, archive, children, pc, found>>

DevicesDone == /\ pc = "devices" /\ Len(dev_children) = Len(Order)
               /\ pc' = "run"
               /\ UNCHANGED <<booted, archive, children, dev_children, devSize, found>>
-----------------------------------------------------------------------------
ChildrenOf(n) == IF n.internal = "children" THEN children ELSE dev_children

\* The first child of that name.
Child(dir, name) ==
  LET same == {i \in 1..Len(dir) : dir[i].name = name} IN
  IF same = {} THEN NULL ELSE dir[Min(same)]

WithoutLeading(path) == IF path[1] = "" /\ Len(path) > 1 THEN Tail(path) ELSE path

WithoutTrailing(p) == IF Len(p) > 1 /\ p[Len(p)] = "" THEN Front(p) ELSE p

\* One component further down.  The children of a node with nothing behind it
\* are none; what is behind a file or the framebuffer is read as children.
Step(node, name) ==
  IF node \in {NULL, Wild} THEN node
  ELSE IF name = "" \/ node.internal = "nothing" THEN NULL
  ELSE IF IsDir(node) THEN Child(ChildrenOf(node), <<name>>) ELSE Wild

\* The nodes on the way down p, after n components.
Walked(p) == LET node[n \in Nat] == IF n = 0 THEN Root ELSE Step(node[n - 1], p[n]) IN node

\* The walk ends at the end of the string, also behind a slash.
Walk(p) == Walked(p)[IF p[Len(p)] = "" THEN Len(p) - 1 ELSE Len(p)]

\* Mutant: the root's children are not tried with the whole name.
find_by_components(path) == Walk(WithoutTrailing(WithoutLeading(path)))

\* vfs_find_vnode: the whole name among the root's children, else component by
\* component.
vfs_find_vnode(path) ==
  LET p == WithoutLeading(path)
      tmp == WithoutTrailing(p)
      direct == Child(children, tmp)
  IN IF p = <<"">> THEN Root ELSE IF direct # NULL THEN direct ELSE Walk(tmp)

\* Mutant: a directory reports the size of its vnode, like a file.
stat_by_size(n) ==
  [mode |-> IF IsDir(n) THEN "dir" ELSE IF n.ops = "fb" THEN "chr" ELSE "reg",
   size |-> IF n.internal = "dev_children" THEN devSize ELSE n.size]

\* vfs_stat: the kind of file and its size; of a directory, the entries.
vfs_stat(n) ==
  CASE IsDir(n) -> [mode |-> "dir", size |-> Len(ChildrenOf(n))]
    [] ~IsDir(n) /\ n.ops = "fb" -> [mode |-> "chr", size |-> n.size]
    [] OTHER -> [mode |-> "reg", size |-> n.size]

do_sys_stat(path) ==
  /\ pc = "run"
  /\ LET node == vfs_find_vnode(path) IN
     found' = [path |-> path, node |-> node,
               stat |-> IF node \in {NULL, Wild} THEN <<>> ELSE vfs_stat(node)]
  /\ UNCHANGED <<booted, archive, children, dev_children, devSize, pc>>

\* O_TRUNC sets the size of the vnode, the first one of its name, to 0.
Emptied(dir, node) ==
  [i \in DOMAIN dir |->
     IF i = Min({k \in DOMAIN dir : dir[k].name = node.name})
     THEN [dir[i] EXCEPT !.size = 0] ELSE dir[i]]

\* vfs_open for a process; the descriptor is Files'.
vfs_open(path, trunc) ==
  LET node == vfs_find_vnode(path) IN
  /\ pc = "run"
  /\ found' = [path |-> path, node |-> node, stat |-> <<>>]
  /\ children' = IF trunc /\ node.ops = "tar" THEN Emptied(children, node) ELSE children
  /\ dev_children' = IF trunc /\ node.ops \in {"fb", "std"}
                     THEN Emptied(dev_children, node) ELSE dev_children
  /\ devSize' = IF trunc /\ node = DevRoot THEN 0 ELSE devSize
  /\ UNCHANGED <<booted, archive, pc>>

NamespaceNext ==
  \/ TarEntry \/ TarDone \/ MountDev \/ devfs_register \/ DevicesDone
  \/ \E path \in Paths : do_sys_stat(path)
  \/ \E path \in Paths, trunc \in BOOLEAN : vfs_open(path, trunc)

NamespaceSpec == NamespaceInit /\ [][NamespaceNext]_namespaceVars
-----------------------------------------------------------------------------
\* What a list of names means: an entry of the archive, by its name in it; the
\* device directory; a device in it; the root.
InArchive(p) == {i \in 1..Len(booted) : booted[i].name \in {p, <<".">> \o p}}
Meant(p) ==
  CASE p = <<>> -> Root
    [] p = Dev -> DevRoot
    [] p \notin {<<>>, Dev} /\ InArchive(p) # {} ->
         Vnode(p, booted[Min(InArchive(p))].size, "tar", "data")
    [] Len(p) = 2 /\ p[1] = "dev" /\ p[2] \in Devices /\ InArchive(p) = {} ->
         DeviceNode(p[2])
    [] OTHER -> NULL

\* At most one slash in a row, and no ".", which the code does not resolve.
Plain(p) == /\ \A i \in 2..(Len(p) - 1) : p[i] # ""
            /\ \A i \in 1..Len(p) : p[i] # "."

\* The names in it.
Names(p) == SubSeq(p, IF p[1] = "" THEN 2 ELSE 1,
                   IF p[Len(p)] = "" THEN Len(p) - 1 ELSE Len(p))

\* After the boot, a lookup finds the vnode that the path's names mean, wherever
\* the archive has it, whatever was mounted over it and with or without a slash
\* at either end; entries of the archive win over devices of the same name.
\* Only O_TRUNC changes a size.  What a lookup that reads a file as a directory
\* yields (Wild) is undefined.
LookupExact ==
  found.path # <<>> /\ Plain(found.path) /\ found.node # Wild =>
    LET meant == Meant(Names(found.path)) IN
    found.node \in {meant, [meant EXCEPT !.size = 0]}

\* Whatever was truncated before, the status of the device directory counts
\* every device once and that of the root every entry of the archive, with one
\* more for the mount if it covers none; only the framebuffer is a character
\* device.
StatExact ==
  found.stat # <<>> =>
    /\ (found.stat.mode = "chr") = (found.node.internal = "framebuffer")
    /\ found.node = DevRoot => found.stat = [mode |-> "dir", size |-> Cardinality(Devices)]
    /\ found.node = Root =>
         found.stat = [mode |-> "dir",
                       size |-> Len(booted) + IF InArchive(Dev) = {} THEN 1 ELSE 0]
=============================================================================
