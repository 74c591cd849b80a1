------------------------------ MODULE TarExtract ------------------------------
(***************************************************************************)
(* extractTar of cmd/actions-runner-processor/image.go, entry by entry,    *)
(* with clearDir and dirHas, on a tree that is a function from paths to    *)
(* nodes.  A path is a sequence of names.                                  *)
(***************************************************************************)
EXTENDS Integers, Sequences, FiniteSets

CONSTANTS
  Rootfs,    \* the tree that the tarball was made of
  HardLinks  \* paths in it that are further names of a file

FileModes == [perm : 0..511, setuid : BOOLEAN, setgid : BOOLEAN, sticky : BOOLEAN]
Nodes ==
  [type : {"dir", "file", "link"}, owner : {"root", "runner"}, mode : FileModes]

Permissions(perm) == [perm |-> perm, setuid |-> FALSE, setgid |-> FALSE, sticky |-> FALSE]

Parents(path) == {SubSeq(path, 1, k) : k \in 1..Len(path) - 1}

\* A tree of Linux: a link is lrwxrwxrwx, and no directory has a further name.
ASSUME RootfsAssumption ==
  /\ HardLinks \subseteq DOMAIN Rootfs
  /\ \A p \in HardLinks : Rootfs[p].type # "dir"
  /\ \A p \in DOMAIN Rootfs :
       /\ Rootfs[p] \in Nodes
       /\ Rootfs[p].type = "link" => Rootfs[p].mode = Permissions(511)
       /\ \A q \in Parents(p) : q \in DOMAIN Rootfs /\ Rootfs[q].type = "dir"

-----------------------------------------------------------------------------
(* The tarball.                                                            *)

\* tar keeps the raw bits of a mode.
RawMode(mode) ==
  mode.perm + (IF mode.sticky THEN 512 ELSE 0) + (IF mode.setgid THEN 1024 ELSE 0)
            + (IF mode.setuid THEN 2048 ELSE 0)

Header(path) ==
  [name |-> path, owner |-> Rootfs[path].owner, mode |-> RawMode(Rootfs[path].mode),
   type |-> IF path \in HardLinks THEN "hard" ELSE Rootfs[path].type]

Archive == {Header(p) : p \in DOMAIN Rootfs}

-----------------------------------------------------------------------------
(* Calls on the file system.                                               *)

NewNode(type, perm) == [type |-> type, owner |-> "root", mode |-> Permissions(perm)]

\* The tree with a node at each of these paths; what exists is left alone.
With(tree, paths, node) ==
  [p \in DOMAIN tree \union paths |-> IF p \in DOMAIN tree THEN tree[p] ELSE node]

\* os.MkdirAll
CanMkdirAll(tree, path) ==
  \A p \in (Parents(path) \union {path}) \intersect DOMAIN tree : tree[p].type = "dir"
MkdirAll(tree, path, perm) ==
  With(tree, Parents(path) \union {path}, NewNode("dir", perm))

\* The parents of an entry that is no directory.
MkdirParents(tree, path) == With(tree, Parents(path), NewNode("dir", 493))
CanMkdirParents(tree, path) ==
  \A p \in Parents(path) \intersect DOMAIN tree : tree[p].type = "dir"

\* os.Chown takes the setuid and setgid bits from a file, root's call too.
Chown(node, owner) ==
  [node EXCEPT !.owner = owner,
               !.mode = IF node.type = "file"
                        THEN [@ EXCEPT !.setuid = FALSE, !.setgid = FALSE] ELSE @]
Chmod(node, mode) == [node EXCEPT !.mode = mode]

-----------------------------------------------------------------------------
(* extractTar.                                                             *)

\* Mutant: the raw bits are taken for an os.FileMode, which has others.
TarModeCast(m) == Permissions(m % 512)

TarModeToFileMode(m) ==
  [perm |-> m % 512, setuid |-> (m \div 2048) % 2 = 1,
   setgid |-> (m \div 1024) % 2 = 1, sticky |-> (m \div 512) % 2 = 1]

\* Mutant: the owner is set last.
ChmodThenChown(node, hdr) == Chown(Chmod(node, TarModeToFileMode(hdr.mode)), hdr.owner)

ApplyTarMeta(node, hdr) == Chmod(Chown(node, hdr.owner), TarModeToFileMode(hdr.mode))

\* Whether the calls for an entry can succeed on this tree.
CanExtract(tree, hdr) ==
  CASE hdr.type = "dir"  -> CanMkdirAll(tree, hdr.name)
    [] hdr.type = "link" -> CanMkdirParents(tree, hdr.name) /\ hdr.name \notin DOMAIN tree
    [] hdr.type = "file" -> /\ CanMkdirParents(tree, hdr.name)
                            /\ hdr.name \in DOMAIN tree => tree[hdr.name].type = "file"
    [] OTHER             -> TRUE

ExtractDir(tree, hdr) ==
  [MkdirAll(tree, hdr.name, hdr.mode % 512) EXCEPT ![hdr.name] = ApplyTarMeta(@, hdr)]

\* os.Symlink and os.Lchown.
ExtractLink(tree, hdr) ==
  With(MkdirParents(tree, hdr.name), {hdr.name},
       [NewNode("link", 511) EXCEPT !.owner = hdr.owner])

\* A file that exists is truncated and keeps its node.
ExtractFile(tree, hdr) ==
  [With(MkdirParents(tree, hdr.name), {hdr.name}, NewNode("file", hdr.mode % 512))
     EXCEPT ![hdr.name] = ApplyTarMeta(@, hdr)]

\* Any other entry is skipped.
Extract(tree, hdr) ==
  CASE hdr.type = "dir"  -> ExtractDir(tree, hdr)
    [] hdr.type = "link" -> ExtractLink(tree, hdr)
    [] hdr.type = "file" -> ExtractFile(tree, hdr)
    [] OTHER             -> tree

\* What a round leaves that fails after its node was made: the owner and the mode
\* are not set.
Placed(tree, hdr) ==
  CASE hdr.type = "dir"  -> MkdirAll(tree, hdr.name, hdr.mode % 512)
    [] hdr.type = "link" -> With(MkdirParents(tree, hdr.name), {hdr.name},
                                 NewNode("link", 511))
    [] hdr.type = "file" -> With(MkdirParents(tree, hdr.name), {hdr.name},
                                 NewNode("file", hdr.mode % 512))
    [] OTHER             -> tree

\* What os.RemoveAll can remove next: it goes from the bottom up.
Leaves(tree) == {p \in DOMAIN tree : \A q \in DOMAIN tree : p \notin Parents(q)}
Without(tree, path) == [p \in DOMAIN tree \ {path} |-> tree[p]]

\* dirHas(imagePath, "opt/actions-runner")
LooksLikeRunnerImage(tree) == <<"opt", "actions-runner">> \in DOMAIN tree

\* What unpacking must come to: the tree that was packed, less its hard links.
Unpacked == [p \in DOMAIN Rootfs \ HardLinks |-> Rootfs[p]]
=============================================================================
