--------------------------- MODULE TarExtractProofs ---------------------------
(***************************************************************************)
(* Lemmas about TarExtract: expanding the entries of a tarball into an     *)
(* empty tree, in any order, comes to the tree that was packed.            *)
(***************************************************************************)
EXTENDS TarExtract, TLAPS

\* The raw bits of a mode are taken apart without a loss.
LEMMA ModeSurvives ==
  ASSUME NEW mode \in FileModes
  PROVE  /\ TarModeToFileMode(RawMode(mode)) = mode
         /\ RawMode(mode) \in Nat
         /\ RawMode(mode) % 512 \in 0..511
<1> DEFINE s == IF mode.sticky THEN 1 ELSE 0
           g == IF mode.setgid THEN 1 ELSE 0
           u == IF mode.setuid THEN 1 ELSE 0
           m == RawMode(mode)
<1>1. /\ mode.perm \in 0..511
      /\ mode.sticky \in BOOLEAN /\ mode.setgid \in BOOLEAN /\ mode.setuid \in BOOLEAN
  BY DEF FileModes
<1>2. m = mode.perm + 512 * s + 1024 * g + 2048 * u
  BY <1>1 DEF RawMode
<1>3. s \in 0..1 /\ g \in 0..1 /\ u \in 0..1
  BY <1>1
<1> HIDE DEF s, g, u, m
<1>4. /\ m % 512 = mode.perm
      /\ m \div 512 = s + 2 * g + 4 * u
      /\ m \div 1024 = g + 2 * u
      /\ m \div 2048 = u
  <2> DEFINE p == mode.perm
  <2>1. p \in 0..511 /\ m = p + 512 * s + 1024 * g + 2048 * u
    BY <1>1, <1>2
  <2> HIDE DEF p
  <2>2. m = 512 * (s + 2 * g + 4 * u) + p
    BY <1>3, <2>1
  <2>3. m % 512 = p /\ m \div 512 = s + 2 * g + 4 * u
    BY <1>3, <2>1, <2>2
  <2>4. m = 1024 * (g + 2 * u) + (p + 512 * s) /\ p + 512 * s \in 0..1023
    BY <1>3, <2>1
  <2>5. m \div 1024 = g + 2 * u
    BY <1>3, <2>4
  <2>6. m \div 2048 = u
    <3> DEFINE r == p + 512 * s + 1024 * g
    <3>1. m = 2048 * u + r /\ r \in 0..2047
      BY <1>3, <2>1
    <3> HIDE DEF r
    <3> QED
      BY <1>3, <3>1
  <2> QED
    BY <2>3, <2>5, <2>6 DEF p
<1>5. /\ (m \div 512) % 2 = s
      /\ (m \div 1024) % 2 = g
      /\ (m \div 2048) % 2 = u
  BY <1>3, <1>4
<1>6. /\ ((m \div 512) % 2 = 1) = mode.sticky
      /\ ((m \div 1024) % 2 = 1) = mode.setgid
      /\ ((m \div 2048) % 2 = 1) = mode.setuid
  BY <1>1, <1>5 DEF s, g, u
<1>7. TarModeToFileMode(m) = mode
  BY <1>4, <1>6 DEF TarModeToFileMode, FileModes
<1>8. m \in Nat
  BY <1>1, <1>2, <1>3
<1> QED
  BY <1>1, <1>4, <1>7, <1>8 DEF m

\* Whatever node of its type an entry finds, it leaves the packed one.
LEMMA MetaApplied ==
  ASSUME NEW p \in DOMAIN Rootfs, NEW node \in Nodes, node.type = Rootfs[p].type
  PROVE  ApplyTarMeta(node, Header(p)) = Rootfs[p]
<1>1. Rootfs[p] \in Nodes
  BY RootfsAssumption
<1>2. Rootfs[p].mode \in FileModes
  BY <1>1 DEF Nodes
<1>3. /\ Header(p).owner = Rootfs[p].owner
      /\ TarModeToFileMode(Header(p).mode) = Rootfs[p].mode
  BY <1>2, ModeSurvives DEF Header
<1> DEFINE kept == IF node.type = "file"
                   THEN [node.mode EXCEPT !.setuid = FALSE, !.setgid = FALSE] ELSE node.mode
           owned == [node EXCEPT !.owner = Rootfs[p].owner, !.mode = kept]
           done == [owned EXCEPT !.mode = Rootfs[p].mode]
<1>4. kept \in FileModes
  <2>1. node.mode \in FileModes
    BY DEF Nodes
  <2>2. [node.mode EXCEPT !.setuid = FALSE, !.setgid = FALSE] \in FileModes
    BY <2>1 DEF FileModes
  <2> QED
    BY <2>1, <2>2
<1> HIDE DEF kept
<1>5. owned \in Nodes /\ owned.type = node.type /\ owned.owner = Rootfs[p].owner
  BY <1>1, <1>4 DEF Nodes
<1> HIDE DEF owned
<1>6. /\ done \in Nodes /\ done.type = node.type /\ done.owner = Rootfs[p].owner
      /\ done.mode = Rootfs[p].mode
  BY <1>2, <1>5 DEF Nodes
<1>7. ApplyTarMeta(node, Header(p)) = done
  BY <1>3, Zenon DEF ApplyTarMeta, Chmod, Chown, kept, owned
<1> HIDE DEF done
<1> QED
  BY <1>1, <1>6, <1>7 DEF Nodes

\* What MkdirAll, Symlink and OpenFile make is a node.
LEMMA NewNodeType ==
  ASSUME NEW type \in {"dir", "file", "link"}, NEW perm \in 0..511
  PROVE  NewNode(type, perm) \in Nodes /\ NewNode(type, perm).type = type
BY DEF NewNode, Permissions, Nodes, FileModes

\* An entry has the name and the type of what was packed.
LEMMA HeaderFields ==
  ASSUME NEW p \in DOMAIN Rootfs
  PROVE  /\ Header(p).name = p
         /\ Header(p).type = IF p \in HardLinks THEN "hard" ELSE Rootfs[p].type
         /\ Header(p).mode % 512 \in 0..511
<1>1. Rootfs[p].mode \in FileModes
  BY RootfsAssumption DEF Nodes
<1> QED
  BY <1>1, ModeSurvives DEF Header

\* No two entries are the same.
LEMMA HeaderInjective ==
  ASSUME NEW p \in DOMAIN Rootfs, NEW q \in DOMAIN Rootfs, Header(p) = Header(q)
  PROVE  p = q
BY HeaderFields

\* Directories above an entry were packed, and have no further name.
LEMMA ParentsPacked ==
  ASSUME NEW p \in DOMAIN Rootfs, NEW q \in Parents(p)
  PROVE  q \in DOMAIN Rootfs \ HardLinks /\ Rootfs[q].type = "dir"
BY RootfsAssumption

\* Nodes that are added to nodes give nodes.
LEMMA WithNodes ==
  ASSUME NEW tree, \A p \in DOMAIN tree : tree[p] \in Nodes,
         NEW paths, NEW node \in Nodes
  PROVE  \A p \in DOMAIN With(tree, paths, node) : With(tree, paths, node)[p] \in Nodes
BY DEF With

\* A round that fails halfway leaves nodes too.
LEMMA PlacedNodes ==
  ASSUME NEW tree, \A p \in DOMAIN tree : tree[p] \in Nodes, NEW n \in DOMAIN Rootfs
  PROVE  \A p \in DOMAIN Placed(tree, Header(n)) : Placed(tree, Header(n))[p] \in Nodes
<1> DEFINE hdr == Header(n)
           perm == hdr.mode % 512
           above == NewNode("dir", 493)
           made == With(tree, Parents(hdr.name), above)
<1>1. perm \in 0..511
  BY HeaderFields
<1>2. /\ above \in Nodes
      /\ NewNode("link", 511) \in Nodes
      /\ NewNode("dir", perm) \in Nodes
      /\ NewNode("file", perm) \in Nodes
  <2> HIDE DEF perm
  <2>1. \A type \in {"dir", "file", "link"} : \A x \in 0..511 : NewNode(type, x) \in Nodes
    BY NewNodeType
  <2> QED
    BY <1>1, <2>1
<1>3. \A p \in DOMAIN made : made[p] \in Nodes
  BY <1>2, WithNodes
<1>4. CASE hdr.type = "dir"
  <2>1. Placed(tree, hdr)
          = With(tree, Parents(hdr.name) \union {hdr.name}, NewNode("dir", perm))
    BY <1>4 DEF Placed, MkdirAll
  <2> QED
    BY <1>2, <2>1, WithNodes
<1>5. CASE hdr.type = "link"
  <2>1. Placed(tree, hdr) = With(made, {hdr.name}, NewNode("link", 511))
    BY <1>5 DEF Placed, MkdirParents
  <2> QED
    BY <1>2, <1>3, <2>1, WithNodes
<1>6. CASE hdr.type = "file"
  <2>1. Placed(tree, hdr) = With(made, {hdr.name}, NewNode("file", perm))
    BY <1>6 DEF Placed, MkdirParents
  <2> QED
    BY <1>2, <1>3, <2>1, WithNodes
<1>7. CASE hdr.type \notin {"dir", "link", "file"}
  BY <1>7 DEF Placed
<1> QED
  BY <1>4, <1>5, <1>6, <1>7

-----------------------------------------------------------------------------
(* A tree while a tarball is expanded into it: the packed nodes of the     *)
(* entries that were read, and directories made on the way to them.        *)

Expanding(tree, rest) ==
  /\ rest \subseteq Archive
  /\ DOMAIN tree \subseteq DOMAIN Rootfs \ HardLinks
  /\ tree = [p \in DOMAIN tree |-> tree[p]]
  /\ \A p \in DOMAIN tree :
       IF Header(p) \in rest
       THEN tree[p] \in Nodes /\ tree[p].type = "dir" /\ Rootfs[p].type = "dir"
       ELSE tree[p] = Rootfs[p]
  /\ \A p \in DOMAIN Rootfs \ HardLinks : Header(p) \in rest \/ p \in DOMAIN tree

\* The empty tree is one.
LEMMA ExpandingFirst ==
  Expanding(<<>>, Archive)
<1>1. DOMAIN <<>> = {} /\ <<>> = [p \in {} |-> p]
  OBVIOUS
<1>2. \A p \in DOMAIN Rootfs : Header(p) \in Archive
  BY DEF Archive
<1> QED
  BY <1>1, <1>2 DEF Expanding

\* When all entries were read, it is the tree that was packed.
LEMMA ExpandingLast ==
  ASSUME NEW tree, Expanding(tree, {})
  PROVE  tree = Unpacked
BY DEF Expanding, Unpacked

\* It has nothing but nodes.
LEMMA ExpandingNodes ==
  ASSUME NEW tree, NEW rest, Expanding(tree, rest)
  PROVE  \A p \in DOMAIN tree : tree[p] \in Nodes
BY RootfsAssumption DEF Expanding

\* Each entry that was not read finds its way free, whichever were read before.
LEMMA ExpandingFits ==
  ASSUME NEW tree, NEW rest, Expanding(tree, rest), NEW hdr \in rest
  PROVE  CanExtract(tree, hdr)
<1>1. PICK n \in DOMAIN Rootfs : hdr = Header(n)
  BY DEF Expanding, Archive
<1>2. \A q \in Parents(n) \intersect DOMAIN tree : tree[q].type = "dir"
  BY ParentsPacked DEF Expanding
<1>3. n \in DOMAIN tree => tree[n].type = "dir" /\ Rootfs[n].type = "dir" /\ n \notin HardLinks
  BY <1>1 DEF Expanding
<1>4. hdr.name = n /\ hdr.type = IF n \in HardLinks THEN "hard" ELSE Rootfs[n].type
  BY <1>1, HeaderFields
<1>5. hdr.type \in {"hard", "dir", "file", "link"}
  BY <1>4, RootfsAssumption DEF Nodes
<1> QED
  BY <1>2, <1>3, <1>4, <1>5 DEF CanExtract, CanMkdirAll, CanMkdirParents

\* What an entry adds: its own node and directories above it.
LEMMA ExpandingAdds ==
  ASSUME NEW tree, NEW rest, Expanding(tree, rest),
         NEW n \in DOMAIN Rootfs \ HardLinks, Header(n) \in rest,
         NEW after, NEW D, D \subseteq Parents(n),
         after = [p \in DOMAIN tree \union D \union {n} |-> after[p]],
         after[n] = Rootfs[n],
         \A p \in DOMAIN tree \ {n} : after[p] = tree[p],
         \A p \in D \ (DOMAIN tree \union {n}) : after[p] \in Nodes /\ after[p].type = "dir"
  PROVE  Expanding(after, rest \ {Header(n)})
<1>1. rest \ {Header(n)} \subseteq Archive
  BY DEF Expanding
<1>2. DOMAIN after = DOMAIN tree \union D \union {n}
  BY Zenon
<1>3. \A q \in D : q \in DOMAIN Rootfs \ HardLinks /\ Rootfs[q].type = "dir"
  BY ParentsPacked
<1>4. DOMAIN after \subseteq DOMAIN Rootfs \ HardLinks
  BY <1>2, <1>3 DEF Expanding
<1>5. after = [p \in DOMAIN after |-> after[p]]
  BY <1>2, Zenon
<1>6. \A p \in DOMAIN Rootfs : Header(p) = Header(n) => p = n
  BY HeaderInjective
<1>7. ASSUME NEW p \in DOMAIN after
      PROVE  IF Header(p) \in rest \ {Header(n)}
             THEN after[p] \in Nodes /\ after[p].type = "dir" /\ Rootfs[p].type = "dir"
             ELSE after[p] = Rootfs[p]
  <2>1. CASE p = n
    BY <2>1
  <2>2. CASE p # n /\ p \in DOMAIN tree
    <3>1. after[p] = tree[p] /\ Header(p) # Header(n)
      BY <1>4, <1>6, <2>2
    <3> QED
      BY <2>2, <3>1 DEF Expanding
  <2>3. CASE p # n /\ p \notin DOMAIN tree
    <3>1. p \in D \ (DOMAIN tree \union {n})
      BY <1>2, <2>3
    <3>2. p \in DOMAIN Rootfs \ HardLinks /\ Header(p) # Header(n)
      BY <1>3, <1>6, <2>3, <3>1
    <3>3. Header(p) \in rest
      BY <2>3, <3>2 DEF Expanding
    <3> QED
      BY <1>3, <3>1, <3>2, <3>3
  <2> QED
    BY <2>1, <2>2, <2>3
<1>8. \A p \in DOMAIN Rootfs \ HardLinks : Header(p) \in rest \ {Header(n)} \/ p \in DOMAIN after
  BY <1>2, <1>6 DEF Expanding
<1> QED
  BY <1>1, <1>4, <1>5, <1>7, <1>8 DEF Expanding

\* Each entry takes such a tree to such a tree.
LEMMA ExpandingStep ==
  ASSUME NEW tree, NEW rest, Expanding(tree, rest), NEW hdr \in rest
  PROVE  Expanding(Extract(tree, hdr), rest \ {hdr})
<1>1. PICK n \in DOMAIN Rootfs : hdr = Header(n)
  BY DEF Expanding, Archive
<1>2. /\ hdr.name = n /\ hdr.mode % 512 \in 0..511
      /\ hdr.type = IF n \in HardLinks THEN "hard" ELSE Rootfs[n].type
  BY <1>1, HeaderFields
<1>3. Rootfs[n] \in Nodes
  BY RootfsAssumption
<1>4. n \in DOMAIN tree => tree[n] \in Nodes /\ tree[n].type = "dir" /\ Rootfs[n].type = "dir"
  BY <1>1 DEF Expanding
<1>5. CASE n \in HardLinks
  <2>1. Extract(tree, hdr) = tree
    BY <1>2, <1>5 DEF Extract
  <2>2. n \notin DOMAIN tree
    BY <1>5 DEF Expanding
  <2>3. \A p \in DOMAIN Rootfs \ HardLinks : Header(p) # hdr
    BY <1>1, <1>5, HeaderInjective
  <2> QED
    BY <2>1, <2>2, <2>3 DEF Expanding
<1>6. CASE n \notin HardLinks /\ Rootfs[n].type = "dir"
  <2> DEFINE new == NewNode("dir", hdr.mode % 512)
             T == DOMAIN tree \union (Parents(n) \union {n})
             made == [p \in T |-> IF p \in DOMAIN tree THEN tree[p] ELSE new]
             after == [made EXCEPT ![n] = ApplyTarMeta(@, hdr)]
  <2>1. Extract(tree, hdr) = after
    BY <1>2, <1>6, Zenon DEF Extract, ExtractDir, MkdirAll, With
  <2>2. new \in Nodes /\ new.type = "dir"
    BY <1>2, NewNodeType
  <2> HIDE DEF new
  <2>3. made[n] \in Nodes /\ made[n].type = "dir"
    BY <1>4, <2>2
  <2>4. ApplyTarMeta(made[n], hdr) = Rootfs[n]
    <3> HIDE DEF made
    <3> QED
      BY <1>1, <1>6, <2>3, MetaApplied
  <2>5. after = [p \in T |-> IF p = n THEN Rootfs[n] ELSE made[p]]
    BY <2>4
  <2> HIDE DEF after
  <2>6. /\ after = [p \in DOMAIN tree \union Parents(n) \union {n} |-> after[p]]
        /\ after[n] = Rootfs[n]
        /\ \A p \in DOMAIN tree \ {n} : after[p] = tree[p]
        /\ \A p \in Parents(n) \ (DOMAIN tree \union {n}) : after[p] = new
    BY <2>5
  <2>7. Expanding(after, rest \ {Header(n)})
    BY <1>1, <1>6, <2>2, <2>6, ExpandingAdds
  <2> QED
    BY <1>1, <2>1, <2>7
<1>7. CASE n \notin HardLinks /\ Rootfs[n].type # "dir"
  <2> DEFINE above == NewNode("dir", 493)
             made == With(tree, Parents(n), above)
             after == Extract(tree, hdr)
  <2>1. above \in Nodes /\ above.type = "dir"
    BY NewNodeType
  <2> HIDE DEF above
  <2>2. n \notin DOMAIN tree /\ n \notin Parents(n)
    BY <1>4, <1>7, ParentsPacked
  <2>3. \A new : With(made, {n}, new)
                   = [p \in DOMAIN tree \union Parents(n) \union {n} |->
                        IF p \in DOMAIN tree THEN tree[p]
                        ELSE IF p = n THEN new ELSE above]
    BY <2>2 DEF With
  <2>4. after = [p \in DOMAIN tree \union Parents(n) \union {n} |->
                   IF p \in DOMAIN tree THEN tree[p]
                   ELSE IF p = n THEN Rootfs[n] ELSE above]
    <3>1. CASE Rootfs[n].type = "link"
      <4> DEFINE new == [NewNode("link", 511) EXCEPT !.owner = hdr.owner]
      <4>1. after = With(made, {n}, new)
        BY <1>2, <1>7, <3>1, Zenon DEF Extract, ExtractLink, MkdirParents, above
      <4>2. hdr.owner = Rootfs[n].owner /\ Rootfs[n].mode = Permissions(511)
        BY <1>1, <3>1, RootfsAssumption DEF Header
      <4>3. new = Rootfs[n]
        <5>1. NewNode("link", 511) \in Nodes
          BY NewNodeType
        <5>2. NewNode("link", 511).mode = Permissions(511) /\ NewNode("link", 511).type = "link"
          BY DEF NewNode
        <5>3. new \in Nodes /\ new.type = "link" /\ new.owner = hdr.owner /\ new.mode = Permissions(511)
          BY <1>3, <4>2, <5>1, <5>2 DEF Nodes
        <5> HIDE DEF new
        <5> QED
          BY <1>3, <3>1, <4>2, <5>3 DEF Nodes
      <4> HIDE DEF made, after, new
      <4> QED
        BY <2>3, <4>1, <4>3
    <3>2. CASE Rootfs[n].type = "file"
      <4> DEFINE new == NewNode("file", hdr.mode % 512)
                 opened == With(made, {n}, new)
      <4>1. after = [opened EXCEPT ![n] = ApplyTarMeta(@, hdr)]
        <5>1. hdr.type = "file" /\ hdr.name = n
          BY <1>2, <1>7, <3>2
        <5>2. Extract(tree, hdr) = ExtractFile(tree, hdr)
          BY <5>1 DEF Extract
        <5> QED
          <6>1. With(MkdirParents(tree, hdr.name), {hdr.name}, NewNode("file", hdr.mode % 512)) = opened
            BY <5>1, Zenon DEF MkdirParents, above
          <6> HIDE DEF opened
          <6> QED
            BY <5>1, <5>2, <6>1, Zenon DEF ExtractFile
      <4>2. new \in Nodes /\ new.type = "file"
        BY <1>2, NewNodeType
      <4> HIDE DEF new
      <4>3. ApplyTarMeta(new, hdr) = Rootfs[n]
        BY <1>1, <3>2, <4>2, MetaApplied
      <4>4. opened = [p \in DOMAIN tree \union Parents(n) \union {n} |->
                        IF p \in DOMAIN tree THEN tree[p]
                        ELSE IF p = n THEN new ELSE above]
        BY <2>3, Zenon
      <4> HIDE DEF opened, made, after
      <4> QED
        BY <2>2, <4>1, <4>3, <4>4
    <3> QED
      BY <1>3, <1>7, <3>1, <3>2 DEF Nodes
  <2> HIDE DEF after
  <2>5. /\ after = [p \in DOMAIN tree \union Parents(n) \union {n} |-> after[p]]
        /\ after[n] = Rootfs[n]
        /\ \A p \in DOMAIN tree \ {n} : after[p] = tree[p]
        /\ \A p \in Parents(n) \ (DOMAIN tree \union {n}) : after[p] = above
    BY <2>2, <2>4
  <2>6. Expanding(after, rest \ {Header(n)})
    BY <1>1, <1>7, <2>1, <2>5, ExpandingAdds
  <2> QED
    BY <1>1, <2>6 DEF after
<1> QED
  BY <1>5, <1>6, <1>7
=============================================================================
