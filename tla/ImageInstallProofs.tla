-------------------------- MODULE ImageInstallProofs --------------------------
(***************************************************************************)
(* Proofs about ImageInstall: for any tree that was packed, any tree that  *)
(* it replaces, any number of parts and of artifacts, every kind of fault. *)
(***************************************************************************)
EXTENDS ImageInstall, TarExtractProofs, PagesProofs

\* What is wanted and was not found yet is on a page that was not read.
LookupFacts ==
  /\ LookupTypeOK
  /\ kpc = "pages" => kpage > 0
  /\ kpc = "pages" /\ ~shifted =>
       \A a \in wanted : Position(listing, a) > (kpage - 1) * PageSize
  /\ LatestPicked

\* Outside of a lookup nothing of it is left.
LookupInv == LookupFacts /\ (ipc # "lookup" => NoLookup)

\* The tokens in the semaphore are the parts that are downloaded, and a failed
\* part is remembered until the command returns.
DownloadInv ==
  /\ slots = Cardinality({p \in Parts : part[p] = "active"})
  /\ ipc \in {"idle", "lookup", "temp"} => part = [p \in Parts |-> "none"]
  /\ PartFailed => firstErr /\ ipc \in {"fetch", "failed"} /\ ~touched
  /\ ipc \in {"lookup", "temp", "fetch", "copy", "open"} => ~touched

\* The producer of an artifact has ended well or badly before the zip is opened,
\* and well before the installation is taken for done.
ProducerInv ==
  /\ ipc \in {"idle", "lookup", "temp", "fetch"} => producer = "none"
  /\ ipc = "lookup" => mode = "artifact"
  /\ ipc = "temp" => mode \in {"parts", "artifact"}
  /\ ipc = "fetch" => mode = "parts"
  /\ ipc \in {"copy", "join"} => mode = "artifact"
  /\ producer \in {"sending", "broken"} => ipc \in {"copy", "failed"} /\ ~touched
  /\ ipc \in {"open", "clear", "expand"} =>
       producer \in IF mode = "artifact" THEN {"sent", "late"} ELSE {"none"}
  /\ ipc \in {"check", "ok"} => producer \in {"none", "sent"}

\* The tree while the tarball is expanded, and afterwards.
TreeInv ==
  /\ ipc = "expand" => Expanding(tree, unread)
  /\ ipc \in {"join", "check", "ok"} /\ ~Corrupt => tree = Unpacked

InstallIInv ==
  TypeOK /\ LookupInv /\ DownloadInv /\ ProducerInv /\ TreeInv

-----------------------------------------------------------------------------
(* The lookup of an artifact.                                              *)

\* A finite set of numbers that is not empty has a largest one.
LEMMA LargestExists ==
  ASSUME NEW S \in SUBSET Nat, IsFiniteSet(S), S # {}
  PROVE  \E m \in S : \A n \in S : n <= m
<1>1. Cardinality(S) \in Nat /\ Cardinality(S) # 0
  BY FS_CardinalityType, FS_EmptySet
<1>2. PICK m \in S : Position(S, m) = 1
  BY <1>1, PositionOnto
<1>3. ASSUME NEW n \in S, n > m PROVE FALSE
  <2>1. Position(S, n) < 1
    BY <1>2, <1>3, PositionOrder
  <2>2. Position(S, n) \in 1..Cardinality(S)
    BY PositionType
  <2> QED
    BY <1>1, <2>1, <2>2
<1> QED
  BY <1>3

\* A later upload moves an entry to a later position, if at all.
LEMMA UploadShiftsBack ==
  ASSUME NEW list \in SUBSET Nat, IsFiniteSet(list), NEW a \in Nat, NEW x \in list
  PROVE  Position(list \union {a}, x) >= Position(list, x)
<1>1. {y \in list : y >= x} \in SUBSET {y \in list \union {a} : y >= x}
  OBVIOUS
<1>2. IsFiniteSet(list \union {a})
  BY FS_AddElement
<1>3. IsFiniteSet({y \in list \union {a} : y >= x})
  BY <1>2, FS_Subset
<1>4. /\ Cardinality({y \in list : y >= x}) <= Cardinality({y \in list \union {a} : y >= x})
      /\ Cardinality({y \in list : y >= x}) \in Nat
      /\ Cardinality({y \in list \union {a} : y >= x}) \in Nat
  BY <1>1, <1>3, FS_Subset, FS_CardinalityType
<1> QED
  BY <1>4 DEF Position

\* The lists are finite sets of numbers.
LEMMA ListingFinite ==
  ASSUME LookupTypeOK
  PROVE  listing \in SUBSET Nat /\ IsFiniteSet(listing)
BY ArtifactsAssumption, FS_Subset DEF LookupTypeOK

\* What is on the page or on an earlier one is not newer than the first hit.
LEMMA HitIsLatest ==
  ASSUME LookupTypeOK, kpage \in Nat \ {0},
         NEW a \in usable, Position(listing, a) > (kpage - 1) * PageSize,
         NEW b \in usable \intersect Page(listing, kpage),
         \A c \in usable \intersect Page(listing, kpage) : c <= b
  PROVE  a <= b
<1>1. listing \in SUBSET Nat /\ IsFiniteSet(listing) /\ a \in listing /\ b \in listing
  BY ListingFinite DEF LookupTypeOK
<1>2. /\ (kpage - 1) * PageSize \in Nat /\ kpage * PageSize \in Nat
      /\ Position(listing, a) \in Nat /\ Position(listing, b) \in Nat
  BY <1>1, PageSizeAssumption, PositionType, FS_CardinalityType
<1>3. Position(listing, b) <= kpage * PageSize
  BY <1>2 DEF Page
<1>4. CASE a \in Page(listing, kpage)
  BY <1>4
<1>5. CASE a \notin Page(listing, kpage)
  <2>1. Position(listing, a) > kpage * PageSize
    BY <1>1, <1>2, <1>5 DEF Page
  <2>2. ~ b < a
    BY <1>1, <1>2, <1>3, <2>1, PositionOrder
  <2> QED
    BY <1>1, <2>2
<1> QED
  BY <1>4, <1>5

\* A page without a hit leaves what is wanted to the pages behind it.
LEMMA NoHitLaterPage ==
  ASSUME LookupTypeOK, kpage \in Nat \ {0},
         NEW a \in usable, Position(listing, a) > (kpage - 1) * PageSize,
         usable \intersect Page(listing, kpage) = {}
  PROVE  Position(listing, a) > kpage * PageSize /\ ~NoMorePages
<1>1. listing \in SUBSET Nat /\ IsFiniteSet(listing) /\ a \in listing
  BY ListingFinite DEF LookupTypeOK
<1>2. /\ (kpage - 1) * PageSize \in Nat /\ kpage * PageSize \in Nat
      /\ Position(listing, a) \in Nat /\ Cardinality(listing) \in Nat
      /\ Position(listing, a) <= Cardinality(listing)
  BY <1>1, PageSizeAssumption, PositionType, FS_CardinalityType
<1>3. Position(listing, a) > kpage * PageSize
  BY <1>1, <1>2 DEF Page
<1>4. Cardinality(Page(listing, kpage)) = PageSize
  BY <1>1, <1>3, FullPage
<1>5. Page(listing, kpage) # {}
  BY <1>4, PageSizeAssumption, FS_EmptySet
<1> QED
  BY <1>2, <1>3, <1>5 DEF NoMorePages

\* The steps of a lookup keep what holds in it.
LEMMA LookupCalls ==
  ASSUME LookupFacts, BeginLookup \/ LookupStep \/ LookupFails
  PROVE  LookupFacts'
<1>1. CASE BeginLookup
  BY <1>1 DEF LookupFacts, BeginLookup, LookupTypeOK, LatestPicked
<1>2. CASE Authorize
  <2>1. PICK S \in SUBSET Artifacts : \E T \in SUBSET S :
          listing' = S /\ usable' = T /\ wanted' = T
    BY <1>2 DEF Authorize
  <2>2. LookupTypeOK'
    BY <1>2, <2>1 DEF LookupFacts, Authorize, LookupTypeOK
  <2>3. \A a \in wanted' : Position(listing', a) > 0
    <3>1. listing' \in SUBSET Nat /\ IsFiniteSet(listing') /\ wanted' \subseteq listing'
      BY <2>1, ArtifactsAssumption, FS_Subset
    <3> QED
      BY <3>1, PositionType, FS_CardinalityType
  <2>4. (1 - 1) * PageSize = 0
    BY PageSizeAssumption
  <2> QED
    BY <1>2, <2>2, <2>3, <2>4 DEF LookupFacts, Authorize, LatestPicked
<1>3. CASE ReadPage
  <2> DEFINE hits == usable \intersect Page(listing, kpage)
  <2>1. LookupTypeOK /\ kpc = "pages" /\ kpage \in Nat \ {0}
    BY <1>3 DEF ReadPage, LookupFacts, LookupTypeOK
  <2>2. listing \in SUBSET Nat /\ IsFiniteSet(listing)
    BY <2>1, ListingFinite
  <2>3. hits \in SUBSET Nat /\ IsFiniteSet(hits) /\ hits \subseteq Artifacts
    BY <2>1, <2>2, FS_Subset DEF LookupTypeOK
  <2>4. UNCHANGED <<listing, usable, wanted, shifted>>
    BY <1>3 DEF ReadPage
  <2>5. \A a \in wanted : a \in usable
    BY <2>1 DEF LookupTypeOK
  <2>6. ~shifted => \A a \in wanted : Position(listing, a) > (kpage - 1) * PageSize
    BY <2>1 DEF LookupFacts
  <2>7. CASE /\ hits # {} /\ kpc' = "found" /\ UNCHANGED kpage
             /\ picked' = {a \in hits : \A b \in hits : b <= a}
    <3>1. PICK m \in hits : \A b \in hits : b <= m
      BY <2>3, <2>7, LargestExists
    <3>2. m \in picked'
      BY <2>7, <3>1
    <3>3. LookupTypeOK'
      BY <2>1, <2>3, <2>4, <2>7, <3>2 DEF LookupTypeOK
    <3>4. ~shifted => \A a \in wanted : a <= m
      BY <2>1, <2>5, <2>6, <3>1, HitIsLatest
    <3> QED
      BY <2>4, <2>7, <3>2, <3>3, <3>4 DEF LookupFacts, LatestPicked
  <2>8. CASE hits = {} /\ NoMorePages /\ kpc' = "failed" /\ UNCHANGED <<kpage, picked>>
    <3>1. LookupTypeOK'
      BY <2>1, <2>4, <2>8 DEF LookupTypeOK
    <3>2. ~shifted => wanted = {}
      BY <2>1, <2>5, <2>6, <2>8, NoHitLaterPage
    <3> QED
      BY <2>4, <2>8, <3>1, <3>2 DEF LookupFacts, LatestPicked
  <2>9. CASE hits = {} /\ kpage' = kpage + 1 /\ UNCHANGED <<kpc, picked>>
    <3>1. LookupTypeOK' /\ kpage' > 0
      BY <2>1, <2>4, <2>9 DEF LookupTypeOK
    <3>2. ~shifted => \A a \in wanted : Position(listing, a) > kpage * PageSize
      BY <2>1, <2>5, <2>6, <2>9, NoHitLaterPage
    <3>3. kpage' - 1 = kpage
      BY <2>1, <2>9
    <3> QED
      BY <2>1, <2>4, <2>9, <3>1, <3>2, <3>3 DEF LookupFacts, LatestPicked
  <2> QED
    BY <1>3, <2>7, <2>8, <2>9 DEF ReadPage
<1>4. CASE LookupFails
  BY <1>4 DEF LookupFacts, LookupFails, LookupTypeOK, LatestPicked
<1> QED
  BY <1>1, <1>2, <1>3, <1>4 DEF LookupStep

\* What happens at GitHub meanwhile keeps it too.
LEMMA LookupMeanwhile ==
  ASSUME LookupFacts, GitHubChanges
  PROVE  LookupFacts'
<1>1. listing \in SUBSET Nat /\ IsFiniteSet(listing)
  BY ListingFinite DEF LookupFacts
<1>2. PICK a \in Artifacts : Upload(a) \/ ArtifactExpires(a) \/ Delete(a)
  BY DEF GitHubChanges
<1>3. CASE Upload(a)
  <2>1. LookupTypeOK'
    BY <1>3 DEF LookupFacts, Upload, LookupTypeOK
  <2>2. \A x \in wanted : /\ Position(listing', x) >= Position(listing, x)
                          /\ Position(listing', x) \in Nat /\ Position(listing, x) \in Nat
    <3>1. wanted \subseteq listing /\ listing' = listing \union {a} /\ a \in Nat
      BY <1>3, ArtifactsAssumption DEF Upload, LookupFacts, LookupTypeOK
    <3>2. listing' \in SUBSET Nat /\ IsFiniteSet(listing')
      BY <1>1, <3>1, FS_AddElement
    <3> QED
      BY <1>1, <3>1, <3>2, UploadShiftsBack, PositionType, FS_CardinalityType
  <2>3. kpage \in Nat /\ (kpage - 1) * PageSize \in Int
    BY PageSizeAssumption DEF LookupFacts, LookupTypeOK
  <2>4. ~shifted => \A x \in wanted : Position(listing', x) > (kpage - 1) * PageSize
    BY <1>3, <2>2, <2>3 DEF LookupFacts, Upload
  <2> QED
    BY <1>3, <2>1, <2>4 DEF LookupFacts, Upload, LatestPicked
<1>4. CASE ArtifactExpires(a)
  BY <1>4 DEF LookupFacts, ArtifactExpires, LookupTypeOK, LatestPicked
<1>5. CASE Delete(a)
  BY <1>5 DEF LookupFacts, Delete, LookupTypeOK, LatestPicked
<1> QED
  BY <1>2, <1>3, <1>4, <1>5

\* No step of the installation disturbs the lookup.
LEMMA LookupKept ==
  ASSUME InstallIInv, [Next]_vars
  PROVE  LookupInv'
<1>1. LookupFacts /\ (ipc # "lookup" => NoLookup)
  BY DEF InstallIInv, LookupInv
<1>2. CASE UNCHANGED lookup /\ (ipc = "lookup" <=> ipc' = "lookup")
  BY <1>1, <1>2 DEF LookupInv, LookupFacts, LookupTypeOK, LatestPicked, NoLookup, lookup
<1>3. CASE UNCHANGED lookup /\ ipc # "lookup"
  BY <1>1, <1>3 DEF LookupInv, LookupFacts, LookupTypeOK, LatestPicked, NoLookup, lookup
<1>4. CASE EndLookup
  <2>1. NoLookup'
    BY <1>4 DEF NoLookup, EndLookup
  <2>2. LookupTypeOK'
    BY <2>1 DEF NoLookup, LookupTypeOK
  <2> QED
    BY <2>1, <2>2 DEF NoLookup, LookupInv, LookupFacts, LatestPicked
<1>5. ASSUME NEW m \in Modes, Begin(m) PROVE LookupInv'
  <2>1. CASE ipc' = "lookup" /\ BeginLookup
    BY <1>1, <2>1, LookupCalls DEF LookupInv
  <2> QED
    BY <1>3, <1>5, <2>1 DEF Begin
<1>6. CASE Lookup
  BY <1>1, <1>6, LookupCalls DEF Lookup, LookupInv
<1>7. CASE LookupReturns
  BY <1>4, <1>7 DEF LookupReturns
<1>8. CASE ipc = "lookup" /\ GitHubChanges /\ UNCHANGED <<mode, ipc, download, image>>
  BY <1>1, <1>8, LookupMeanwhile DEF LookupInv
<1>9. CASE Killed
  BY <1>4, <1>9 DEF Killed
<1>10. CASE CreateTemp \/ Fetched \/ CopyArtifact
  BY <1>3, <1>10 DEF CreateTemp, Fetched, CopyArtifact
<1>11. CASE Produce
  BY <1>2, <1>11 DEF Produce
<1>12. ASSUME NEW p \in Parts, Acquire(p) \/ DownloadPart(p) PROVE LookupInv'
  BY <1>3, <1>12 DEF Acquire, DownloadPart
<1>13. CASE OpenTarball \/ ClearDir \/ ExtractEntry \/ EndOfArchive
  BY <1>3, <1>13 DEF OpenTarball, ClearDir, ExtractEntry, EndOfArchive
<1>14. CASE JoinProducer \/ SanityCheck \/ Return
  BY <1>3, <1>14 DEF JoinProducer, SanityCheck, Return
<1>15. CASE UNCHANGED vars
  BY <1>2, <1>15 DEF vars
<1> QED
  BY <1>5, <1>6, <1>7, <1>8, <1>9, <1>10, <1>11, <1>12, <1>13, <1>14, <1>15 DEF Next, Command

-----------------------------------------------------------------------------
(* The download.                                                           *)

\* A part that takes a slot is one active part more.
LEMMA OneMore ==
  ASSUME NEW S \in SUBSET Parts, NEW p \in Parts \ S
  PROVE  Cardinality(S \union {p}) = Cardinality(S) + 1
BY PartsAssumption, FS_Subset, FS_AddElement

\* A part that gives its slot back was one of the active parts.
LEMMA OneLess ==
  ASSUME NEW S \in SUBSET Parts, NEW p \in S
  PROVE  /\ Cardinality(S \ {p}) = Cardinality(S) - 1
         /\ Cardinality(S) \in Nat \ {0}
<1>1. IsFiniteSet(S)
  BY PartsAssumption, FS_Subset
<1>2. Cardinality(S) \in Nat /\ Cardinality(S) # 0
  BY <1>1, FS_CardinalityType, FS_EmptySet
<1> QED
  BY <1>1, <1>2, FS_RemoveElement

\* No part is active when each has one other value.
LEMMA NoneActive ==
  ASSUME NEW s, s # "active"
  PROVE  Cardinality({q \in Parts : [p \in Parts |-> s][q] = "active"}) = 0
<1>1. {q \in Parts : [p \in Parts |-> s][q] = "active"} = {}
  OBVIOUS
<1> QED
  BY <1>1, FS_EmptySet

\* Slots are counted right, and a failed part stays failed until the command
\* returns.
LEMMA DownloadKept ==
  ASSUME InstallIInv, [Next]_vars
  PROVE  DownloadInv'
<1> DEFINE none == [p \in Parts |-> "none"]
           active == {p \in Parts : part[p] = "active"}
<1>1. DownloadInv /\ part \in [Parts -> {"none", "waiting", "active", "ended", "failed"}]
  BY DEF InstallIInv, TypeOK
<1>2. CASE /\ UNCHANGED <<part, slots, firstErr, touched>>
           /\ ipc' = ipc \/ (ipc \notin {"fetch", "failed"} /\ ipc' = "failed")
  BY <1>1, <1>2 DEF DownloadInv, PartFailed
<1>3. CASE EndCommand
  <2>1. part' = none /\ slots' = 0 /\ ipc' = "idle"
    BY <1>3 DEF EndCommand
  <2>2. slots' = Cardinality(active')
    BY <2>1, NoneActive
  <2> QED
    BY <2>1, <2>2 DEF DownloadInv, PartFailed
<1>4. ASSUME NEW m \in Modes, Begin(m) PROVE DownloadInv'
  BY <1>1, <1>4 DEF Begin, Fail, DownloadInv, PartFailed, download
<1>5. CASE Lookup
  BY <1>2, <1>5 DEF Lookup, download, image
<1>6. CASE LookupReturns
  BY <1>1, <1>6 DEF LookupReturns, Fail, DownloadInv, PartFailed, download, image
<1>7. CASE CreateTemp
  <2>1. /\ ipc = "temp" /\ part = none /\ ~touched /\ ~touched' /\ slots' = slots
        /\ ipc' \in {"fetch", "copy", "failed"}
    BY <1>1, <1>7 DEF CreateTemp, Fail, DownloadInv, image
  <2>2. \E s \in {"none", "waiting"} : part' = [p \in Parts |-> s]
    <3>1. part' = part \/ part' = [p \in Parts |-> IF mode = "parts" THEN "waiting" ELSE "none"]
      BY <1>7 DEF CreateTemp
    <3> QED
      BY <2>1, <3>1
  <2>3. PICK s \in {"none", "waiting"} : part' = [p \in Parts |-> s]
    BY <2>2
  <2>4. slots' = Cardinality(active')
    <3>1. Cardinality(active) = 0 /\ Cardinality(active') = 0
      BY <2>1, <2>3, NoneActive
    <3> QED
      BY <1>1, <2>1, <3>1 DEF DownloadInv
  <2>5. ~PartFailed'
    BY <2>3 DEF PartFailed
  <2> QED
    BY <2>1, <2>4, <2>5 DEF DownloadInv
<1>8. CASE Fetched
  BY <1>1, <1>8 DEF Fetched, DownloadInv, PartFailed, download, image
<1>9. CASE Produce
  BY <1>2, <1>9 DEF Produce, image
<1>10. CASE CopyArtifact
  <2>1. ~PartFailed
    BY <1>1, <1>10 DEF CopyArtifact, DownloadInv
  <2> QED
    BY <1>1, <1>10, <2>1 DEF CopyArtifact, Fail, DownloadInv, PartFailed, download, image
<1>11. ASSUME NEW p \in Parts, Acquire(p) PROVE DownloadInv'
  <2>1. /\ ipc = "fetch" /\ ipc' = "fetch" /\ ~touched' /\ firstErr' = firstErr
        /\ part' = [part EXCEPT ![p] = "active"] /\ part[p] = "waiting"
        /\ slots' = slots + 1 /\ touched' = touched
    BY <1>1, <1>11 DEF Acquire, DownloadInv, image
  <2>2. active' = active \union {p} /\ p \notin active
    BY <1>1, <2>1
  <2>3. slots' = Cardinality(active')
    BY <1>1, <2>1, <2>2, OneMore DEF DownloadInv
  <2>4. PartFailed' => PartFailed
    BY <1>1, <2>1 DEF PartFailed
  <2> QED
    BY <1>1, <2>1, <2>3, <2>4 DEF DownloadInv
<1>12. ASSUME NEW p \in Parts, DownloadPart(p) PROVE DownloadInv'
  <2>1. PICK s \in {"ended", "failed"} :
          /\ part' = [part EXCEPT ![p] = s]
          /\ IF s = "failed" THEN firstErr' = TRUE ELSE firstErr' = firstErr
    BY <1>12 DEF DownloadPart
  <2>2. /\ ipc = "fetch" /\ ipc' = "fetch" /\ ~touched' /\ touched' = touched
        /\ part[p] = "active" /\ slots' = slots - 1
    BY <1>1, <1>12 DEF DownloadPart, DownloadInv, image
  <2>3. slots' = Cardinality(active')
    <3>1. active' = active \ {p} /\ p \in active
      BY <1>1, <2>1, <2>2
    <3> QED
      BY <1>1, <2>2, <3>1, OneLess DEF DownloadInv
  <2>4. PartFailed' => firstErr'
    <3>1. PartFailed' => PartFailed \/ s = "failed"
      BY <1>1, <2>1 DEF PartFailed
    <3> QED
      BY <1>1, <2>1, <3>1 DEF DownloadInv
  <2> QED
    BY <2>2, <2>3, <2>4 DEF DownloadInv
<1>13. CASE OpenTarball \/ ClearDir \/ ExtractEntry \/ EndOfArchive \/ JoinProducer \/ SanityCheck
  <2>1. ipc \in {"open", "clear", "expand", "join", "check"} /\ ~PartFailed
    BY <1>1, <1>13 DEF OpenTarball, ClearDir, ExtractEntry, EndOfArchive, JoinProducer,
         SanityCheck, DownloadInv
  <2>2. UNCHANGED <<part, slots, firstErr>>
    BY <1>13 DEF OpenTarball, ClearDir, ExtractEntry, EndOfArchive, JoinProducer,
         SanityCheck, download
  <2>3. ipc' \in {"clear", "expand", "join", "check", "ok", "failed"}
    BY <1>13, <2>1 DEF OpenTarball, ClearDir, ExtractEntry, EndOfArchive, JoinProducer,
         SanityCheck, Fail
  <2> QED
    BY <1>1, <2>1, <2>2, <2>3 DEF DownloadInv, PartFailed
<1>14. CASE Return
  BY <1>3, <1>14 DEF Return
<1>15. CASE ipc = "lookup" /\ GitHubChanges /\ UNCHANGED <<mode, ipc, download, image>>
  BY <1>2, <1>15 DEF download, image
<1>16. CASE Killed
  BY <1>3, <1>16 DEF Killed
<1>17. CASE UNCHANGED vars
  BY <1>2, <1>17 DEF vars, download, image
<1> QED
  BY <1>4, <1>5, <1>6, <1>7, <1>8, <1>9, <1>10, <1>11, <1>12, <1>13, <1>14, <1>15, <1>16,
     <1>17 DEF Next, Command

\* A producer that failed is noticed before its archive is taken for complete.
LEMMA ProducerKept ==
  ASSUME InstallIInv, [Next]_vars
  PROVE  ProducerInv'
<1>1. ProducerInv /\ mode \in {"parts", "stream", "light", "artifact"}
  BY ModesAssumption DEF InstallIInv, TypeOK
<1>2. CASE UNCHANGED <<mode, ipc, producer, touched>>
  BY <1>1, <1>2 DEF ProducerInv
<1>3. CASE EndCommand
  BY <1>3 DEF EndCommand, ProducerInv
<1>4. ASSUME NEW m \in Modes, Begin(m) PROVE ProducerInv'
  <2>1. /\ ipc = "idle" /\ producer = "none" /\ producer' = "none" /\ mode' = m
        /\ \/ m = "parts" /\ ipc' = "temp"
           \/ m \in {"stream", "light"} /\ ipc' = "open"
           \/ m = "artifact" /\ ipc' = "lookup"
           \/ ipc' = "failed"
    BY <1>1, <1>4 DEF Begin, Fail, ProducerInv, download
  <2> QED
    BY <2>1 DEF ProducerInv
<1>5. CASE Lookup
  BY <1>2, <1>5 DEF Lookup, download, image
<1>6. CASE LookupReturns
  BY <1>1, <1>6 DEF LookupReturns, Fail, ProducerInv, download, image
<1>7. CASE CreateTemp
  <2>1. ipc = "temp" /\ ~touched /\ ~touched' /\ mode' = mode
    BY <1>7 DEF CreateTemp, InstallIInv, DownloadInv, image
  <2>2. ipc' \in {IF mode = "parts" THEN "fetch" ELSE "copy", "failed"}
    BY <1>7 DEF CreateTemp, Fail
  <2>3. mode \in {"parts", "artifact"}
    BY <1>1, <2>1 DEF ProducerInv
  <2>4. producer' = IF mode = "artifact" THEN "sending" ELSE "none"
    BY <1>7 DEF CreateTemp
  <2> QED
    BY <2>1, <2>2, <2>3, <2>4 DEF ProducerInv
<1>8. CASE Fetched
  BY <1>1, <1>8 DEF Fetched, ProducerInv, download, image
<1>9. CASE Produce
  <2>1. /\ producer = "sending" /\ producer' \in {"sent", "late", "broken"}
        /\ UNCHANGED <<mode, ipc, touched>>
    BY <1>9 DEF Produce, image
  <2> QED
    BY <1>1, <2>1 DEF ProducerInv
<1>10. CASE CopyArtifact
  <2>1. /\ ipc = "copy" /\ UNCHANGED <<mode, producer, touched>>
        /\ \/ producer \in {"sent", "late"} /\ ipc' = "open"
           \/ ipc' = "failed"
    BY <1>10 DEF CopyArtifact, Fail, download, image
  <2> QED
    BY <1>1, <2>1 DEF ProducerInv
<1>11. ASSUME NEW p \in Parts, Acquire(p) \/ DownloadPart(p) PROVE ProducerInv'
  BY <1>2, <1>11 DEF Acquire, DownloadPart, image
<1>12. CASE OpenTarball \/ ClearDir \/ ExtractEntry
  <2>1. /\ ipc \in {"open", "clear", "expand"} /\ UNCHANGED <<mode, producer>>
        /\ ipc' \in {"clear", "expand", "failed"}
    BY <1>12 DEF OpenTarball, ClearDir, ExtractEntry, Fail, download
  <2> QED
    BY <1>1, <2>1 DEF ProducerInv
<1>13. CASE EndOfArchive
  <2>1. /\ ipc = "expand" /\ UNCHANGED <<mode, producer>>
        /\ ipc' = CASE mode = "artifact" -> "join"
                    [] mode = "light"    -> "ok"
                    [] OTHER             -> "check"
    BY <1>13 DEF EndOfArchive, download
  <2> QED
    BY <1>1, <2>1 DEF ProducerInv
<1>14. CASE JoinProducer
  BY <1>1, <1>14 DEF JoinProducer, ProducerInv, download, image
<1>15. CASE SanityCheck
  BY <1>1, <1>15 DEF SanityCheck, ProducerInv, download, image
<1>16. CASE Return
  BY <1>3, <1>16 DEF Return
<1>17. CASE ipc = "lookup" /\ GitHubChanges /\ UNCHANGED <<mode, ipc, download, image>>
  BY <1>2, <1>17 DEF download, image
<1>18. CASE Killed
  BY <1>3, <1>18 DEF Killed
<1>19. CASE UNCHANGED vars
  BY <1>2, <1>19 DEF vars, download, image
<1> QED
  BY <1>4, <1>5, <1>6, <1>7, <1>8, <1>9, <1>10, <1>11, <1>12, <1>13, <1>14, <1>15, <1>16,
     <1>17, <1>18, <1>19 DEF Next, Command

-----------------------------------------------------------------------------
(* The tree.                                                               *)

\* Entries of a good tarball that were all expanded are the tree that was packed.
LEMMA TreeKept ==
  ASSUME InstallIInv, [Next]_vars
  PROVE  TreeInv'
<1>1. TreeInv
  BY DEF InstallIInv
<1>2. CASE ipc' \in {"idle", "lookup", "temp", "fetch", "copy", "open", "clear", "failed"}
  BY <1>2 DEF TreeInv
<1>3. CASE UNCHANGED <<mode, ipc, region, tree, unread>>
  BY <1>1, <1>3 DEF TreeInv, Corrupt
<1>4. ASSUME NEW m \in Modes, Begin(m) PROVE TreeInv'
  BY <1>2, <1>4 DEF Begin, Fail
<1>5. CASE Lookup \/ Produce
  BY <1>3, <1>5 DEF Lookup, Produce, download, image
<1>6. CASE LookupReturns \/ CreateTemp \/ Fetched \/ CopyArtifact \/ OpenTarball
  BY <1>2, <1>6 DEF LookupReturns, CreateTemp, Fetched, CopyArtifact, OpenTarball, Fail
<1>7. ASSUME NEW p \in Parts, Acquire(p) \/ DownloadPart(p) PROVE TreeInv'
  BY <1>2, <1>7 DEF Acquire, DownloadPart
<1>8. CASE ClearDir
  <2>1. CASE tree = <<>> /\ tree' = tree /\ unread' = Archive /\ ipc' = "expand"
    BY <2>1, ExpandingFirst DEF TreeInv
  <2>2. CASE ipc' = ipc \/ ipc' = "failed"
    BY <1>2, <1>8, <2>2 DEF ClearDir
  <2> QED
    BY <1>8, <2>1, <2>2 DEF ClearDir, Fail
<1>9. CASE ExtractEntry
  <2>1. PICK hdr \in unread :
          \/ tree' = Extract(tree, hdr) /\ unread' = unread \ {hdr} /\ ipc' = ipc
          \/ ipc' = "failed"
    BY <1>9 DEF ExtractEntry, Fail
  <2>2. CASE tree' = Extract(tree, hdr) /\ unread' = unread \ {hdr} /\ ipc' = ipc
    <3>1. ipc = "expand" /\ Expanding(tree, unread)
      BY <1>1, <1>9 DEF ExtractEntry, TreeInv
    <3>2. Expanding(tree', unread')
      BY <2>2, <3>1, ExpandingStep
    <3> QED
      BY <2>2, <3>1, <3>2 DEF TreeInv
  <2> QED
    BY <1>2, <2>1, <2>2
<1>10. CASE EndOfArchive
  <2>1. /\ ipc = "expand" /\ tree' = tree /\ (unread = {} \/ Corrupt)
        /\ Corrupt' = Corrupt /\ ipc' \in {"join", "ok", "check"}
    BY <1>10 DEF EndOfArchive, Corrupt, download
  <2>2. ~Corrupt => tree = Unpacked
    BY <1>1, <2>1, ExpandingLast DEF TreeInv
  <2> QED
    BY <2>1, <2>2 DEF TreeInv
<1>11. CASE JoinProducer \/ SanityCheck
  <2>1. /\ ipc \in {"join", "check"} /\ ipc' \in {"check", "ok", "failed"}
        /\ tree' = tree /\ Corrupt' = Corrupt
    BY <1>11 DEF JoinProducer, SanityCheck, Corrupt, download, image
  <2> QED
    BY <1>1, <2>1 DEF TreeInv
<1>12. CASE Return \/ Killed
  BY <1>2, <1>12 DEF Return, Killed, EndCommand
<1>13. CASE ipc = "lookup" /\ GitHubChanges /\ UNCHANGED <<mode, ipc, download, image>>
  BY <1>3, <1>13 DEF download, image
<1>14. CASE UNCHANGED vars
  BY <1>3, <1>14 DEF vars, download, image
<1> QED
  BY <1>4, <1>5, <1>6, <1>7, <1>8, <1>9, <1>10, <1>11, <1>12, <1>13, <1>14 DEF Next, Command

\* The image has nothing but directories and links.
LEMMA NodesKept ==
  ASSUME InstallIInv, [Next]_vars
  PROVE  \A p \in DOMAIN tree' : tree'[p] \in Nodes
<1>1. \A p \in DOMAIN tree : tree[p] \in Nodes
  BY DEF InstallIInv, TypeOK
<1>2. CASE UNCHANGED tree
  BY <1>1, <1>2
<1>3. CASE ClearDir
  <2>1. \A path : \A p \in DOMAIN Without(tree, path) : Without(tree, path)[p] \in Nodes
    BY <1>1 DEF Without
  <2> QED
    BY <1>2, <1>3, <2>1 DEF ClearDir
<1>4. CASE ExtractEntry
  <2>1. PICK hdr \in unread :
          tree' = Extract(tree, hdr) \/ tree' = tree \/ tree' = Placed(tree, hdr)
    BY <1>4 DEF ExtractEntry
  <2>2. Expanding(tree, unread)
    BY <1>4 DEF ExtractEntry, InstallIInv, TreeInv
  <2>3. CASE tree' = Extract(tree, hdr)
    BY <2>2, <2>3, ExpandingStep, ExpandingNodes
  <2>4. CASE tree' = Placed(tree, hdr)
    <3>1. PICK n \in DOMAIN Rootfs : hdr = Header(n)
      BY <2>2 DEF Expanding, Archive
    <3> QED
      BY <1>1, <2>4, <3>1, PlacedNodes
  <2> QED
    BY <1>2, <2>1, <2>3, <2>4
<1>5. CASE Lookup \/ LookupReturns \/ CreateTemp \/ Fetched \/ Produce \/ CopyArtifact
  BY <1>2, <1>5 DEF Lookup, LookupReturns, CreateTemp, Fetched, Produce, CopyArtifact, image
<1>6. CASE OpenTarball \/ EndOfArchive \/ JoinProducer \/ SanityCheck \/ Return
  BY <1>2, <1>6 DEF OpenTarball, EndOfArchive, JoinProducer, SanityCheck, Return,
       EndCommand, image
<1>7. ASSUME NEW p \in Parts, Acquire(p) \/ DownloadPart(p) PROVE UNCHANGED tree
  BY <1>7 DEF Acquire, DownloadPart, image
<1>8. ASSUME NEW m \in Modes, Begin(m) PROVE UNCHANGED tree
  BY <1>8 DEF Begin
<1>9. CASE Killed
  BY <1>2, <1>9 DEF Killed, EndCommand
<1>10. CASE ipc = "lookup" /\ GitHubChanges /\ UNCHANGED <<mode, ipc, download, image>>
  BY <1>2, <1>10 DEF image
<1>11. CASE UNCHANGED vars
  BY <1>2, <1>11 DEF vars, image
<1> QED
  BY <1>2, <1>3, <1>4, <1>5, <1>6, <1>7, <1>8, <1>9, <1>10, <1>11 DEF Next, Command

-----------------------------------------------------------------------------
(* Types.                                                                  *)

\* The variables of the command have their types.
CommandTypes ==
  /\ mode \in Modes
  /\ ipc \in {"idle", "lookup", "temp", "fetch", "copy", "open", "clear", "expand",
              "join", "check", "failed", "ok"}
  /\ part \in [Parts -> {"none", "waiting", "active", "ended", "failed"}]
  /\ region \in [Parts -> {"hole", "other", "full"}]
  /\ slots \in 0..Concurrency
  /\ {firstErr, touched} \subseteq BOOLEAN
  /\ producer \in {"none", "sending", "sent", "late", "broken"}
  /\ unread \subseteq Archive

\* Each step keeps the types; no more slots are taken than there are.
LEMMA TypesKept ==
  ASSUME InstallIInv, [Next]_vars
  PROVE  TypeOK'
<1>1. CommandTypes
  BY DEF InstallIInv, TypeOK, CommandTypes
<1>2. LookupTypeOK' /\ \A p \in DOMAIN tree' : tree'[p] \in Nodes
  BY LookupKept, NodesKept DEF LookupInv, LookupFacts
<1> SUFFICES CommandTypes'
  BY <1>2 DEF TypeOK, CommandTypes
<1>3. CASE UNCHANGED <<download, image, mode>> /\ ipc' = ipc
  BY <1>1, <1>3 DEF CommandTypes, download, image
<1>4. CASE EndCommand
  <2>1. slots' \in 0..Concurrency
    BY <1>4, ConcurrencyAssumption DEF EndCommand
  <2> QED
    BY <1>1, <1>4, <2>1 DEF EndCommand, CommandTypes
<1>5. ASSUME NEW m \in Modes, Begin(m) PROVE CommandTypes'
  BY <1>1, <1>5 DEF Begin, Fail, CommandTypes, download
<1>6. CASE Lookup
  BY <1>3, <1>6 DEF Lookup
<1>7. CASE LookupReturns
  BY <1>1, <1>7 DEF LookupReturns, Fail, CommandTypes, download, image
<1>8. CASE CreateTemp
  <2>1. ipc' \in {"fetch", "copy", "failed"}
    BY <1>1, <1>8 DEF CreateTemp, Fail, CommandTypes
  <2>2. part' \in [Parts -> {"none", "waiting", "active", "ended", "failed"}]
    BY <1>1, <1>8 DEF CreateTemp, CommandTypes
  <2>3. producer' \in {"none", "sending"}
    BY <1>8 DEF CreateTemp
  <2>4. UNCHANGED <<mode, region, slots, firstErr, touched, unread>>
    BY <1>8 DEF CreateTemp, image
  <2> QED
    BY <1>1, <2>1, <2>2, <2>3, <2>4 DEF CommandTypes
<1>9. CASE Fetched \/ CopyArtifact \/ OpenTarball \/ JoinProducer \/ SanityCheck
  <2>1. ipc' \in {"failed", "open", "clear", "check", "ok"}
    BY <1>9 DEF Fetched, CopyArtifact, OpenTarball, JoinProducer, SanityCheck, Fail
  <2>2. UNCHANGED <<mode, download, image>>
    BY <1>9 DEF Fetched, CopyArtifact, OpenTarball, JoinProducer, SanityCheck
  <2> QED
    BY <1>1, <2>1, <2>2 DEF CommandTypes, download, image
<1>10. CASE Produce
  <2>1. producer' \in {"sent", "late", "broken"}
    BY <1>10 DEF Produce
  <2>2. UNCHANGED <<mode, ipc, part, region, slots, firstErr, image>>
    BY <1>10 DEF Produce
  <2> QED
    BY <1>1, <2>1, <2>2 DEF CommandTypes, image
<1>11. ASSUME NEW p \in Parts, Acquire(p) PROVE CommandTypes'
  <2>1. slots' \in 0..Concurrency
    BY <1>1, <1>11, ConcurrencyAssumption DEF Acquire, CommandTypes
  <2>2. part' \in [Parts -> {"none", "waiting", "active", "ended", "failed"}]
    BY <1>1, <1>11 DEF Acquire, CommandTypes
  <2>3. UNCHANGED <<mode, ipc, region, firstErr, producer, image>>
    BY <1>11 DEF Acquire
  <2> QED
    BY <1>1, <2>1, <2>2, <2>3 DEF CommandTypes, image
<1>12. ASSUME NEW p \in Parts, DownloadPart(p) PROVE CommandTypes'
  <2>1. slots' \in 0..Concurrency
    <3> DEFINE active == {q \in Parts : part[q] = "active"}
    <3>1. p \in active /\ slots' = slots - 1 /\ slots = Cardinality(active)
      BY <1>12 DEF DownloadPart, InstallIInv, DownloadInv
    <3>2. slots \in Nat \ {0}
      BY <3>1, OneLess
    <3> HIDE DEF active
    <3> QED
      BY <1>1, <3>1, <3>2, ConcurrencyAssumption DEF CommandTypes
  <2>2. part' \in [Parts -> {"none", "waiting", "active", "ended", "failed"}]
    BY <1>1, <1>12 DEF DownloadPart, CommandTypes
  <2>3. region' \in [Parts -> {"hole", "other", "full"}]
    BY <1>1, <1>12 DEF DownloadPart, CommandTypes
  <2>4. firstErr' \in BOOLEAN
    BY <1>1, <1>12 DEF DownloadPart, CommandTypes
  <2>5. UNCHANGED <<mode, ipc, producer, image>>
    BY <1>12 DEF DownloadPart
  <2> QED
    BY <1>1, <2>1, <2>2, <2>3, <2>4, <2>5 DEF CommandTypes, image
<1>13. CASE ClearDir \/ ExtractEntry \/ EndOfArchive
  <2>1. /\ ipc' \in {"clear", "expand", "failed", "join", "ok", "check"}
        /\ unread' \subseteq Archive /\ touched' \in BOOLEAN
    BY <1>1, <1>13 DEF ClearDir, ExtractEntry, EndOfArchive, Fail, CommandTypes
  <2>2. UNCHANGED <<mode, download>>
    BY <1>13 DEF ClearDir, ExtractEntry, EndOfArchive
  <2> QED
    BY <1>1, <2>1, <2>2 DEF CommandTypes, download
<1>14. CASE Return
  BY <1>4, <1>14 DEF Return
<1>15. CASE ipc = "lookup" /\ GitHubChanges /\ UNCHANGED <<mode, ipc, download, image>>
  BY <1>3, <1>15
<1>16. CASE Killed
  BY <1>4, <1>16 DEF Killed
<1>17. CASE UNCHANGED vars
  BY <1>3, <1>17 DEF vars
<1> QED
  BY <1>5, <1>6, <1>7, <1>8, <1>9, <1>10, <1>11, <1>12, <1>13, <1>14, <1>15, <1>16,
     <1>17 DEF Next, Command

-----------------------------------------------------------------------------
(* Theorems.                                                               *)

\* The invariant holds in the first state and every step keeps it.
THEOREM InstallInductive ==
  Spec => []InstallIInv
<1>1. Init => InstallIInv
  <2> SUFFICES ASSUME Init PROVE InstallIInv
    OBVIOUS
  <2>1. LookupTypeOK /\ LookupInv
    BY DEF Init, NoLookup, LookupTypeOK, LookupInv, LookupFacts, LatestPicked
  <2>2. \A p \in DOMAIN tree : tree[p] \in Nodes
    BY OldTreeAssumption DEF Init
  <2>3. slots = 0 /\ part = [p \in Parts |-> "none"] /\ ipc = "idle"
    BY DEF Init, NoDownload
  <2>4. TypeOK
    <3>1. slots \in 0..Concurrency
      BY <2>3, ConcurrencyAssumption
    <3> QED
      BY <2>1, <2>2, <3>1 DEF Init, NoDownload, TypeOK
  <2>5. DownloadInv
    BY <2>3, NoneActive DEF DownloadInv, PartFailed
  <2>6. ProducerInv /\ TreeInv
    BY <2>3 DEF Init, NoDownload, ProducerInv, TreeInv
  <2> QED
    BY <2>1, <2>4, <2>5, <2>6 DEF InstallIInv
<1>2. InstallIInv /\ [Next]_vars => InstallIInv'
  BY TypesKept, LookupKept, DownloadKept, ProducerKept, TreeKept DEF InstallIInv
<1> QED
  BY <1>1, <1>2, PTL DEF Spec

\* Every variable keeps its type, and the parts that are downloaded at a time
\* are never more than --concurrency allows.
THEOREM InstallTypeCorrect ==
  Spec => []TypeOK
<1>1. InstallIInv => TypeOK
  BY DEF InstallIInv
<1> QED
  BY <1>1, InstallInductive, PTL

\* LatestArtifact returns no artifact that is older than a usable one it could
\* have found, for any page size and whatever is uploaded or expires meanwhile.
THEOREM LatestIsPicked ==
  Spec => []LatestPicked
<1>1. InstallIInv => LatestPicked
  BY DEF InstallIInv, LookupInv, LookupFacts
<1> QED
  BY <1>1, InstallInductive, PTL

\* A command that reports success has put in place exactly the tree that was
\* packed, for any tree, any order of its entries and any tree it replaces.
THEOREM SuccessIsComplete ==
  Spec => []SuccessMeansNew
<1>1. InstallIInv => SuccessMeansNew
  BY DEF InstallIInv, DownloadInv, ProducerInv, TreeInv, SuccessMeansNew
<1> QED
  BY <1>1, InstallInductive, PTL

\* extractTar finds the place of every entry free, whatever was there before.
THEOREM EntriesAlwaysFit ==
  Spec => []EntriesFit
<1>1. InstallIInv => EntriesFit
  BY ExpandingFits DEF InstallIInv, TreeInv, EntriesFit
<1> QED
  BY <1>1, InstallInductive, PTL

\* A download that fails leaves the image as it was, for any number of parts
\* and of slots.
THEOREM FailureKeepsImage ==
  Spec => []FailedDownloadKeepsImage
<1>1. InstallIInv => FailedDownloadKeepsImage
  BY DEF InstallIInv, DownloadInv, ProducerInv, FailedDownloadKeepsImage
<1> QED
  BY <1>1, InstallInductive, PTL
=============================================================================
