---------------------------- MODULE ArtifactLookup ----------------------------
(***************************************************************************)
(* LatestArtifact of internal/client/client.go: the newest artifact of     *)
(* the image build that has not expired, looked for page by page while     *)
(* builds finish and artifacts expire or are deleted.                      *)
(***************************************************************************)
EXTENDS Pages

CONSTANT Artifacts  \* the artifacts that may exist, a later one is larger

ASSUME ArtifactsAssumption == Artifacts \subseteq Nat /\ IsFiniteSet(Artifacts)

VARIABLES
  kpc,      \* where the lookup is
  kpage,    \* the page to read next
  listing,  \* GitHub: the artifacts of the repository
  usable,   \* those of them that have the prefix and have not expired
  wanted,   \* history: what was usable when the lookup began, and still is
  shifted,  \* history: an artifact was deleted meanwhile
  picked    \* the artifact that was found

lookup == <<kpc, kpage, listing, usable, wanted, shifted, picked>>

LookupTypeOK ==
  /\ kpc \in {"off", "auth", "pages", "found", "failed"}
  /\ kpage \in Nat /\ shifted \in BOOLEAN
  /\ listing \subseteq Artifacts /\ usable \subseteq listing /\ wanted \subseteq usable
  /\ picked \subseteq Artifacts /\ (picked # {} <=> kpc = "found")

NoLookup ==
  /\ kpc = "off" /\ kpage = 0
  /\ listing = {} /\ usable = {} /\ wanted = {} /\ shifted = FALSE /\ picked = {}

EndLookup ==
  /\ kpc' = "off" /\ kpage' = 0
  /\ listing' = {} /\ usable' = {} /\ wanted' = {} /\ shifted' = FALSE /\ picked' = {}

BeginLookup ==
  /\ kpc = "off"
  /\ kpc' = "auth"
  /\ UNCHANGED <<kpage, listing, usable, wanted, shifted, picked>>

\* createAppJWT, resolveInstallationID, createInstallationToken.
Authorize ==
  /\ kpc = "auth"
  /\ \E S \in SUBSET Artifacts : \E T \in SUBSET S :
       listing' = S /\ usable' = T /\ wanted' = T
  /\ kpc' = "pages" /\ kpage' = 1
  /\ UNCHANGED <<shifted, picked>>

\* Mutant: the page is counted up before the comparison.
NoMorePagesEarly == (kpage + 1) * PageSize >= Cardinality(listing)

\* total_count is of the same answer as the page.
NoMorePages == kpage * PageSize >= Cardinality(listing) \/ Page(listing, kpage) = {}

ReadPage ==
  /\ kpc = "pages"
  /\ LET hits == usable \intersect Page(listing, kpage)
     IN \/ /\ hits # {}
           /\ picked' = {a \in hits : \A b \in hits : b <= a}
           /\ kpc' = "found" /\ UNCHANGED kpage
        \/ /\ hits = {} /\ NoMorePages
           /\ kpc' = "failed" /\ UNCHANGED <<kpage, picked>>
        \/ /\ hits = {} /\ ~NoMorePages
           /\ kpage' = kpage + 1 /\ UNCHANGED <<kpc, picked>>
  /\ UNCHANGED <<listing, usable, wanted, shifted>>

LookupFails ==
  /\ kpc \in {"auth", "pages"}
  /\ kpc' = "failed"
  /\ wanted' = {}
  /\ UNCHANGED <<kpage, listing, usable, shifted, picked>>

LookupStep == Authorize \/ ReadPage

\* Meanwhile at GitHub.
Upload(a) ==
  /\ kpc = "pages"
  /\ a \in Artifacts /\ \A b \in listing : a > b
  /\ listing' = listing \union {a}
  /\ usable' \in {usable, usable \union {a}}
  /\ UNCHANGED <<kpc, kpage, wanted, shifted, picked>>

ArtifactExpires(a) ==
  /\ kpc = "pages" /\ a \in usable
  /\ usable' = usable \ {a} /\ wanted' = wanted \ {a}
  /\ UNCHANGED <<kpc, kpage, listing, shifted, picked>>

Delete(a) ==
  /\ kpc = "pages" /\ a \in listing
  /\ listing' = listing \ {a} /\ usable' = usable \ {a} /\ wanted' = wanted \ {a}
  /\ shifted' = TRUE
  /\ UNCHANGED <<kpc, kpage, picked>>

GitHubChanges == \E a \in Artifacts : Upload(a) \/ ArtifactExpires(a) \/ Delete(a)

\* Whatever is uploaded or expires while the pages are read, no usable artifact
\* that was there from the beginning is newer than the one that is installed,
\* and "none found" is said only when there was none.  (A deletion shifts the
\* entries behind it to a page that was read.)
LatestPicked ==
  kpc \in {"found", "failed"} /\ ~shifted =>
    \A a \in wanted : \E b \in picked : a <= b
=============================================================================
