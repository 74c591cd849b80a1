----------------------------- MODULE ImageInstall -----------------------------
(***************************************************************************)
(* Installation of a runner image, cmd/actions-runner-processor/image.go   *)
(* and installLightweightImage of setup.go.                                *)
(*                                                                         *)
(* Four ways to get the tarball:                                          *)
(*   "parts"     the parts of a release, downloaded in parallel into one   *)
(*               file, each at its own offset;                             *)
(*   "stream"    one URL, expanded while it is read;                       *)
(*   "light"     the same with the lightweight image of a release;         *)
(*   "artifact"  a zip written to a file through a pipe.                   *)
(* Then the tree in the subvolume is cleared and the tarball expanded, one *)
(* entry at a time.                                                        *)
(***************************************************************************)
EXTENDS TarExtract, ArtifactLookup

CONSTANTS
  OldTree,      \* the image that is there at first
  Parts,        \* the parts of the split tarball
  Concurrency,  \* --concurrency, after 0 became the number of parts
  Modes,        \* the sources the operator uses
  Faults        \* "call", "replaced", "disk", "kill"

ASSUME OldTreeAssumption == \A p \in DOMAIN OldTree : OldTree[p] \in Nodes
ASSUME PartsAssumption == IsFiniteSet(Parts) /\ Parts # {}
ASSUME ConcurrencyAssumption == Concurrency \in Nat \ {0}
ASSUME ModesAssumption == Modes \subseteq {"parts", "stream", "light", "artifact"}
ASSUME FaultsAssumption == Faults \subseteq {"call", "replaced", "disk", "kill"}

VARIABLES
  mode,      \* the source of this installation
  ipc,       \* where the command is
  part,      \* the goroutine of each part
  region,    \* the part's bytes in the temporary file
  slots,     \* tokens in the semaphore channel
  firstErr,  \* some part's download failed
  producer,  \* the goroutine that writes the artifact into the pipe
  tree,      \* the image
  unread,    \* entries of the tarball that are not expanded yet
  touched    \* history: the command has changed the tree

download == <<part, region, slots, firstErr, producer>>
image == <<tree, unread, touched>>
vars == <<mode, ipc, download, image, lookup>>

TypeOK ==
  /\ LookupTypeOK
  /\ mode \in Modes
  /\ ipc \in {"idle", "lookup", "temp", "fetch", "copy", "open", "clear", "expand",
              "join", "check", "failed", "ok"}
  /\ part \in [Parts -> {"none", "waiting", "active", "ended", "failed"}]
  /\ region \in [Parts -> {"hole", "other", "full"}]
  /\ slots \in 0..Concurrency
  /\ firstErr \in BOOLEAN /\ touched \in BOOLEAN
  /\ producer \in {"none", "sending", "sent", "late", "broken"}
  /\ \A p \in DOMAIN tree : tree[p] \in Nodes
  /\ unread \subseteq Archive

NoDownload ==
  /\ part = [p \in Parts |-> "none"]
  /\ region = [p \in Parts |-> "hole"]
  /\ slots = 0 /\ firstErr = FALSE /\ producer = "none"

Init ==
  /\ mode \in Modes
  /\ ipc = "idle"
  /\ NoDownload
  /\ tree = OldTree /\ unread = {} /\ touched = FALSE
  /\ NoLookup

-----------------------------------------------------------------------------
(* The beginning.                                                          *)

Fail == ipc' = "failed"

\* ensureImageSubvolume; then the release is listed, the URL is opened or the
\* artifact is looked up.
Begin(m) ==
  /\ ipc = "idle"
  /\ mode' = m
  /\ touched' = FALSE
  /\ \/ m = "parts" /\ ipc' = "temp" /\ UNCHANGED lookup
     \/ m \in {"stream", "light"} /\ ipc' = "open" /\ UNCHANGED lookup
     \/ m = "artifact" /\ ipc' = "lookup" /\ BeginLookup
     \/ "call" \in Faults /\ Fail /\ UNCHANGED lookup
  /\ UNCHANGED <<download, tree, unread>>

Lookup ==
  /\ ipc = "lookup"
  /\ LookupStep \/ ("call" \in Faults /\ LookupFails)
  /\ UNCHANGED <<mode, ipc, download, image>>

LookupReturns ==
  /\ ipc = "lookup"
  /\ \/ kpc = "found" /\ ipc' = "temp"
     \/ kpc = "failed" /\ Fail
  /\ EndLookup
  /\ UNCHANGED <<mode, download, image>>

\* CreateTemp and Truncate, then one goroutine per part.  The producer of an
\* artifact is started before the file is made.  (HostSetup has the room that
\* the file takes, and who removes it.)
CreateTemp ==
  /\ ipc = "temp"
  /\ \/ /\ ipc' = IF mode = "parts" THEN "fetch" ELSE "copy"
        /\ part' = [p \in Parts |-> IF mode = "parts" THEN "waiting" ELSE "none"]
     \/ "disk" \in Faults /\ Fail /\ UNCHANGED part
  /\ producer' = IF mode = "artifact" THEN "sending" ELSE "none"
  /\ UNCHANGED <<mode, region, slots, firstErr, image, lookup>>

-----------------------------------------------------------------------------
(* installFullFromRelease: the goroutine of a part.                        *)

\* Mutant: no semaphore.
AcquireUnbounded(p) ==
  /\ ipc = "fetch" /\ part[p] = "waiting"
  /\ slots' = slots + 1
  /\ part' = [part EXCEPT ![p] = "active"]
  /\ UNCHANGED <<mode, ipc, region, firstErr, producer, image, lookup>>

\* sem <- struct{}{}
Acquire(p) ==
  /\ ipc = "fetch" /\ part[p] = "waiting"
  /\ slots < Concurrency
  /\ slots' = slots + 1
  /\ part' = [part EXCEPT ![p] = "active"]
  /\ UNCHANGED <<mode, ipc, region, firstErr, producer, image, lookup>>

\* Mutants: the last result wins; a failed download keeps its slot.
DownloadLastResult(p) ==
  /\ ipc = "fetch" /\ part[p] = "active"
  /\ \/ /\ region' = [region EXCEPT ![p] = "full"]
        /\ part' = [part EXCEPT ![p] = "ended"]
        /\ firstErr' = FALSE
     \/ /\ "call" \in Faults
        /\ part' = [part EXCEPT ![p] = "failed"]
        /\ firstErr' = TRUE /\ UNCHANGED region
  /\ slots' = slots - 1
  /\ UNCHANGED <<mode, ipc, producer, image, lookup>>

DownloadKeepsSlot(p) ==
  /\ ipc = "fetch" /\ part[p] = "active"
  /\ \/ /\ region' = [region EXCEPT ![p] = "full"]
        /\ part' = [part EXCEPT ![p] = "ended"]
        /\ slots' = slots - 1 /\ UNCHANGED firstErr
     \/ /\ "call" \in Faults
        /\ part' = [part EXCEPT ![p] = "failed"]
        /\ firstErr' = TRUE /\ UNCHANGED <<region, slots>>
  /\ UNCHANGED <<mode, ipc, producer, image, lookup>>

\* downloadReleasePart.  The parts lie side by side, so no two goroutines write
\* the same bytes.  An asset that was replaced since the release was listed has
\* other bytes, of another size, without an error.  The slot is given back in
\* any case.
DownloadPart(p) ==
  /\ ipc = "fetch" /\ part[p] = "active"
  /\ \/ /\ \/ region' = [region EXCEPT ![p] = "full"]
           \/ "replaced" \in Faults /\ region' = [region EXCEPT ![p] = "other"]
        /\ part' = [part EXCEPT ![p] = "ended"]
        /\ UNCHANGED firstErr
     \/ /\ "call" \in Faults
        /\ \E b \in {"hole", "other", "full"} : region' = [region EXCEPT ![p] = b]
        /\ part' = [part EXCEPT ![p] = "failed"]
        /\ firstErr' = TRUE
  /\ slots' = slots - 1
  /\ UNCHANGED <<mode, ipc, producer, image, lookup>>

\* wg.Wait
Fetched ==
  /\ ipc = "fetch"
  /\ \A p \in Parts : part[p] \in {"ended", "failed"}
  /\ ipc' = IF firstErr THEN "failed" ELSE "open"
  /\ UNCHANGED <<mode, download, image, lookup>>

-----------------------------------------------------------------------------
(* installFullFromArtifact: a pipe between two goroutines.                 *)

\* Mutant: the result is put into a channel without room for it, before the
\* pipe is closed.
ProduceUnbuffered ==
  /\ producer = "sending" /\ ipc = "join"
  /\ producer' \in {"sent"} \union (IF "call" \in Faults THEN {"late", "broken"} ELSE {})
  /\ UNCHANGED <<mode, ipc, part, region, slots, firstErr, image, lookup>>

\* DownloadArtifact.  A write to the pipe blocks until io.Copy reads it, so that
\* all the bytes go only while the reader copies; the call can still fail after
\* the last one, or before.  Its goroutine puts the result into the channel,
\* which has room for it, and then closes the pipe without an error: the reader
\* sees an end of file in any case.
Produce ==
  /\ producer = "sending"
  /\ \/ ipc = "copy" /\ producer' = "sent"
     \/ ipc = "copy" /\ "call" \in Faults /\ producer' = "late"
     \/ "call" \in Faults /\ producer' = "broken"
  /\ UNCHANGED <<mode, ipc, part, region, slots, firstErr, image, lookup>>

\* io.Copy into the zip ends with the pipe, or fails on the disk.  A zip that
\* was cut short has no directory and does not open.
CopyArtifact ==
  /\ ipc = "copy"
  /\ \/ producer \in {"sent", "late"} /\ ipc' = "open"
     \/ producer = "broken" /\ Fail
     \/ "disk" \in Faults /\ Fail
  /\ UNCHANGED <<mode, download, image, lookup>>

-----------------------------------------------------------------------------
(* The tree.                                                               *)

Corrupt == mode = "parts" /\ \E p \in Parts : region[p] # "full"

\* gzip.NewReader reads the header and nothing else.
OpenTarball ==
  /\ ipc = "open"
  /\ \/ ipc' = "clear"
     \/ (Corrupt \/ "call" \in Faults) /\ Fail
  /\ UNCHANGED <<mode, download, image, lookup>>

\* Mutant: the tarball is expanded over what is there.
ClearNothing ==
  /\ ipc = "clear"
  /\ touched' = TRUE
  /\ ipc' = "expand" /\ unread' = Archive
  /\ UNCHANGED <<mode, download, tree, lookup>>

\* clearDir calls os.RemoveAll for one entry of the directory after the other,
\* which removes what is below before what is above.
ClearDir ==
  /\ ipc = "clear"
  /\ touched' = TRUE
  /\ \/ \E p \in Leaves(tree) : tree' = Without(tree, p)
        /\ UNCHANGED <<ipc, unread>>
     \/ tree = <<>>
        /\ ipc' = "expand" /\ unread' = Archive
        /\ UNCHANGED tree
     \/ "disk" \in Faults /\ Fail
        /\ UNCHANGED <<tree, unread>>
  /\ UNCHANGED <<mode, download, lookup>>

\* One round of extractTar's loop.  A stream can break off, and a round that
\* fails may have made its node (as one that is killed may).
ExtractEntry ==
  /\ ipc = "expand"
  /\ \E hdr \in unread :
       \/ /\ CanExtract(tree, hdr)
          /\ tree' = Extract(tree, hdr)
          /\ unread' = unread \ {hdr}
          /\ UNCHANGED ipc
       \/ /\ \/ ~CanExtract(tree, hdr)
             \/ Corrupt
             \/ "disk" \in Faults
             \/ mode \in {"stream", "light"} /\ "call" \in Faults
          /\ Fail
          /\ tree' = tree \/ (CanExtract(tree, hdr) /\ tree' = Placed(tree, hdr))
          /\ UNCHANGED unread
  /\ UNCHANGED <<mode, download, touched, lookup>>

\* extractTar returns at the first entry of zeros.  It reads nothing behind it,
\* gzip's checksum neither: bytes of another tarball can end it early.
EndOfArchive ==
  /\ ipc = "expand"
  /\ unread = {} \/ Corrupt
  /\ ipc' = CASE mode = "artifact" -> "join"
              [] mode = "light"    -> "ok"
              [] OTHER             -> "check"
  /\ unread' = {}
  /\ UNCHANGED <<mode, download, tree, touched, lookup>>

\* Mutant: the result in the channel is not asked for.
JoinDropped ==
  /\ ipc = "join"
  /\ ipc' = "check"
  /\ UNCHANGED <<mode, download, image, lookup>>

\* <-done.  The copy has ended, so the result is there.
JoinProducer ==
  /\ ipc = "join"
  /\ producer \in {"sent", "late"}
  /\ ipc' = IF producer = "sent" THEN "check" ELSE "failed"
  /\ UNCHANGED <<mode, download, image, lookup>>

\* installFullImage's last look; the lightweight image is not looked at.
SanityCheck ==
  /\ ipc = "check"
  /\ ipc' = IF LooksLikeRunnerImage(tree) THEN "ok" ELSE "failed"
  /\ UNCHANGED <<mode, download, image, lookup>>

\* The command is over: its goroutines and its memory are gone.
EndCommand ==
  /\ ipc' = "idle"
  /\ part' = [p \in Parts |-> "none"]
  /\ region' = [p \in Parts |-> "hole"]
  /\ slots' = 0 /\ firstErr' = FALSE /\ producer' = "none"
  /\ unread' = {}
  /\ UNCHANGED <<mode, tree, touched>>

\* The end of the process, which does not wait for a producer that still sends;
\* the operator may try again.
Return ==
  /\ ipc \in {"failed", "ok"}
  /\ EndCommand
  /\ UNCHANGED lookup

\* SIGINT, SIGTERM or a crash.
Killed ==
  /\ "kill" \in Faults
  /\ ipc # "idle"
  /\ EndCommand
  /\ EndLookup

Command ==
  \/ Lookup \/ LookupReturns
  \/ CreateTemp \/ Fetched \/ Produce \/ CopyArtifact
  \/ \E p \in Parts : Acquire(p) \/ DownloadPart(p)
  \/ OpenTarball \/ ClearDir \/ ExtractEntry \/ EndOfArchive
  \/ JoinProducer \/ SanityCheck \/ Return

Next ==
  \/ \E m \in Modes : Begin(m)
  \/ Command
  \/ ipc = "lookup" /\ GitHubChanges /\ UNCHANGED <<mode, ipc, download, image>>
  \/ Killed

Spec == Init /\ [][Next]_vars

\* A call or a disk goes wrong where it could have gone well.
Misfortune ==
  \/ ipc \in {"temp", "open", "clear"} /\ Fail
  \/ ipc = "copy" /\ producer # "broken" /\ Fail
  \/ ipc = "expand" /\ (\A hdr \in unread : CanExtract(tree, hdr)) /\ Fail
  \/ producer = "sending" /\ producer' = "broken"

\* The command's goroutines run, and no failure is counted on.  http.Get and
\* io.Copy have no timeout: that they return is an assumption about the network.
FairSpec == Spec /\ WF_vars(Command /\ ~Misfortune)

-----------------------------------------------------------------------------
(* Safety.                                                                 *)

PartFailed == \E p \in Parts : part[p] = "failed"

\* A command that reports success has put exactly the packed tree in place, with
\* every owner and every mode, whatever tree an earlier command left and in
\* whatever order the entries came, and no call of it failed: no failed part,
\* broken pipe or disk error is taken for success, whichever part fails first
\* and whichever finishes last.  (A part that was replaced is not detected, and
\* hard links are skipped.)
SuccessMeansNew ==
  ipc = "ok" =>
    /\ ~PartFailed /\ producer \in {"none", "sent"}
    /\ ~Corrupt => tree = Unpacked

\* Unpacking does not get stuck on what is there: whichever entries were read
\* before, no directory, file or link of the tarball finds its place taken, nor
\* anything that an installation before this one left half done.
EntriesFit == ipc = "expand" => \A hdr \in unread : CanExtract(tree, hdr)

\* A download that fails, of any part in any order, leaves the tree as it was:
\* it is cleared only after every byte of every part or of the artifact is here.
FailedDownloadKeepsImage == PartFailed \/ producer = "broken" => ~touched

\* Every command comes to its end without the help of a failure, as long as the
\* network answers: no part waits for ever for a slot, and the two ends of the
\* pipe, one blocked on its write and one on its read or on the result, do not
\* wait for each other.
CommandEnds == ipc # "idle" ~> ipc = "idle"

-----------------------------------------------------------------------------
(* What a comment says and the code does not do.                           *)

\* image.go:542 says that hard links are handled.  They are skipped.
HardLinksHandled == ipc = "ok" /\ ~Corrupt => HardLinks \subseteq DOMAIN tree
=============================================================================
