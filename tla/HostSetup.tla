------------------------------ MODULE HostSetup ------------------------------
(***************************************************************************)
(* `actions-runner-processor setup`: cmd/actions-runner-processor/setup.go,*)
(* with ensureImageSubvolume of image.go.                                  *)
(*                                                                         *)
(* The command is a sequence of steps on state that outlives it: a backing *)
(* file, its mount, a subvolume, the image in it, NAT, the enabled         *)
(* service.  It can fail or be killed between any two of them, the host    *)
(* can reboot, and the operator runs it again, for either kind of image    *)
(* and with any size.  The service starts when it finds a subvolume.       *)
(***************************************************************************)
EXTENDS Integers

CONSTANTS
  ToolsInstalled,   \* btrfs-progs is there from the start
  TypedSizes,       \* what the operator gives as --size or at the prompt
  LightweightSize,  \* the default for the lightweight image
  Compressed,       \* the parts of the full image together
  Expanded,         \* the tree of each kind of image
  Free,             \* the free space of the host's disk
  MkfsMinimum,      \* mkfs.btrfs refuses less
  MaxLitter,        \* bound: temporary files that commands leave
  Faults            \* "fail": a step fails; "kill": the command is killed;
                    \* "reboot": the host restarts

Kinds == {"lightweight", "full"}

ASSUME SetupAssumption ==
  /\ ToolsInstalled \in BOOLEAN
  /\ Faults \subseteq {"fail", "kill", "reboot"}
ASSUME SizesAssumption ==
  /\ TypedSizes \subseteq Nat
  /\ {LightweightSize, Compressed, Free, MkfsMinimum, MaxLitter} \subseteq Nat
  /\ Expanded \in [Kinds -> Nat]

VARIABLES
  spc,       \* where runSetup is; "idle" when it does not run
  kind,      \* --image of this command
  size,      \* the size it resolved
  tools,     \* mkfs.btrfs is in the PATH
  img,       \* the backing file: "absent", "blank" (sized only), "formatted"
  capacity,  \* its size
  mounted,   \* it is mounted as btrfs at the mount point
  unit,      \* the .mount unit file is written
  subvol,    \* the image subvolume exists in it
  image,     \* the tree in the subvolume: "none", "partial", or a kind
  litter,    \* temporary files that commands left in the backing
  nat,       \* outbound NAT of the runner zone: "none", "skipped", "set"
  enabled,   \* the processor's service is enabled
  service    \* "stopped", "starting" (again and again), "serving"

command == <<kind, size>>
backing == <<img, capacity>>
content == <<subvol, image, litter>>
disk == <<backing, content>>
host == <<tools, mounted, unit, nat, enabled, service>>
vars == <<spc, command, disk, host>>

\* Types, and that a subvolume is only ever found on a formatted backing.
TypeOK ==
  /\ spc \in {"idle", "size", "backing", "format", "unit", "mount", "subvol",
              "image", "extract", "nat", "service", "complete"}
  /\ kind \in Kinds /\ size \in Nat /\ capacity \in Nat /\ litter \in 0..MaxLitter
  /\ {tools, mounted, unit, subvol, enabled} \subseteq BOOLEAN
  /\ service \in {"stopped", "starting", "serving"}
  /\ nat \in {"none", "skipped", "set"}
  /\ img \in {"absent", "blank", "formatted"}
  /\ image \in {"none", "partial"} \union Kinds
  /\ mounted \/ subvol => img = "formatted"

Init ==
  /\ spc = "idle" /\ tools = ToolsInstalled
  /\ img = "absent" /\ image = "none"
  /\ mounted = FALSE /\ unit = FALSE /\ subvol = FALSE
  /\ nat = "none" /\ enabled = FALSE /\ service = "stopped"
  /\ kind \in Kinds /\ size = 0 /\ capacity = 0 /\ litter = 0

-----------------------------------------------------------------------------
(* runSetup.                                                               *)

\* An error is printed and the command exits; nothing is undone.
GiveUp == "fail" \in Faults /\ spc' = "idle"

Setup ==
  /\ spc = "idle"
  /\ spc' = "size"
  /\ kind' \in Kinds
  /\ UNCHANGED <<size, disk, host>>

\* 80% of the free space and three times the tarball, floored at the default of
\* the lightweight image.
Larger(a, b) == IF a > b THEN a ELSE b
ComputeFullSize == Larger(Larger(Compressed * 3, (Free * 4) \div 5), LightweightSize)
DefaultBackingSize == IF kind = "full" THEN ComputeFullSize ELSE LightweightSize

\* resolveBackingSize: --size, the default, or the operator's answer to it.
\* parseSize takes any number, and the operator may abort.
ResolveBackingSize ==
  /\ spc = "size"
  /\ \/ size' \in {DefaultBackingSize} \union TypedSizes /\ spc' = "backing"
     \/ GiveUp /\ UNCHANGED size
  /\ UNCHANGED <<kind, disk, host>>

\* Mutants: the file is created and formatted whether it exists or not; a file
\* that exists is taken for mounted.
EnsureBackingAlways ==
  /\ spc = "backing"
  /\ \/ /\ mounted
        /\ spc' = "subvol" /\ size' = 0
        /\ UNCHANGED backing
     \/ /\ ~mounted
        /\ img' = "blank" /\ capacity' = size /\ size' = 0
        /\ spc' = "format" \/ GiveUp
  /\ UNCHANGED <<kind, content, host>>

EnsureBackingUnmounted ==
  /\ spc = "backing"
  /\ size' = 0
  /\ \/ /\ mounted \/ img # "absent"
        /\ spc' = "subvol"
        /\ UNCHANGED backing
     \/ /\ ~mounted /\ img = "absent"
        /\ img' = "blank" /\ capacity' = size
        /\ spc' = "format"
  /\ UNCHANGED <<kind, content, host>>

\* ensureBtrfsBacking up to truncateFile: a file that exists is taken for a
\* formatted one and keeps its size.  The file is created before it is sized.
EnsureBacking ==
  /\ spc = "backing"
  /\ size' = 0
  /\ \/ /\ mounted
        /\ spc' = "subvol"
        /\ UNCHANGED backing
     \/ /\ ~mounted /\ img # "absent"
        /\ spc' = "unit"
        /\ UNCHANGED backing
     \/ /\ ~mounted /\ img = "absent"
        /\ \/ img' = "blank" /\ capacity' = size /\ spc' = "format"
           \/ img' = "blank" /\ capacity' = 0 /\ GiveUp
           \/ UNCHANGED backing /\ GiveUp
  /\ UNCHANGED <<kind, content, host>>

\* mkfsBtrfs, which needs its tool and room for its structures.
Format ==
  /\ spc = "format"
  /\ \/ /\ tools /\ capacity >= MkfsMinimum
        /\ img' = "formatted" /\ subvol' = FALSE /\ image' = "none" /\ litter' = 0
        /\ spc' = "unit"
     \/ /\ ~tools \/ capacity < MkfsMinimum \/ "fail" \in Faults
        /\ spc' = "idle"
        /\ UNCHANGED <<img, content>>
  /\ UNCHANGED <<command, capacity, host>>

\* The unit file is written anew in every run that mounts.
WriteMountUnit ==
  /\ spc = "unit"
  /\ \/ unit' = TRUE /\ spc' = "mount"
     \/ GiveUp /\ UNCHANGED unit
  /\ UNCHANGED <<command, disk, tools, mounted, nat, enabled, service>>

\* systemctl start or else mount -o loop: either can only mount a formatted file.
Mount ==
  /\ spc = "mount"
  /\ \/ /\ img = "formatted"
        /\ mounted' = TRUE
        /\ spc' = "subvol"
     \/ /\ img # "formatted" \/ "fail" \in Faults
        /\ spc' = "idle"
        /\ UNCHANGED mounted
  /\ UNCHANGED <<command, disk, tools, unit, nat, enabled, service>>

\* Mutant: an existing subvolume is an error, as it is for `btrfs`.
CreateSubvolume ==
  /\ spc = "subvol"
  /\ \/ /\ ~subvol
        /\ subvol' = TRUE
        /\ spc' = "image"
     \/ /\ subvol
        /\ spc' = "idle"
        /\ UNCHANGED subvol
  /\ UNCHANGED <<command, backing, image, litter, host>>

EnsureImageSubvolume ==
  /\ spc = "subvol"
  /\ \/ mounted /\ subvol' = TRUE /\ spc' = "image"
     \/ GiveUp /\ UNCHANGED subvol
     \/ ~mounted /\ spc' = "idle" /\ UNCHANGED subvol
  /\ UNCHANGED <<command, backing, image, litter, host>>

\* The temporary file of the full image is removed by a deferred call, whose
\* error is dropped.
RemoveTemp ==
  \/ litter' = litter
  \/ "fail" \in Faults /\ kind = "full" /\ litter < MaxLitter /\ litter' = litter + 1

\* The download is opened or, for the full image, fetched into a temporary file
\* beside the tree; then clearDir empties the tree (see ImageInstall).
InstallBegins ==
  /\ spc = "image"
  /\ \/ image' = "partial" /\ spc' = "extract" /\ UNCHANGED litter
     \/ GiveUp /\ RemoveTemp /\ UNCHANGED image
  /\ UNCHANGED <<command, backing, subvol, host>>

\* What the backing must hold while the tree is expanded.
Needed ==
  Expanded[kind] + (IF kind = "full" THEN Compressed ELSE 0) + litter * Compressed
Roomy == Needed <= capacity

\* Mutant: the error of the installation is dropped.
InstallEndsAnyway ==
  /\ spc = "extract"
  /\ \/ Roomy /\ image' = kind /\ spc' = "nat"
     \/ /\ ~Roomy \/ "fail" \in Faults
        /\ spc' = "nat"
        /\ UNCHANGED image
  /\ RemoveTemp
  /\ UNCHANGED <<command, backing, subvol, host>>

InstallEnds ==
  /\ spc = "extract"
  /\ \/ Roomy /\ image' = kind /\ spc' = "nat"
     \/ /\ ~Roomy \/ "fail" \in Faults
        /\ spc' = "idle"
        /\ UNCHANGED image
  /\ RemoveTemp
  /\ UNCHANGED <<command, backing, subvol, host>>

\* Without a default route the step is skipped with a warning, and what an earlier
\* command set stays.  The unit is enabled for every boot.
SetupNAT ==
  /\ spc = "nat"
  /\ \/ nat' \in {"set", IF nat = "none" THEN "skipped" ELSE nat} /\ spc' = "service"
     \/ GiveUp /\ UNCHANGED nat
  /\ UNCHANGED <<command, disk, tools, mounted, unit, enabled, service>>

EnableService ==
  /\ spc = "service"
  /\ \/ enabled' = TRUE /\ spc' = "complete"
     \/ GiveUp /\ UNCHANGED enabled
  /\ UNCHANGED <<command, disk, tools, mounted, unit, nat, service>>

Return ==
  /\ spc = "complete"
  /\ spc' = "idle"
  /\ UNCHANGED <<command, disk, host>>

RunSetup ==
  \/ ResolveBackingSize \/ EnsureBacking \/ Format \/ WriteMountUnit \/ Mount
  \/ EnsureImageSubvolume \/ InstallBegins \/ InstallEnds
  \/ SetupNAT \/ EnableService \/ Return

-----------------------------------------------------------------------------
(* The operator and the host.                                              *)

\* The advice of mkfsBtrfs's error message.
InstallTools ==
  /\ ~tools
  /\ tools' = TRUE
  /\ UNCHANGED <<spc, command, disk, mounted, unit, nat, enabled, service>>

\* A command that ends without its deferred calls leaves the temporary file of
\* the full image.
LeavesLitter ==
  \/ litter' = litter /\ (kind = "full" => spc # "extract")
  \/ litter' = litter + 1 /\ kind = "full" /\ spc \in {"image", "extract"}

Kill ==
  /\ "kill" \in Faults
  /\ spc # "idle"
  /\ spc' = "idle" /\ size' = 0
  /\ LeavesLitter /\ litter' <= MaxLitter
  /\ UNCHANGED <<kind, backing, subvol, image, host>>

\* systemd refuses a mount unit that is not named after its mount point, and
\* mounts one at boot only if a target wants it.
UnitFile == "actions-runner-btrfs.mount"
UnitOfMountPoint == "opt-runner\\x2dbtrfs.mount"
UnitHasInstallSection == FALSE
MountedAtBoot ==
  unit /\ img = "formatted" /\ UnitFile = UnitOfMountPoint /\ UnitHasInstallSection

Reboot ==
  /\ "reboot" \in Faults
  /\ spc' = "idle" /\ size' = 0
  /\ LeavesLitter /\ litter' <= MaxLitter
  /\ mounted' = MountedAtBoot
  /\ service' = IF enabled THEN "starting" ELSE "stopped"
  /\ UNCHANGED <<kind, backing, subvol, image, tools, unit, nat, enabled>>

\* systemctl start, once the configuration is written.
StartService ==
  /\ enabled /\ service = "stopped"
  /\ service' = "starting"
  /\ UNCHANGED <<spc, command, disk, tools, mounted, unit, nat, enabled>>

\* preflight: the image's directory is a subvolume.  systemd tries again.
Preflight ==
  /\ service = "starting"
  /\ mounted /\ subvol
  /\ service' = "serving"
  /\ UNCHANGED <<spc, command, disk, tools, mounted, unit, nat, enabled>>

Next ==
  \/ Setup \/ RunSetup
  \/ InstallTools \/ Kill \/ Reboot
  \/ StartService \/ Preflight

Spec == Init /\ [][Next]_vars

-----------------------------------------------------------------------------
(* Safety.                                                                 *)

\* A setup that reports completion, after whatever failures, kills and reboots
\* of earlier runs, for either kind of image, leaves a mounted subvolume with
\* the whole image of the kind that was asked for and an enabled service.  (The
\* host does not reboot while it says so.)
CompleteMeansReady ==
  spc = "complete" =>
    mounted /\ subvol /\ image = kind /\ nat # "none" /\ enabled

\* Running setup again never formats a backing that has been formatted: the
\* subvolume with the image in it survives.
FormatsOnce == [][/\ img = "formatted" => img' = "formatted"
                  /\ subvol => subvol']_vars

-----------------------------------------------------------------------------
(* Liveness.                                                               *)

\* The operator repeats the command, and a step that is tried again and again
\* succeeds now and then.
Persistence ==
  /\ WF_vars(Setup)
  /\ WF_vars(RunSetup)
  /\ WF_vars(InstallTools)
  /\ SF_vars(ResolveBackingSize /\ spc' = "backing")
  /\ SF_vars(EnsureBacking /\ spc' # "idle")
  /\ SF_vars(Format /\ spc' = "unit")
  /\ SF_vars(WriteMountUnit /\ spc' = "mount")
  /\ SF_vars(Mount /\ spc' = "subvol")
  /\ SF_vars(EnsureImageSubvolume /\ spc' = "image")
  /\ SF_vars(InstallBegins /\ spc' = "extract")
  /\ SF_vars(InstallEnds /\ spc' = "nat")
  /\ SF_vars(SetupNAT /\ spc' = "service")
  /\ SF_vars(EnableService /\ spc' = "complete")
  /\ WF_vars(StartService)
  /\ SF_vars(Preflight)

PersistentSpec == Spec /\ Persistence

\* Once the backing is formatted, repeating the command completes it, whatever
\* was interrupted before, unless the backing is too small for the image that
\* is asked for: it is never made larger, and a command that is killed in the
\* full image's installation, or cannot remove its temporary file, leaves less
\* of it.
RerunCompletes == img = "formatted" ~> spc = "complete" \/ ~Roomy

\* An enabled service comes to serve: after a reboot, which takes the mount
\* away, when the operator repeats the command.
ServiceReturns == enabled ~> service = "serving"

-----------------------------------------------------------------------------
(* What the messages and comments say and the code does not do.            *)

\* setup.go:390 advises to install btrfs-progs before running setup.  The run
\* that fails for the lack of it leaves a sized file that no later run formats.
SetupCompletes == <>(spc = "complete")

\* README.md:178 and setup.go:332 say that the mount survives a reboot.
MountPersists == [][mounted => mounted']_vars
=============================================================================
