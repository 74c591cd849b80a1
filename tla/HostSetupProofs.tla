---------------------------- MODULE HostSetupProofs ----------------------------
(***************************************************************************)
(* For all sizes and all failures, kills and reboots: a setup that reports *)
(* completion leaves a usable host, and no repetition of it formats a      *)
(* backing that was formatted before.                                      *)
(***************************************************************************)
EXTENDS HostSetup, TLAPS

\* What each step of runSetup may rely on, since only the command itself comes
\* between its steps or ends it.
StepInv ==
  /\ spc = "format" => img = "blank"
  /\ spc \in {"subvol", "image", "extract", "nat", "service", "complete"} => mounted
  /\ spc \in {"image", "extract", "nat", "service", "complete"} => subvol
  /\ spc \in {"nat", "service", "complete"} => image = kind
  /\ spc \in {"service", "complete"} => nat # "none"
  /\ spc = "complete" => enabled

IInv == TypeOK /\ StepInv

\* The size that is proposed for the backing is one.
LEMMA DefaultSize == kind \in Kinds => DefaultBackingSize \in Nat
<1> SUFFICES ASSUME kind \in Kinds PROVE DefaultBackingSize \in Nat
  OBVIOUS
<1>1. LightweightSize \in Nat /\ Compressed \in Nat /\ Free \in Nat
  BY SizesAssumption
<1>2. \A a, b \in Nat : Larger(a, b) \in Nat
  BY DEF Larger
<1>3. Compressed * 3 \in Nat /\ (Free * 4) \div 5 \in Nat
  BY <1>1
<1>4. Larger(Compressed * 3, (Free * 4) \div 5) \in Nat
  BY <1>2, <1>3
<1>5. ComputeFullSize \in Nat
  BY <1>1, <1>2, <1>4 DEF ComputeFullSize
<1> QED
  BY <1>1, <1>5 DEF DefaultBackingSize

\* The invariant holds at first.
LEMMA InitIInv == Init => IInv
<1> SUFFICES ASSUME Init PROVE IInv
  OBVIOUS
<1>1. ToolsInstalled \in BOOLEAN /\ MaxLitter \in Nat
  BY SetupAssumption, SizesAssumption
<1>2. 0 \in 0..MaxLitter
  BY <1>1
<1>3. {tools, mounted, unit, subvol, enabled} \subseteq BOOLEAN
  BY <1>1, Zenon DEF Init
<1>4. TypeOK
  BY <1>2, <1>3 DEF Init, TypeOK
<1>5. StepInv
  BY DEF Init, StepInv
<1> QED
  BY <1>4, <1>5 DEF IInv

\* The steps up to the mount keep it.
LEMMA BackingSteps ==
  ASSUME IInv, Setup \/ ResolveBackingSize \/ EnsureBacking \/ Format
               \/ WriteMountUnit \/ Mount
  PROVE  IInv'
<1> USE DEF IInv, TypeOK, StepInv
<1>1. CASE Setup
  BY <1>1 DEF Setup, disk, backing, content, host
<1>2. CASE ResolveBackingSize
  <2>1. size' \in Nat
    BY <1>2, DefaultSize, SizesAssumption DEF ResolveBackingSize
  <2> QED
    BY <1>2, <2>1 DEF ResolveBackingSize, GiveUp, disk, backing, content, host
<1>3. CASE EnsureBacking
  BY <1>3 DEF EnsureBacking, GiveUp, disk, backing, content, host
<1>4. CASE Format
  <2>1. 0 \in 0..MaxLitter
    BY SizesAssumption
  <2>2. /\ tools' = tools /\ mounted' = mounted /\ unit' = unit
        /\ subvol' \in {FALSE, subvol} /\ enabled' = enabled
    BY <1>4 DEF Format, content, host
  <2>3. ({tools, mounted, unit, subvol, enabled} \subseteq BOOLEAN)'
    BY <2>2, Zenon
  <2>4. mounted' \/ subvol' => img' = "formatted"
    BY <1>4, <2>2 DEF Format, content
  <2>5. TypeOK'
    BY <1>4, <2>1, <2>3, <2>4 DEF Format, command, content, host
  <2>6. StepInv'
    BY <1>4, <2>2 DEF Format, command
  <2> QED
    BY <2>5, <2>6
<1>5. CASE WriteMountUnit
  BY <1>5 DEF WriteMountUnit, GiveUp, command, disk, backing, content, host
<1>6. CASE Mount
  <2>1. /\ UNCHANGED <<kind, size, img, capacity, subvol, image, litter, tools, unit,
                       nat, enabled, service>>
        /\ \/ mounted' = TRUE /\ img = "formatted" /\ spc' = "subvol"
           \/ mounted' = mounted /\ spc' = "idle"
    BY <1>6 DEF Mount, command, disk, backing, content
  <2>2. ({tools, mounted, unit, subvol, enabled} \subseteq BOOLEAN)'
    BY <2>1, Zenon
  <2>3. TypeOK'
    BY <2>1, <2>2
  <2>4. StepInv'
    BY <2>1
  <2> QED
    BY <2>3, <2>4
<1> QED
  BY <1>1, <1>2, <1>3, <1>4, <1>5, <1>6

\* The steps from the subvolume to the end keep it.
LEMMA ImageSteps ==
  ASSUME IInv, EnsureImageSubvolume \/ InstallBegins \/ InstallEnds \/ SetupNAT
               \/ EnableService \/ Return
  PROVE  IInv'
<1> USE DEF IInv, TypeOK, StepInv
<1>0. RemoveTemp => litter' \in 0..MaxLitter
  BY SizesAssumption DEF RemoveTemp
<1>1. CASE EnsureImageSubvolume
  BY <1>1 DEF EnsureImageSubvolume, GiveUp, command, disk, backing, content, host
<1>2. CASE InstallBegins
  <2>1. litter' \in 0..MaxLitter
    BY <1>0, <1>2 DEF InstallBegins
  <2> QED
    BY <1>2, <2>1 DEF InstallBegins, GiveUp, command, disk, backing, content, host
<1>3. CASE InstallEnds
  BY <1>0, <1>3 DEF InstallEnds, command, disk, backing, content, host
<1>4. CASE SetupNAT
  BY <1>4 DEF SetupNAT, GiveUp, command, disk, backing, content, host
<1>5. CASE EnableService
  BY <1>5 DEF EnableService, GiveUp, command, disk, backing, content, host
<1>6. CASE Return
  BY <1>6 DEF Return, command, disk, backing, content, host
<1> QED
  BY <1>1, <1>2, <1>3, <1>4, <1>5, <1>6

\* What the operator and the host do keeps it.
LEMMA HostSteps ==
  ASSUME IInv, InstallTools \/ Kill \/ Reboot \/ StartService \/ Preflight
  PROVE  IInv'
<1> USE DEF IInv, TypeOK, StepInv
<1>1. CASE InstallTools
  BY <1>1 DEF InstallTools, command, disk, backing, content, host
<1>2. CASE Kill
  BY <1>2, SizesAssumption DEF Kill, LeavesLitter, disk, backing, content, host
<1>3. CASE Reboot
  BY <1>3, SizesAssumption
     DEF Reboot, LeavesLitter, MountedAtBoot, disk, backing, content, host
<1>4. CASE StartService
  BY <1>4 DEF StartService, command, disk, backing, content, host
<1>5. CASE Preflight
  BY <1>5 DEF Preflight, command, disk, backing, content, host
<1> QED
  BY <1>1, <1>2, <1>3, <1>4, <1>5

\* TypeOK with StepInv is an inductive invariant of the host's setup.
THEOREM Inductive == Spec => []IInv
<1>1. IInv /\ [Next]_vars => IInv'
  <2> SUFFICES ASSUME IInv, [Next]_vars PROVE IInv'
    OBVIOUS
  <2>1. CASE Next
    BY <2>1, BackingSteps, ImageSteps, HostSteps DEF Next, RunSetup
  <2>2. CASE UNCHANGED vars
    BY <2>2 DEF IInv, TypeOK, StepInv, vars, command, disk, backing, content, host
  <2> QED
    BY <2>1, <2>2
<1> QED
  BY InitIInv, <1>1, PTL DEF Spec

\* The variables keep their types, and a subvolume or a mount is only ever found
\* on a formatted backing, whatever interrupted the steps of runSetup.
THEOREM TypeCorrect == Spec => []TypeOK
<1>1. IInv => TypeOK
  BY DEF IInv
<1> QED
  BY Inductive, <1>1, PTL

\* runSetup reports completion only of a mounted subvolume with the whole image
\* of the kind that was asked for, NAT considered and the service enabled.
THEOREM Ready == Spec => []CompleteMeansReady
<1>1. IInv => CompleteMeansReady
  BY DEF IInv, TypeOK, StepInv, CompleteMeansReady
<1> QED
  BY Inductive, <1>1, PTL

\* ensureBtrfsBacking never formats a formatted backing again, and the subvolume
\* with the image in it survives every repetition, kill and reboot.
THEOREM FormattedOnce == Spec => FormatsOnce
<1> DEFINE Keeps == /\ img = "formatted" => img' = "formatted"
                    /\ subvol => subvol'
<1>1. IInv /\ [Next]_vars => [Keeps]_vars
  <2> SUFFICES ASSUME IInv, Next PROVE Keeps
    OBVIOUS
  <2> USE DEF IInv, TypeOK, StepInv
  <2>1. CASE EnsureBacking
    BY <2>1 DEF EnsureBacking, GiveUp, backing, content
  <2>2. CASE Format
    BY <2>2 DEF Format
  <2>3. CASE EnsureImageSubvolume
    BY <2>3 DEF EnsureImageSubvolume, backing
  <2>4. CASE InstallBegins \/ InstallEnds
    BY <2>4 DEF InstallBegins, InstallEnds, backing
  <2>5. CASE Setup \/ ResolveBackingSize \/ WriteMountUnit \/ Mount \/ SetupNAT
             \/ EnableService \/ Return \/ InstallTools \/ StartService \/ Preflight
    BY <2>5 DEF Setup, ResolveBackingSize, WriteMountUnit, Mount, SetupNAT,
                EnableService, Return, InstallTools, StartService, Preflight, disk,
                backing, content
  <2>6. CASE Kill \/ Reboot
    BY <2>6 DEF Kill, Reboot, backing
  <2> QED
    BY <2>1, <2>2, <2>3, <2>4, <2>5, <2>6 DEF Next, RunSetup
<1> QED
  BY Inductive, <1>1, PTL DEF Spec, FormatsOnce
=============================================================================
