----------------------------- MODULE RunnerPool -----------------------------
(***************************************************************************)
(* What a pool of ephemeral runners promises, whatever code runs it.       *)
(*                                                                         *)
(* Containers are launched, never more than MaxRunners at a time, while    *)
(* the pool is open.  A container ends when it likes.  Once the pool is    *)
(* closing no container is launched, containers may be doomed (sent a kill *)
(* signal), and the pool is closed only when every container it leaves     *)
(* behind is doomed.  The scaler of one installation implements this       *)
(* (see Scaler!Pool).                                                      *)
(***************************************************************************)
EXTENDS Integers, FiniteSets

CONSTANTS
  Names,       \* the names a container can have
  MaxRunners   \* the configured maximum of containers

VARIABLES
  live,        \* the containers that have not ended
  doomed,      \* those of them that were sent a kill signal
  phase        \* "open", "draining" or "closed"

vars == <<live, doomed, phase>>

Init ==
  /\ live = {}
  /\ doomed = {}
  /\ phase = "open"

Launch(r) ==
  /\ phase = "open"
  /\ r \notin live
  /\ Cardinality(live) < MaxRunners
  /\ live' = live \union {r}
  /\ UNCHANGED <<doomed, phase>>

End(r) ==
  /\ r \in live
  /\ live' = live \ {r}
  /\ doomed' = doomed \ {r}
  /\ UNCHANGED phase

Drain ==
  /\ phase = "open"
  /\ phase' = "draining"
  /\ UNCHANGED <<live, doomed>>

Doom(r) ==
  /\ phase = "draining"
  /\ r \in live
  /\ doomed' = doomed \union {r}
  /\ UNCHANGED <<live, phase>>

Close ==
  /\ phase = "draining"
  /\ live \subseteq doomed
  /\ phase' = "closed"
  /\ UNCHANGED <<live, doomed>>

Next ==
  \/ \E r \in Names : Launch(r) \/ End(r) \/ Doom(r)
  \/ Drain
  \/ Close

Spec == Init /\ [][Next]_vars

-----------------------------------------------------------------------------
TypeOK ==
  /\ live \subseteq Names
  /\ doomed \subseteq live
  /\ phase \in {"open", "draining", "closed"}
=============================================================================
