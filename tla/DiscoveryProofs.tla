--------------------------- MODULE DiscoveryProofs ---------------------------
(***************************************************************************)
(* Proofs about the steps of Discovery, for all accounts, repositories and *)
(* page sizes.  Discovery is a part of Processor, so that these are lemmas *)
(* about its steps; ProcessorProofs cites them.                            *)
(***************************************************************************)
EXTENDS Discovery, PagesProofs

\* What the current user grants: the list that is read page by page.
Granted(u) == granted \intersect Repos[u]

\* What was found so far is what the accounts that are resolved stand for, and of
\* the current user's repositories those on the pages that were read.
FoundSoFar ==
  /\ found \subseteq (listed \intersect Orgs) \union granted
  /\ (listed \intersect Orgs) \ todo \subseteq found
  /\ user = {} => granted \subseteq found
  /\ \A u \in user :
       /\ granted \ Repos[u] \subseteq found
       /\ \A x \in Granted(u) : Position(Granted(u), x) <= (page - 1) * PageSize => x \in found

DiscoveryIInv ==
  /\ DiscoveryTypeOK
  /\ \A u, v \in user : u = v
  /\ dpc \in {"resolve", "found"} => user = {}
  /\ dpc = "found" => todo = {}
  /\ dpc \in {"off", "jwt", "list"} =>
       user = {} /\ granted = {} /\ found = {} /\ ~drifted
  /\ drifted \/ FoundSoFar

-----------------------------------------------------------------------------
(* Lemmas.                                                                 *)

\* A set of at most one account.
LEMMA Singletons ==
  /\ Cardinality({}) = 0
  /\ \A u : Cardinality({u}) = 1
BY FS_EmptySet, FS_Singleton

\* Repositories are numbers, and each is an installation but no organisation.
LEMMA ReposType ==
  ASSUME NEW u \in Users
  PROVE  /\ Repos[u] \in SUBSET Nat /\ IsFiniteSet(Repos[u])
         /\ Repos[u] \subseteq Installations \ Orgs
<1>1. /\ Repos[u] \in SUBSET Nat /\ IsFiniteSet(Repos[u])
      /\ Repos[u] \intersect Orgs = {}
  BY AccountsAssumption
<1>2. Repos[u] \in {Repos[v] : v \in Users}
  OBVIOUS
<1> QED
  BY <1>1, <1>2 DEF Installations

\* What the current user grants is a finite set of numbers, and the answer is a
\* page of it.
LEMMA AnswerType ==
  ASSUME DiscoveryIInv, NEW u \in user
  PROVE  /\ user = {u} /\ u \in Users /\ page \in Nat \ {0}
         /\ Granted(u) \in SUBSET Nat /\ IsFiniteSet(Granted(u))
         /\ Answer = Page(Granted(u), page)
         /\ Answer \subseteq granted
<1>1. user = {u} /\ u \in Users /\ page \in Nat \ {0}
  BY DEF DiscoveryIInv, DiscoveryTypeOK
<1>2. Granted(u) \in SUBSET Repos[u]
  BY DEF Granted
<1>3. Granted(u) \in SUBSET Nat /\ IsFiniteSet(Granted(u))
  BY <1>1, <1>2, ReposType, FS_Subset
<1>4. (CHOOSE v \in user : TRUE) = u
  BY <1>1
<1>5. Answer = Page(Granted(u), page)
  BY <1>4 DEF Answer, Granted
<1> QED
  BY <1>1, <1>3, <1>5 DEF Page, Granted

\* Before a discovery nothing is listed and nothing is found.
LEMMA InitDiscovery ==
  ASSUME NoDiscovery PROVE DiscoveryIInv
<1>1. Cardinality(user) = 0
  BY Singletons DEF NoDiscovery
<1>2. DiscoveryTypeOK
  <2>1. user \subseteq todo \intersect Users /\ (user # {} <=> page > 0)
    BY DEF NoDiscovery
  <2>2. listed \subseteq Accounts /\ todo \subseteq listed
    BY DEF NoDiscovery
  <2>3. granted \subseteq Installations \ Orgs /\ found \subseteq Installations
    BY DEF NoDiscovery
  <2>4. dpc = "off" /\ page \in Nat /\ drifted \in BOOLEAN
    BY DEF NoDiscovery
  <2> QED
    BY <1>1, <2>1, <2>2, <2>3, <2>4 DEF DiscoveryTypeOK
<1>3. FoundSoFar
  BY DEF NoDiscovery, FoundSoFar
<1> QED
  BY <1>2, <1>3 DEF NoDiscovery, DiscoveryIInv

\* A call that returns leaves nothing of itself.
LEMMA EndDiscoveryIInv ==
  ASSUME EndDiscovery PROVE DiscoveryIInv'
<1>1. Cardinality(user') = 0
  BY Singletons DEF EndDiscovery
<1>2. DiscoveryTypeOK'
  <2>1. user' \subseteq todo' \intersect Users /\ (user' # {} <=> page' > 0)
    BY DEF EndDiscovery
  <2>2. listed' \subseteq Accounts /\ todo' \subseteq listed'
    BY DEF EndDiscovery
  <2>3. granted' \subseteq Installations \ Orgs /\ found' \subseteq Installations
    BY DEF EndDiscovery
  <2>4. dpc' = "off" /\ page' \in Nat /\ drifted' \in BOOLEAN
    BY DEF EndDiscovery
  <2> QED
    BY <1>1, <2>1, <2>2, <2>3, <2>4 DEF DiscoveryTypeOK
<1>3. FoundSoFar'
  BY DEF EndDiscovery, FoundSoFar
<1> QED
  BY <1>2, <1>3 DEF EndDiscovery, DiscoveryIInv

\* A call begins with nothing found.
LEMMA DiscoverIInv ==
  ASSUME DiscoveryIInv, Discover PROVE DiscoveryIInv'
<1>1. DiscoveryTypeOK'
  BY DEF Discover, DiscoveryIInv, DiscoveryTypeOK
<1>2. FoundSoFar'
  BY DEF Discover, DiscoveryIInv, FoundSoFar, DiscoveryTypeOK
<1> QED
  BY <1>1, <1>2 DEF Discover, DiscoveryIInv

-----------------------------------------------------------------------------
(* The steps.                                                              *)

\* One page of the user's repositories: what was on it is found now, and when it
\* is not full nothing is left.
LEMMA ListRepositoriesIInv ==
  ASSUME DiscoveryIInv, ListRepositories PROVE DiscoveryIInv'
<1> USE DEF ListRepositories
<1>1. PICK u \in user : TRUE
  BY DEF DiscoveryIInv, DiscoveryTypeOK
<1>2. /\ user = {u} /\ u \in Users /\ page \in Nat \ {0}
      /\ Granted(u) \in SUBSET Nat /\ IsFiniteSet(Granted(u))
      /\ Answer = Page(Granted(u), page)
      /\ Answer \subseteq granted
  BY AnswerType
<1>3. found' \subseteq Installations
  BY <1>2 DEF DiscoveryIInv, DiscoveryTypeOK
<1>4. CASE LastPage /\ todo' = todo \ user /\ user' = {} /\ page' = 0 /\ dpc' = "resolve"
  <2>1. DiscoveryTypeOK'
    BY <1>3, <1>4, Singletons DEF DiscoveryIInv, DiscoveryTypeOK
  <2>2. drifted' \/ FoundSoFar'
    <3> SUFFICES ASSUME ~drifted PROVE FoundSoFar'
      OBVIOUS
    <3>1. FoundSoFar
      BY DEF DiscoveryIInv
    <3>2. Granted(u) \subseteq found \union Answer
      <4>1. \A x \in Granted(u) :
              Position(Granted(u), x) <= (page - 1) * PageSize => x \in found
        BY <3>1 DEF FoundSoFar
      <4> QED
        BY <1>2, <1>4, <4>1, LastPageEnds DEF LastPage
    <3>3. granted \subseteq found'
      BY <3>1, <3>2 DEF FoundSoFar, Granted
    <3>4. (listed' \intersect Orgs) \ todo' \subseteq found'
      BY <1>2, <1>4, <3>1, AccountsAssumption DEF FoundSoFar
    <3> QED
      BY <1>2, <1>4, <3>1, <3>3, <3>4 DEF FoundSoFar
  <2> QED
    BY <1>4, <2>1, <2>2 DEF DiscoveryIInv
<1>5. CASE ~LastPage /\ page' = page + 1 /\ UNCHANGED <<dpc, todo, user>>
  <2>1. DiscoveryTypeOK'
    BY <1>2, <1>3, <1>5 DEF DiscoveryIInv, DiscoveryTypeOK
  <2>2. drifted' \/ FoundSoFar'
    <3> SUFFICES ASSUME ~drifted PROVE FoundSoFar'
      OBVIOUS
    <3>1. FoundSoFar
      BY DEF DiscoveryIInv
    <3>2. Granted(u)' = Granted(u) /\ (page' - 1) * PageSize = page * PageSize
      BY <1>2, <1>5 DEF Granted
    <3>3. ASSUME NEW x \in Granted(u), Position(Granted(u), x) <= page * PageSize
          PROVE  x \in found'
      <4>1. \A y \in Granted(u) :
              Position(Granted(u), y) <= (page - 1) * PageSize => y \in found
        BY <3>1 DEF FoundSoFar
      <4> QED
        BY <1>2, <3>3, <4>1, PageCounts
    <3> QED
      BY <1>2, <1>5, <3>1, <3>2, <3>3 DEF FoundSoFar
  <2> QED
    BY <1>5, <2>1, <2>2 DEF DiscoveryIInv
<1> QED
  BY <1>4, <1>5

\* The token of a user whose repositories are all to be read.
LEMMA GetTokenIInv ==
  ASSUME DiscoveryIInv, NEW u, GetToken(u) PROVE DiscoveryIInv'
<1> USE DEF GetToken
<1>1. u \in todo \intersect Users /\ user = {}
  BY DEF DiscoveryIInv
<1>2. PICK S \in SUBSET Repos[u] : granted' = granted \union S
  OBVIOUS
<1>3. DiscoveryTypeOK'
  <2>1. /\ user' \subseteq todo' \intersect Users /\ Cardinality(user') <= 1
        /\ user' # {} /\ page' = 1
    <3>1. user' = {u} /\ page' = 1 /\ todo' = todo
      OBVIOUS
    <3>2. Cardinality({u}) = 1
      BY Singletons
    <3> HIDE DEF GetToken
    <3> QED
      BY <1>1, <3>1, <3>2
  <2>2. granted' \subseteq Installations \ Orgs
    BY <1>1, <1>2, ReposType DEF DiscoveryIInv, DiscoveryTypeOK
  <2>3. /\ listed' \subseteq Accounts /\ todo' \subseteq listed'
        /\ found' \subseteq Installations /\ drifted' \in BOOLEAN /\ dpc' = "repos"
    BY DEF DiscoveryIInv, DiscoveryTypeOK
  <2>4. user' # {} <=> page' > 0
    BY <2>1
  <2> HIDE DEF GetToken
  <2> QED
    BY <2>1, <2>2, <2>3, <2>4 DEF DiscoveryTypeOK
<1>4. drifted' \/ FoundSoFar'
  <2> SUFFICES ASSUME ~drifted PROVE FoundSoFar'
    OBVIOUS
  <2>1. FoundSoFar /\ granted \subseteq found
    BY <1>1 DEF DiscoveryIInv, FoundSoFar
  <2>2. Granted(u)' \in SUBSET Nat /\ IsFiniteSet(Granted(u)')
    <3>1. Granted(u)' \in SUBSET Repos[u]
      BY DEF Granted
    <3> QED
      BY <1>1, <3>1, ReposType, FS_Subset
  <2>3. \A x \in Granted(u)' : ~ Position(Granted(u)', x) <= (page' - 1) * PageSize
    BY <2>2, PositionType, FS_CardinalityType, PageSizeAssumption
  <2>4. granted' \ Repos[u] \subseteq found'
    BY <1>2, <2>1
  <2>5. /\ found' \subseteq (listed' \intersect Orgs) \union granted'
        /\ (listed' \intersect Orgs) \ todo' \subseteq found'
    BY <1>2, <2>1 DEF FoundSoFar
  <2>6. \A x \in Granted(u)' : Position(Granted(u)', x) <= (page' - 1) * PageSize => x \in found'
    BY <2>3
  <2>7. user' = {u}
    OBVIOUS
  <2>8. \A v \in user' :
          /\ granted' \ Repos[v] \subseteq found'
          /\ \A x \in Granted(v)' :
               Position(Granted(v)', x) <= (page' - 1) * PageSize => x \in found'
    BY <2>4, <2>6, <2>7
  <2> QED
    BY <2>5, <2>7, <2>8 DEF FoundSoFar
<1> QED
  BY <1>3, <1>4 DEF DiscoveryIInv

\* Access that is revoked is remembered.
LEMMA RevokeIInv ==
  ASSUME DiscoveryIInv, NEW r, Revoke(r) PROVE DiscoveryIInv'
BY DEF Revoke, DiscoveryIInv, DiscoveryTypeOK

\* Each call to GitHub, answered or failed, keeps what was found so far complete.
LEMMA DiscoveryStepIInv ==
  ASSUME DiscoveryIInv, DiscoveryStep PROVE DiscoveryIInv'
<1> USE DEF DiscoveryIInv, DiscoveryTypeOK
<1>1. CASE CreateAppJWT
  BY <1>1 DEF CreateAppJWT, FoundSoFar, Granted
<1>2. CASE ListInstallations
  <2>1. PICK first \in SUBSET Accounts : listed' = first /\ todo' = first
    BY <1>2 DEF ListInstallations
  <2>2. DiscoveryTypeOK'
    BY <1>2, <2>1, Singletons DEF ListInstallations
  <2>3. FoundSoFar'
    BY <1>2, <2>1 DEF ListInstallations, FoundSoFar
  <2> QED
    BY <1>2, <2>2, <2>3 DEF ListInstallations
<1>3. CASE ListRepositories
  BY <1>3, ListRepositoriesIInv
<1>4. ASSUME NEW a \in Accounts, ResolveScope(a) PROVE DiscoveryIInv'
  <2>1. user = {} /\ user' = {}
    BY <1>4 DEF ResolveScope
  <2>2. DiscoveryTypeOK'
    BY <1>4, <2>1, Singletons DEF ResolveScope, Installations
  <2>3. drifted' \/ FoundSoFar'
    BY <1>4, <2>1, AccountsAssumption DEF ResolveScope, FoundSoFar
  <2> QED
    BY <1>4, <2>1, <2>2, <2>3 DEF ResolveScope
<1>5. ASSUME NEW a \in Accounts, GetToken(a) PROVE DiscoveryIInv'
  BY <1>5, GetTokenIInv
<1>6. CASE CallFails \/ AllResolved
  BY <1>6 DEF CallFails, AllResolved, FoundSoFar, Granted
<1> QED
  BY <1>1, <1>2, <1>3, <1>4, <1>5, <1>6 DEF DiscoveryStep

\* What leaves the discovery alone keeps it.
LEMMA DiscoveryStutters ==
  ASSUME DiscoveryIInv, UNCHANGED discovery PROVE DiscoveryIInv'
BY DEF DiscoveryIInv, DiscoveryTypeOK, FoundSoFar, Granted, discovery

\* When the call has succeeded, everything is found.
LEMMA FoundWhole == DiscoveryIInv => ListedWhole
BY DEF DiscoveryIInv, ListedWhole, FoundSoFar
=============================================================================
