------------------------------ MODULE Discovery ------------------------------
(***************************************************************************)
(* DiscoverInstallations of internal/client/client.go, with                *)
(* fetchInstallationRepositories and resolveScope.                         *)
(*                                                                         *)
(* An organisation that installed the App is one scope; a user is expanded *)
(* into a scope for every repository.  The calls are made one after the    *)
(* other, any of them can fail, and what GitHub lists can change between   *)
(* two pages.                                                              *)
(***************************************************************************)
EXTENDS Pages

CONSTANTS
  Orgs,    \* the App's installations in organisations,
  Users,   \* of users,
  Others,  \* and of any other type of account
  Repos    \* the repositories of each user

ASSUME AccountsAssumption ==
  /\ \A S \in {Orgs, Users, Others} : IsFiniteSet(S)
  /\ Orgs \intersect Users = {} /\ Others \intersect (Orgs \union Users) = {}
  /\ DOMAIN Repos = Users
  /\ \A u \in Users : /\ Repos[u] \subseteq Nat /\ IsFiniteSet(Repos[u])
                      /\ Repos[u] \intersect Orgs = {}

Accounts == Orgs \union Users \union Others

\* What client.Installation stands for: an ID and a scope.
Installations == Orgs \union UNION {Repos[u] : u \in Users}

VARIABLES
  dpc,      \* where the call is
  listed,   \* the page of installations that was read
  todo,     \* those of them that are not resolved yet
  user,     \* the user whose repositories are read
  page,     \* the page to read next
  granted,  \* GitHub: repositories that the installations of users grant
  drifted,  \* history: access was revoked while its list was read
  found     \* the scopes collected so far

discovery == <<dpc, listed, todo, user, page, granted, drifted, found>>

DiscoveryTypeOK ==
  /\ dpc \in {"off", "jwt", "list", "resolve", "repos", "found", "failed"}
  /\ listed \subseteq Accounts /\ todo \subseteq listed
  /\ user \subseteq todo \intersect Users /\ Cardinality(user) <= 1
  /\ dpc = "repos" => user # {}
  /\ user # {} <=> page > 0
  /\ page \in Nat /\ drifted \in BOOLEAN
  /\ granted \subseteq Installations \ Orgs
  /\ found \subseteq Installations

\* No call is in progress.
NoDiscovery ==
  /\ dpc = "off"
  /\ listed = {} /\ todo = {} /\ user = {} /\ page = 0
  /\ granted = {} /\ drifted = FALSE /\ found = {}

EndDiscovery ==
  /\ dpc' = "off"
  /\ listed' = {} /\ todo' = {} /\ user' = {} /\ page' = 0
  /\ granted' = {} /\ drifted' = FALSE /\ found' = {}

Discover ==
  /\ dpc = "off"
  /\ dpc' = "jwt"
  /\ UNCHANGED <<listed, todo, user, page, granted, drifted, found>>

\* createAppJWT fails only with a key that is none.
CreateAppJWT ==
  /\ dpc = "jwt"
  /\ dpc' \in {"list", "failed"}
  /\ UNCHANGED <<listed, todo, user, page, granted, drifted, found>>

\* One page, in whatever order GitHub lists installations.
ListInstallations ==
  /\ dpc = "list"
  /\ \E first \in SUBSET Accounts :
       /\ Cardinality(first) <= PageSize
       /\ first # Accounts => Cardinality(first) = PageSize
       /\ listed' = first /\ todo' = first
  /\ dpc' = "resolve"
  /\ UNCHANGED <<user, page, granted, drifted, found>>

\* resolveScope: the scope of an organisation is made from its name.
ResolveScope(a) ==
  /\ dpc = "resolve"
  /\ a \in todo \ Users
  /\ todo' = todo \ {a}
  /\ \/ a \in Orgs /\ found' = found \union {a} /\ UNCHANGED dpc
     \/ a \in Others /\ dpc' = "failed" /\ UNCHANGED found
  /\ UNCHANGED <<listed, user, page, granted, drifted>>

\* The token of a user's installation.  Access is up to the user: it may have
\* changed since an earlier process looked.
GetToken(u) ==
  /\ dpc = "resolve"
  /\ u \in todo \intersect Users
  /\ user' = {u} /\ page' = 1
  /\ \E S \in SUBSET Repos[u] : granted' = granted \union S
  /\ dpc' = "repos"
  /\ UNCHANGED <<listed, todo, drifted, found>>

Answer == LET u == CHOOSE u \in user : TRUE IN Page(granted \intersect Repos[u], page)

\* Mutant: a full page is taken for the last one.
LastPageEarly == Cardinality(Answer) <= PageSize

\* The next page is read until one is not full.
LastPage == Cardinality(Answer) < PageSize

\* Mutant: the page is not counted up.
ListRepositoriesAgain ==
  /\ dpc = "repos"
  /\ found' = found \union Answer
  /\ \/ /\ LastPage
        /\ todo' = todo \ user /\ user' = {} /\ page' = 0
        /\ dpc' = "resolve"
     \/ /\ ~LastPage
        /\ UNCHANGED <<dpc, todo, user, page>>
  /\ UNCHANGED <<listed, granted, drifted>>

ListRepositories ==
  /\ dpc = "repos"
  /\ found' = found \union Answer
  /\ \/ /\ LastPage
        /\ todo' = todo \ user /\ user' = {} /\ page' = 0
        /\ dpc' = "resolve"
     \/ /\ ~LastPage
        /\ page' = page + 1
        /\ UNCHANGED <<dpc, todo, user>>
  /\ UNCHANGED <<listed, granted, drifted>>

\* Any call fails, or its answer cannot be decoded: nothing of what was found
\* is returned.
CallFails ==
  /\ dpc \in {"list", "resolve", "repos"}
  /\ dpc = "resolve" => todo \intersect Users # {}
  /\ dpc' = "failed"
  /\ UNCHANGED <<listed, todo, user, page, granted, drifted, found>>

AllResolved ==
  /\ dpc = "resolve" /\ todo = {}
  /\ dpc' = "found"
  /\ UNCHANGED <<listed, todo, user, page, granted, drifted, found>>

DiscoveryStep ==
  \/ CreateAppJWT \/ ListInstallations \/ ListRepositories
  \/ \E a \in Accounts : ResolveScope(a) \/ GetToken(a)
  \/ CallFails \/ AllResolved

\* The user takes a repository away while the list is read.
Revoke(r) ==
  /\ dpc = "repos"
  /\ r \in granted
  /\ granted' = granted \ {r}
  /\ drifted' = TRUE
  /\ UNCHANGED <<dpc, listed, todo, user, page, found>>

-----------------------------------------------------------------------------
(* What a call that succeeds returns.                                      *)

\* Discovery returns every organisation of the page that it read and every
\* repository of its users, over all pages of them, a last one that is exactly
\* full included: only access that is revoked between two pages, which shifts
\* the entries behind it, can make it miss one.
ListedWhole ==
  dpc = "found" /\ ~drifted => found = (listed \intersect Orgs) \union granted

\* client.go:33 says that DiscoverInstallations fetches all installations.  It
\* reads the first page of them.
AllInstallationsListed == dpc = "found" => Orgs \subseteq found
=============================================================================
