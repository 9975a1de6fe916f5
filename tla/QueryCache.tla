------------------------------ MODULE QueryCache ------------------------------
(***************************************************************************)
(* What the pages of the web app show of the answers they have read.       *)
(*   frontend/src/queries/*.ts, webapp/App.tsx queryClient,                *)
(*   the pages that use them; React Query is external                      *)
(* A behaviour follows one query.  Its data are the version of the rows    *)
(* they were read from.  Bounds: MaxChanges changes of the rows, and the   *)
(* repeated calls of one mutation, or of two where one of them writes the  *)
(* query's data itself.                                                    *)
(***************************************************************************)
EXTENDS Naturals, Sequences, FiniteSets, Functions

CONSTANT MaxChanges

ASSUME CacheAssumption == MaxChanges \in Nat

\* The queries of each file of hooks
AccessQueries == {"user-accounts", "account-access", "pending", "history"}
DatabaseQueries == {"databases", "database", "database-accounts", "workbench-account"}
GroupQueries == {"groups-members", "users"}
KeyQueries == {"keys-pending", "keys-me"}
QueryKeys == AccessQueries \cup DatabaseQueries \cup GroupQueries \cup KeyQueries \cup {"settings", "me"}

\* What a page shows and changes
HomePage == [reads |-> {"user-accounts", "databases", "database-accounts"}, offers |-> {"requestAccess", "setupDemo", "clearDemo"}]
DatabasePage == [reads |-> {"database", "database-accounts", "users", "groups-members", "account-access"},
                 offers |-> {"updateDatabase", "updateAccount", "createAccount", "grantAccess"}]
InboxPage == [reads |-> {"pending", "keys-pending", "users"}, offers |-> {"approveAccess", "denyAccess", "activateKey"}]
GroupsPage == [reads |-> {"groups-members", "users"},
               offers |-> {"addMember", "removeMember", "createGroup", "updateGroup", "deleteGroup", "updateRole", "removeUser"}]
WorkspaceDetailsPage == [reads |-> {"settings"}, offers |-> {"updateSettings", "uploadImage"}]

Page == [
  home |-> HomePage, database |-> DatabasePage, inbox |-> InboxPage, groups |-> GroupsPage, workspace |-> WorkspaceDetailsPage,
  add |-> [reads |-> {}, offers |-> {"createDatabase"}], requests |-> [reads |-> {"history"}, offers |-> {}],
  vaultKey |-> [reads |-> {"keys-me"}, offers |-> {}], keyReset |-> [reads |-> {}, offers |-> {"createKey", "confirmKey"}],
  audit |-> [reads |-> {"settings"}, offers |-> {"updateSettings"}],
  profile |-> [reads |-> {}, offers |-> {"updateProfile", "uploadAvatar"}],
  workbench |-> [reads |-> {"workbench-account"}, offers |-> {}]]
Pages == DOMAIN Page
Offers == [p \in Pages |-> Page[p].offers]
Mutations == UNION Range(Offers)

\* AppProvider shows who one is on every page, AppLayout some lists on most
LayoutReads == {"databases", "pending", "keys-pending"}
WithoutLayout == {"keyReset", "workbench"}
ReadAt(p) == Page[p].reads \cup {"me"} \cup (IF p \in WithoutLayout THEN {} ELSE LayoutReads)

\* What the API answers otherwise after each: the rows it writes, as the endpoints join them
Changes == [
  requestAccess |-> {"user-accounts", "account-access", "pending", "history"},
  approveAccess |-> {"user-accounts", "account-access", "pending", "history"},
  denyAccess |-> {"user-accounts", "account-access", "pending", "history"},
  grantAccess |-> {"account-access", "user-accounts"},
  createDatabase |-> {"databases", "user-accounts"},
  updateDatabase |-> {"databases", "database", "workbench-account", "pending", "history"},
  createAccount |-> {"database-accounts", "user-accounts"},
  updateAccount |-> {"database-accounts", "workbench-account", "pending", "history"},
  setupDemo |-> {"databases", "user-accounts"},
  clearDemo |-> {"databases", "database", "database-accounts", "user-accounts", "account-access", "pending", "history", "workbench-account"},
  addMember |-> {"groups-members", "user-accounts"}, removeMember |-> {"groups-members", "user-accounts"},
  createGroup |-> {"groups-members"}, updateGroup |-> {"groups-members", "user-accounts", "account-access"},
  deleteGroup |-> {"groups-members", "user-accounts", "account-access"},
  updateRole |-> {"users", "groups-members", "me"}, removeUser |-> {"users", "groups-members", "me"},
  createKey |-> {"keys-me"}, confirmKey |-> {"keys-me", "keys-pending", "me"}, activateKey |-> {"keys-pending"},
  updateSettings |-> {"settings", "me"}, uploadImage |-> {"me"},
  updateProfile |-> {"me", "users", "groups-members", "pending", "history"}, uploadAvatar |-> {"me", "users", "groups-members"}]

\* onSuccess: the queries each mutation of a file of hooks invalidates
AccessTold == [requestAccess |-> {"user-accounts"}, approveAccess |-> {"pending"}, denyAccess |-> {"pending"}, grantAccess |-> {"account-access"}]
DatabasesTold == [
  createDatabase |-> {"databases"}, updateDatabase |-> {"databases", "database"}, createAccount |-> {"database-accounts"},
  updateAccount |-> {"database-accounts"}, setupDemo |-> {"databases"}, clearDemo |-> {"databases"}]
GroupsTold == [m \in GroupsPage.offers |->
  CASE m = "updateRole" -> {"users"} [] m = "removeUser" -> {"users", "groups-members"} [] OTHER -> {"groups-members"}]
KeysTold == [createKey |-> {}, confirmKey |-> {"me"}, activateKey |-> {"keys-pending"}]
SettingsTold == [updateSettings |-> {}, uploadImage |-> {"me"}]
UserTold == [updateProfile |-> {}, uploadAvatar |-> {"me"}]
Invalidates == [m \in Mutations |->
  CASE m \in DOMAIN AccessTold -> AccessTold[m]
    [] m \in DOMAIN DatabasesTold -> DatabasesTold[m]
    [] m \in DOMAIN GroupsTold -> GroupsTold[m]
    [] m \in DOMAIN KeysTold -> KeysTold[m]
    [] m \in DOMAIN SettingsTold -> SettingsTold[m]
    [] OTHER -> UserTold[m]]

\* Mutant: forgotten: the groups show the member who was removed
ToldToUsers(m) == IF m = "removeUser" THEN {"users"} ELSE Invalidates[m]

\* The queries whose data m's success makes invalid
Told(m) == Invalidates[m]

\* Or the query it puts its own answer in
Sets == [m \in Mutations |-> CASE m = "updateSettings" -> "settings" [] m = "updateProfile" -> "me" [] OTHER -> "none"]

NoData == MaxChanges + 1
Versions == 0 .. MaxChanges

VARIABLES
  query,     \* the query followed
  why,       \* for each change of its rows: the mutation, or what became of the telling
  at,        \* the page that is open
  held,      \* the cached data
  freshness, \* whether the cache takes them for good: invalid after an invalidation or a failed fetch
  fetching,  \* the fetch in flight and what the API has read for it
  running    \* mutations in flight, with the change each has made

cacheVars == <<query, why, at, held, freshness, fetching, running>>

fact == Len(why)
Mounted(p) == query \in ReadAt(p)
Unasked == [pc |-> "idle", version |-> NoData]
NotRun == NoData

CacheTypeOK ==
  /\ query \in QueryKeys /\ at \in Pages
  /\ why \in Seq(Mutations \cup {"others", "lost", "overtaken"}) /\ Len(why) <= MaxChanges
  /\ held \in Versions \cup {NoData} /\ freshness \in {"fresh", "aged", "invalid"}
  /\ fetching.pc \in {"idle", "asked", "read"}
  /\ \A m \in DOMAIN running : running[m] \in {0} \cup 1 .. NoData

Relevant == {m \in Mutations : query \in Changes[m] \cup Told(m)}

\* The pages that matter to the query, and two that may not
Followed == {p \in Pages : query \in Page[p].reads \/ Offers[p] \cap DOMAIN running # {}} \cup {"requests", "workbench"}

CacheInit ==
  /\ query \in QueryKeys /\ why = <<>> /\ at = "requests"
  /\ held = NoData /\ freshness = "fresh"
  /\ fetching = IF Mounted("requests") THEN [Unasked EXCEPT !.pc = "asked"] ELSE Unasked
  /\ \E chosen \in SUBSET Relevant :
       /\ chosen # {} /\ running = [m \in chosen |-> 0]
       /\ Cardinality(chosen) = 1 \/ (Cardinality(chosen) = 2 /\ \E m \in chosen : Sets[m] = query)
-----------------------------------------------------------------------------
\* An observer mounts: data that are missing or not good any more are fetched
Needed == held = NoData \/ freshness # "fresh"

\* The page that goes cancels its fetch, which leaves the cache as it was before
Open(p) ==
  LET stays == query = "me" \/ (query \in LayoutReads /\ {p, at} \cap WithoutLayout = {})
      kept == IF stays THEN fetching ELSE Unasked
  IN  /\ p # at /\ at' = p
      /\ fetching' = IF Mounted(p) /\ Needed /\ kept = Unasked THEN [Unasked EXCEPT !.pc = "asked"] ELSE kept
      /\ UNCHANGED <<query, why, held, freshness, running>>

ApiReads ==
  /\ fetching.pc = "asked" /\ fetching' = [pc |-> "read", version |-> fact]
  /\ UNCHANGED <<query, why, at, held, freshness, running>>

Answered ==
  /\ fetching.pc = "read" /\ held' = fetching.version /\ freshness' = "fresh" /\ fetching' = Unasked
  /\ UNCHANGED <<query, why, at, running>>

\* And once again: retry.  An error marks what there is as invalid.
FetchingFails ==
  /\ fetching.pc # "idle" /\ fetching' = Unasked /\ freshness' = "invalid"
  /\ UNCHANGED <<query, why, at, held, running>>

\* staleTime and gcTime pass
Ages ==
  /\ held # NoData /\ freshness = "fresh" /\ freshness' = "aged"
  /\ UNCHANGED <<query, why, at, held, fetching, running>>

Collected ==
  /\ ~Mounted(at) /\ held # NoData /\ held' = NoData /\ freshness' = "fresh"
  /\ UNCHANGED <<query, why, at, fetching, running>>

\* refetchOnReconnect
Reconnects ==
  /\ Mounted(at) /\ Needed /\ fetching = Unasked /\ fetching' = [Unasked EXCEPT !.pc = "asked"]
  /\ UNCHANGED <<query, why, at, held, freshness, running>>

OthersChange ==
  /\ fact < MaxChanges /\ why' = Append(why, "others")
  /\ UNCHANGED <<query, at, held, freshness, fetching, running>>

\* One of a kind at a time, for a bound; 0 is a mutation that does not run
Mutate(m) ==
  /\ m \in Offers[at] /\ running[m] = 0
  /\ running' = [running EXCEPT ![m] = NotRun]
  /\ UNCHANGED <<query, why, at, held, freshness, fetching>>

ApiRuns(m) ==
  /\ running[m] = NotRun /\ fact < MaxChanges /\ query \in Changes[m]
  /\ why' = Append(why, m) /\ running' = [running EXCEPT ![m] = fact + 1]
  /\ UNCHANGED <<query, at, held, freshness, fetching>>

\* Refused, or answered in vain
MutationFails(m) ==
  /\ running[m] # 0 /\ running' = [running EXCEPT ![m] = 0]
  /\ why' = IF running[m] = NotRun THEN why ELSE [why EXCEPT ![running[m]] = "lost"]
  /\ UNCHANGED <<query, at, held, freshness, fetching>>

\* Mutant: a fetch in flight is taken for the one that is wanted
InvalidateJoins(m) ==
  /\ freshness' = "invalid"
  /\ fetching' = IF Mounted(at) /\ fetching = Unasked THEN [Unasked EXCEPT !.pc = "asked"] ELSE fetching
  /\ why' = IF held = NoData /\ fetching.pc = "read" THEN [why EXCEPT ![running[m]] = "overtaken"] ELSE why
  /\ UNCHANGED held

\* invalidateQueries: a query that is shown is fetched at once.  The fetch in flight is dropped for
\* it, unless it is the first: its answer, read before the change, will count as fresh.
Invalidate(m) ==
  /\ freshness' = "invalid"
  /\ fetching' = IF Mounted(at) /\ (held # NoData \/ fetching = Unasked) THEN [Unasked EXCEPT !.pc = "asked"] ELSE fetching
  /\ why' = IF held = NoData /\ fetching.pc = "read" THEN [why EXCEPT ![running[m]] = "overtaken"] ELSE why
  /\ UNCHANGED held

\* setQueryData, which drops no fetch: one in flight may bring back what was before.  The
\* answer itself may be older than what is there, or than what was known to be wanted.
SetData(m) ==
  LET v == running[m]
  IN  /\ held' = v /\ freshness' = "fresh" /\ UNCHANGED fetching
      /\ why' = [u \in DOMAIN why |->
           IF \/ u <= v /\ fetching.pc = "read" /\ fetching.version < u
              \/ v < u /\ (freshness = "invalid" \/ (held # NoData /\ u <= held))
           THEN "overtaken" ELSE why[u]]

MutationSucceeds(m) ==
  /\ running[m] \in 1 .. fact /\ running' = [running EXCEPT ![m] = 0]
  /\ \/ query \in Told(m) /\ Invalidate(m)
     \/ query = Sets[m] /\ SetData(m)
     \/ query \notin Told(m) \cup {Sets[m]} /\ UNCHANGED <<why, held, freshness, fetching>>
  /\ UNCHANGED <<query, at>>

CacheNext ==
  \/ ApiReads \/ Answered \/ FetchingFails \/ Ages \/ Collected \/ Reconnects \/ OthersChange
  \/ \E p \in Followed : Open(p)
  \/ \E m \in DOMAIN running : Mutate(m) \/ ApiRuns(m) \/ MutationFails(m) \/ MutationSucceeds(m)

CacheSpec == CacheInit /\ [][CacheNext]_cacheVars
-----------------------------------------------------------------------------
(* What may be expected of it *)

\* What is not told to the page that does it: rows the mutation's hook does not think of
Untold == {
  <<"setupDemo", "user-accounts">>, <<"clearDemo", "user-accounts">>, <<"clearDemo", "database-accounts">>,
  <<"requestAccess", "pending">>, <<"clearDemo", "pending">>, <<"updateDatabase", "pending">>, <<"updateAccount", "pending">>, <<"updateProfile", "pending">>,
  <<"updateRole", "groups-members">>, <<"updateRole", "me">>, <<"removeUser", "me">>, <<"updateSettings", "me">>}

\* Data that are shown, taken for good and not being fetched lack none of the changes made from a
\* page that shows them, once the page knows it was made, but for those it is not told of and for
\* answers that were lost or overtaken.
ShowsForCause ==
  Mounted(at) /\ held # NoData /\ freshness # "invalid" /\ fetching = Unasked =>
    \A v \in held + 1 .. fact :
      \/ why[v] \in {"others", "lost", "overtaken"}
      \/ <<why[v], query>> \in Untold
      \/ \A p \in Pages : why[v] \in Offers[p] => ~Mounted(p)
      \/ \E m \in DOMAIN running : running[m] = v

\* No answer replaces a later one, but in the two queries mutations write themselves.
NeverBack == [][held # NoData /\ held' # NoData /\ held' < held => query \in {"settings", "me"}]_cacheVars
=============================================================================
