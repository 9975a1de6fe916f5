--------------------------- MODULE AccountBackend ---------------------------
(***************************************************************************)
(* What the workbench keeps of one account: the keys with which the query  *)
(* service opens its credentials (BaseRemoteBackend.ts) and the history of *)
(* the queries of this tab (WorkbenchProvider.tsx).                        *)
(*                                                                         *)
(* A backend is made for the account and for what is known of it, of the   *)
(* session and of the passphrase (WorkbenchPage.tsx), and is made anew     *)
(* when any of that changes; the provider is put up anew for another       *)
(* account only.  A query belongs to the backend it began with, however    *)
(* long it takes.  What a query does in the service is QueryRun's.         *)
(***************************************************************************)
EXTENDS Naturals, Sequences, FiniteSets

CONSTANTS
  Runs,         \* the queries, each begun once
  MaxMade,      \* bound on the backends
  MaxRight,     \* bound on the credentials the account has one after the other
  HistoryLimit  \* HISTORY_LIMIT

ASSUME BackendAssumption == MaxMade \in Nat \ {0} /\ MaxRight \in Nat \ {0} /\ HistoryLimit \in Nat

VARIABLES
  inUse,   \* the backends made so far; the last is in use
  mount,   \* the providers put up so far
  right,   \* the credentials the account has, by number
  cached,  \* cachedKeys of each backend: the credentials they open, 0 for none
  memory,  \* memoryHistory of each backend, newest first
  shown,   \* the history of the provider, newest first
  run,     \* what has become of each query
  era      \* how often the history that is shown was begun anew

backendVars == <<inUse, mount, right, cached, memory, shown, run, era>>
keep == <<inUse, mount, era>>

Made == 1..MaxMade
Hows == {"query", "export"}

NotBegun == [pc |-> "new", how |-> "query", made |-> 0, mount |-> 0, keys |-> 0,
             raced |-> FALSE, era |-> 0]

BackendTypeOK ==
  /\ inUse \in Made /\ mount \in Made /\ right \in 1..MaxRight
  /\ cached \in [Made -> 0..MaxRight]
  /\ memory \in [Made -> Seq(Runs)] /\ \A m \in Made : Len(memory[m]) <= HistoryLimit
  /\ shown \in Seq(Runs)
  /\ run \in [Runs -> [pc : {"new", "asking", "answered", "running", "ended"}, how : Hows,
                       made : 0..MaxMade, mount : 0..MaxMade, keys : 0..MaxRight,
                       raced : BOOLEAN, era : Nat]]

BackendInit ==
  /\ inUse = 1 /\ mount = 1 /\ right = 1 /\ era = 1
  /\ cached = [m \in Made |-> 0] /\ memory = [m \in Made |-> <<>>] /\ shown = <<>>
  /\ run = [r \in Runs |-> NotBegun]
-----------------------------------------------------------------------------
AskingKeys(m) == {r \in Runs : run[r].made = m /\ run[r].pc \in {"asking", "answered"}}

BegunRun(r, how) == [NotBegun EXCEPT !.how = how, !.made = inUse, !.mount = mount]

\* Mutant: the keys are asked for with every query
AskEveryTime(r, how) ==
  /\ run[r].pc = "new"
  /\ run' = [run EXCEPT ![r] = [BegunRun(r, how) EXCEPT !.pc = "asking",
                                                     !.raced = AskingKeys(inUse) # {}]]
  /\ UNCHANGED <<keep, right, cached, memory, shown>>

(* Two queries that find no keys ask for them both *)
BeginQuery(r, how) ==
  /\ run[r].pc = "new"
  /\ run' = [run EXCEPT ![r] =
       IF cached[inUse] # 0
       THEN [BegunRun(r, how) EXCEPT !.pc = "running", !.keys = cached[inUse]]
       ELSE [BegunRun(r, how) EXCEPT !.pc = "asking", !.raced = AskingKeys(inUse) # {}]]
  /\ UNCHANGED <<keep, right, cached, memory, shown>>

ServeKeys(r) ==
  /\ run[r].pc = "asking"
  /\ run' = [run EXCEPT ![r].pc = "answered", ![r].keys = right]
  /\ UNCHANGED <<keep, right, cached, memory, shown>>

(* fetchKeys: whichever answer comes last is kept *)
FetchKeys(r) ==
  /\ run[r].pc = "answered"
  /\ run' = [run EXCEPT ![r].pc = "running"]
  /\ cached' = [cached EXCEPT ![run[r].made] = run[r].keys]
  /\ UNCHANGED <<keep, right, memory, shown>>

Newest(s) == IF Len(s) > HistoryLimit THEN SubSeq(s, 1, HistoryLimit) ELSE s

EndedRun(r) == [run EXCEPT ![r].pc = "ended", ![r].keys = 0,
                        ![r].era = IF run[r].mount = mount THEN era ELSE 0]

\* Mutant: what a backend that is not in use any more was asked is not told
RecordIfCurrent(r) ==
  LET told == run[r].made = inUse /\ run[r].how # "export" IN
  /\ run' = EndedRun(r)
  /\ memory' = IF told THEN [memory EXCEPT ![inUse] = Newest(<<r>> \o @)] ELSE memory
  /\ shown' = IF told THEN <<r>> \o shown ELSE shown

(***************************************************************************)
(* runQuery and streamQuery of the provider, when the backend has answered *)
(* or thrown: the backend remembers so many, the provider shows them all,  *)
(* those of a backend before this one too.  An export passes it by.        *)
(***************************************************************************)
Remember(r) ==
  LET told == run[r].how # "export" IN
  /\ run' = EndedRun(r)
  /\ memory' = IF told THEN [memory EXCEPT ![run[r].made] = Newest(<<r>> \o @)] ELSE memory
  /\ shown' = IF told /\ run[r].mount = mount THEN <<r>> \o shown ELSE shown

(* No passphrase, a refusal, a lost answer: the query fails and the next one asks again *)
FailKeys(r) ==
  /\ run[r].pc \in {"asking", "answered"}
  /\ Remember(r)
  /\ UNCHANGED <<keep, right, cached>>

(* runRemoteQuery, streamRemoteQuery, exportRemoteQuery: done or failed, the keys are kept *)
EndQuery(r) ==
  /\ run[r].pc = "running"
  /\ Remember(r)
  /\ UNCHANGED <<keep, right, cached>>
-----------------------------------------------------------------------------
\* Mutant: only what is shown is cleared
ClearShown ==
  /\ shown # <<>>
  /\ shown' = <<>> /\ era' = era + 1
  /\ UNCHANGED <<inUse, mount, right, cached, memory, run>>

ClearHistory ==
  /\ shown # <<>>
  /\ memory' = [memory EXCEPT ![inUse] = <<>>]
  /\ shown' = <<>> /\ era' = era + 1
  /\ UNCHANGED <<inUse, mount, right, cached, run>>

(* The provider lists the history of the backend it is given, and a new one has none *)
MakeBackend(again) ==
  /\ inUse < MaxMade /\ inUse' = inUse + 1
  /\ mount' = IF again THEN mount + 1 ELSE mount
  /\ shown' = memory[inUse'] /\ era' = era + 1
  /\ UNCHANGED <<right, cached, memory, run>>

(* An admin changes the account's password, or the key of the user is replaced *)
ChangeCredentials ==
  /\ right < MaxRight /\ right' = right + 1
  /\ UNCHANGED <<keep, cached, memory, shown, run>>

BackendNext ==
  \/ \E r \in Runs :
       \/ \E how \in Hows : BeginQuery(r, how)
       \/ ServeKeys(r) \/ FetchKeys(r) \/ FailKeys(r) \/ EndQuery(r)
  \/ ClearHistory \/ ChangeCredentials
  \/ \E again \in BOOLEAN : MakeBackend(again)
-----------------------------------------------------------------------------
\* The places in the history that is shown of the queries of the backend in use, and which of
\* them a place is
OwnShown == {i \in 1..Len(shown) : run[shown[i]].made = inUse}
Place(i) == Cardinality({j \in OwnShown : j <= i})

\* What the backend in use remembers is what is shown of its queries, newest first and as many
\* as it may keep; no other query has crept in.
MemoryIsShown ==
  /\ Len(memory[inUse]) =
       IF Cardinality(OwnShown) < HistoryLimit THEN Cardinality(OwnShown) ELSE HistoryLimit
  /\ \A i \in OwnShown : Place(i) <= HistoryLimit => memory[inUse][Place(i)] = shown[i]

\* A query that has ended is shown once, whether it ran or found no keys and whichever backend
\* it began with, until the history is begun anew; an export never is
\* (WorkbenchProvider.tsx:86, ExportDialog.tsx).
EndsAreShown ==
  \A r \in Runs :
    LET times == {i \in 1..Len(shown) : shown[i] = r} IN
    IF run[r].pc = "ended" /\ run[r].how # "export" /\ run[r].era = era
    THEN \E i \in times : times = {i}
    ELSE times = {}

\* The keys of a backend are asked for until they come and never again: credentials that have
\* changed since are used, and refused, until the page makes another backend.  Only queries that
\* asked at the same time bring them twice, and the older ones may come last
\* (BaseRemoteBackend.ts:437).
KeysKept ==
  [][\A m \in Made :
       cached[m] # 0 /\ cached'[m] # cached[m] =>
         \E r \in Runs : run[r].made = m /\ run[r].raced]_backendVars
=============================================================================
