------------------------------ MODULE ConnPool ------------------------------
(***************************************************************************)
(* The database handles of the query service (drivers/pool.go): one        *)
(* *sql.DB for each driver and connection string, kept until it has not    *)
(* been asked for in ten minutes or does not answer a ping.                *)
(*                                                                         *)
(* The map is read and written under a lock; the ping, up to two seconds   *)
(* long, is not under it.                                                  *)
(***************************************************************************)
EXTENDS Naturals

CONSTANTS
  Queries,  \* goroutines that serve a query
  Keys,     \* driver and connection string
  MaxDBs    \* bound on the handles ever opened

ASSUME BoundAssumption == MaxDBs \in Nat

DBs == 1 .. MaxDBs   \* in the order in which they are opened
NoDB == 0
None == "none"

VARIABLES
  made,    \* the handles opened so far are 1 .. made
  pools,   \* p.pools: the handle kept under each key
  open,    \* handles that are not closed
  recent,  \* handles whose lastUsed is less than ten minutes old
  call,    \* the query each goroutine serves
  lost     \* history: handles dropped by a query whose ping of another one failed

vars == <<made, pools, open, recent, call, lost>>

Call == [pc : {"idle", "get", "ping", "drop", "miss", "run"}, key : Keys \cup {None},
         db : DBs \cup {NoDB}]

Idle == [pc |-> "idle", key |-> None, db |-> NoDB]

TypeOK ==
  /\ made \in 0 .. MaxDBs
  /\ pools \in [Keys -> DBs \cup {NoDB}]
  /\ open \subseteq 1 .. made /\ recent \subseteq 1 .. made /\ lost \subseteq 1 .. made
  /\ call \in [Queries -> Call]
-----------------------------------------------------------------------------
Init ==
  /\ made = 0
  /\ pools = [k \in Keys |-> NoDB]
  /\ open = {} /\ recent = {} /\ lost = {}
  /\ call = [q \in Queries |-> Idle]

Goto(q, from, to) == call[q].pc = from /\ call' = [call EXCEPT ![q].pc = to]

Begin(q, k) ==
  /\ call[q].pc = "idle"
  /\ call' = [call EXCEPT ![q] = [pc |-> "get", key |-> k, db |-> NoDB]]
  /\ UNCHANGED <<made, pools, open, recent, lost>>

(***************************************************************************)
(* Get                                                                     *)
(***************************************************************************)
\* Mutant: whether there is a handle under the key is not looked at
GetFastUnchecked(q) ==
  LET db == pools[call[q].key] IN
  /\ call[q].pc = "get"
  /\ recent' = recent \cup {db}
  /\ call' = [call EXCEPT ![q].pc = "ping", ![q].db = db]
  /\ UNCHANGED <<made, pools, open, lost>>

\* Under the read lock: the handle under the key, to be pinged
GetFast(q) ==
  LET db == pools[call[q].key] IN
  /\ call[q].pc = "get"
  /\ db # NoDB
  /\ recent' = recent \cup {db}
  /\ call' = [call EXCEPT ![q].pc = "ping", ![q].db = db]
  /\ UNCHANGED <<made, pools, open, lost>>

GetMiss(q) ==
  /\ Goto(q, "get", "miss")
  /\ pools[call[q].key] = NoDB
  /\ UNCHANGED <<made, pools, open, recent, lost>>

\* A closed handle does not answer
PingOk(q) ==
  /\ call[q].db \in open
  /\ Goto(q, "ping", "run")
  /\ UNCHANGED <<made, pools, open, recent, lost>>

PingFail(q) ==
  /\ Goto(q, "ping", "drop")
  /\ UNCHANGED <<made, pools, open, recent, lost>>

\* Mutant: what is closed is the handle under the key
DropPooled(q) ==
  LET k == call[q].key IN
  /\ Goto(q, "drop", "get")
  /\ pools' = [pools EXCEPT ![k] = NoDB]
  /\ open' = open \ {pools[k]}
  /\ UNCHANGED <<made, recent, lost>>

\* Mutant: the handle is closed and left under its key
DropKeepsKey(q) ==
  /\ Goto(q, "drop", "get")
  /\ open' = open \ {call[q].db}
  /\ UNCHANGED <<made, pools, recent, lost>>

\* Under the write lock: forget whatever is under the key, close the handle that did
\* not answer, and start again
Drop(q) ==
  LET k == call[q].key IN
  /\ Goto(q, "drop", "get")
  /\ pools' = [pools EXCEPT ![k] = NoDB]
  /\ open' = open \ {call[q].db}
  /\ lost' = lost \cup ({pools[k]} \ {NoDB, call[q].db})
  /\ UNCHANGED <<made, recent>>

\* Under the write lock: another query has opened the handle meanwhile; it is not pinged
MissFound(q) ==
  LET db == pools[call[q].key] IN
  /\ call[q].pc = "miss"
  /\ db # NoDB
  /\ recent' = recent \cup {db}
  /\ call' = [call EXCEPT ![q].pc = "run", ![q].db = db]
  /\ UNCHANGED <<made, pools, open, lost>>

\* Mutant: a new handle is opened without a second look
OpenAlways(q) ==
  /\ call[q].pc = "miss"
  /\ made < MaxDBs
  /\ made' = made + 1
  /\ open' = open \cup {made + 1} /\ recent' = recent \cup {made + 1}
  /\ pools' = [pools EXCEPT ![call[q].key] = made + 1]
  /\ call' = [call EXCEPT ![q].pc = "run", ![q].db = made + 1]
  /\ UNCHANGED lost

Open(q) ==
  /\ call[q].pc = "miss"
  /\ pools[call[q].key] = NoDB
  /\ made < MaxDBs
  /\ made' = made + 1
  /\ open' = open \cup {made + 1} /\ recent' = recent \cup {made + 1}
  /\ pools' = [pools EXCEPT ![call[q].key] = made + 1]
  /\ call' = [call EXCEPT ![q].pc = "run", ![q].db = made + 1]
  /\ UNCHANGED lost

\* sql.Open refuses the connection string
OpenFail(q) ==
  /\ call[q].pc = "miss"
  /\ pools[call[q].key] = NoDB
  /\ call' = [call EXCEPT ![q] = Idle]
  /\ UNCHANGED <<made, pools, open, recent, lost>>

\* The query has run on the handle, which stays in the pool
Finish(q) ==
  /\ call[q].pc = "run"
  /\ call' = [call EXCEPT ![q] = Idle]
  /\ UNCHANGED <<made, pools, open, recent, lost>>
-----------------------------------------------------------------------------
\* Ten minutes have passed since the handle was last asked for
Idles(db) ==
  /\ db \in recent
  /\ recent' = recent \ {db}
  /\ UNCHANGED <<made, pools, open, call, lost>>

\* One tick of the cleanup goroutine
CleanupStale ==
  LET stale == {pools[k] : k \in Keys} \ (recent \cup {NoDB}) IN
  /\ stale # {}
  /\ open' = open \ stale
  /\ pools' = [k \in Keys |-> IF pools[k] \in stale THEN NoDB ELSE pools[k]]
  /\ UNCHANGED <<made, recent, call, lost>>

Get(q) ==
  \/ GetFast(q) \/ GetMiss(q)
  \/ PingOk(q) \/ PingFail(q) \/ Drop(q)
  \/ MissFound(q) \/ Open(q) \/ OpenFail(q)

Next ==
  \/ \E q \in Queries, k \in Keys : Begin(q, k)
  \/ \E q \in Queries : Get(q) \/ Finish(q)
  \/ \E db \in DBs : Idles(db)
  \/ CleanupStale

Spec == Init /\ [][Next]_vars
-----------------------------------------------------------------------------
(***************************************************************************)
(* Properties                                                              *)
(***************************************************************************)
\* What the map hands out has not been closed by anybody, although a query closes
\* the handle it pinged without looking whether it is still the one in the map.
PooledIsOpen == \A k \in Keys : pools[k] # NoDB => pools[k] \in open

\* An open handle that the map does not know can never be closed.  It takes a query
\* whose ping of an older handle under the same key failed to lose one so.
OnlyDropLoses == \A db \in open : db \in lost \/ \E k \in Keys : pools[k] = db

\* A handle is closed only because nobody asked for it in ten minutes or because a
\* ping of that same handle failed (Get, cleanupStale).
ClosedForCause ==
  [][\A db \in open \ open' :
       db \notin recent \/ \E q \in Queries : call[q].pc = "drop" /\ call[q].db = db]_vars
=============================================================================
