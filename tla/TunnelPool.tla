----------------------------- MODULE TunnelPool -----------------------------
(***************************************************************************)
(* The SSH tunnels of the query service (drivers/tunnel.go).               *)
(*                                                                         *)
(* A tunnel listens on a port of this host and forwards what connects to   *)
(* it to one target, a database behind an SSH host.  Queries share tunnels *)
(* and count themselves in refs; a tunnel older than the time to live is   *)
(* not handed out again, and a ticker closes it once nobody uses it.       *)
(*                                                                         *)
(* What a handler does under the pool's lock is one step.  The fast path   *)
(* holds the read lock, the slow path the write lock, and the pool may     *)
(* change between the two.                                                 *)
(***************************************************************************)
EXTENDS Naturals, FiniteSets

CONSTANTS
  Queries,     \* goroutines that serve a query
  Targets,     \* what a tunnel leads to: SSH endpoint and database endpoint
  Ports,       \* local ports the system may assign to a listener
  MaxTunnels   \* bound on the tunnels ever created

ASSUME BoundAssumption == MaxTunnels \in Nat
ASSUME QueriesAssumption == IsFiniteSet(Queries)

Tunnels == 1 .. MaxTunnels   \* in the order of their creation
NoTunnel == 0
None == "none"

VARIABLES
  made,  \* the tunnels created so far are 1 .. made
  aged,  \* those older than the time to live are 1 .. aged
  tun,   \* the tunnels
  pool,  \* p.tunnels: the tunnel kept under each key
  call,  \* the query each goroutine serves
  mode   \* the life of the process

vars == <<made, aged, tun, pool, call, mode>>

Tunnel == [target : Targets \cup {None}, port : Ports \cup {None}, refs : Nat, open : BOOLEAN]

Call == [pc : {"idle", "slow", "using"}, target : Targets \cup {None},
         tunnel : Tunnels \cup {NoTunnel},
         reached : Targets \cup {None}]   \* where its connection leads

Idle == [pc |-> "idle", target |-> None, tunnel |-> NoTunnel, reached |-> None]

Unmade == [target |-> None, port |-> None, refs |-> 0, open |-> FALSE]

TypeOK ==
  /\ made \in 0 .. MaxTunnels /\ aged \in 0 .. made
  /\ tun \in [Tunnels -> Tunnel]
  /\ pool \in [Targets -> Tunnels \cup {NoTunnel}]
  /\ call \in [Queries -> Call]
  /\ mode \in {"serving", "draining", "closed"}
-----------------------------------------------------------------------------
\* Mutant: the key of a tunnel leaves the database out
TunnelKeyOfHost(k) == CHOOSE h \in Targets : TRUE

TunnelKey(k) == k

Expired(t) == t <= aged

\* The tunnel a query for target k may take from the pool
Pooled(k) == pool[TunnelKey(k)]
Reusable(k) == Pooled(k) # NoTunnel /\ ~Expired(Pooled(k))

Users(t) == {q \in Queries : call[q].pc = "using" /\ call[q].tunnel = t}

FreePort(p) == \A t \in Tunnels : tun[t].open => tun[t].port # p

Init ==
  /\ made = 0 /\ aged = 0
  /\ tun = [t \in Tunnels |-> Unmade]
  /\ pool = [k \in Targets |-> NoTunnel]
  /\ call = [q \in Queries |-> Idle]
  /\ mode = "serving"

PooledTunnels == {pool[k] : k \in Targets} \ {NoTunnel}

\* The tunnels once those in S are closed
Shut(S) == [t \in Tunnels |-> IF t \in S THEN [tun[t] EXCEPT !.open = FALSE] ELSE tun[t]]

\* closeTunnelLocked for each pooled tunnel in S
CloseTunnels(S) ==
  /\ tun' = Shut(S)
  /\ pool' = [k \in Targets |-> IF pool[k] \in S THEN NoTunnel ELSE pool[k]]

Use(q, k, t) ==
  call' = [call EXCEPT ![q] = [pc |-> "using", target |-> k, tunnel |-> t, reached |-> None]]
-----------------------------------------------------------------------------
(***************************************************************************)
(* GetOrCreate                                                             *)
(***************************************************************************)
\* Mutant: the age is not looked at
FastPathAnyAge(q, k) ==
  /\ mode = "serving"
  /\ call[q].pc = "idle"
  /\ IF Pooled(k) # NoTunnel
     THEN /\ tun' = [tun EXCEPT ![Pooled(k)].refs = @ + 1]
          /\ Use(q, k, Pooled(k))
     ELSE /\ call' = [call EXCEPT ![q] = [Idle EXCEPT !.pc = "slow", !.target = k]]
          /\ UNCHANGED tun
  /\ UNCHANGED <<made, aged, pool, mode>>

\* A new query looks under the read lock
FastPath(q, k) ==
  /\ mode = "serving"
  /\ call[q].pc = "idle"
  /\ IF Reusable(k)
     THEN /\ tun' = [tun EXCEPT ![Pooled(k)].refs = @ + 1]
          /\ Use(q, k, Pooled(k))
     ELSE /\ call' = [call EXCEPT ![q] = [Idle EXCEPT !.pc = "slow", !.target = k]]
          /\ UNCHANGED tun
  /\ UNCHANGED <<made, aged, pool, mode>>

\* Mutant: the second look takes the tunnel without counting
SlowPathReuseUncounted(q) ==
  LET k == call[q].target IN
  /\ call[q].pc = "slow"
  /\ Reusable(k)
  /\ Use(q, k, Pooled(k))
  /\ UNCHANGED <<made, aged, tun, pool, mode>>

\* Under the write lock: somebody has made the tunnel meanwhile
SlowPathReuse(q) ==
  LET k == call[q].target IN
  /\ call[q].pc = "slow"
  /\ Reusable(k)
  /\ tun' = [tun EXCEPT ![Pooled(k)].refs = @ + 1]
  /\ Use(q, k, Pooled(k))
  /\ UNCHANGED <<made, aged, pool, mode>>

\* Mutant: no second look, the tunnel under the key is replaced whatever it is
SlowPathCreateAlways(q, p) ==
  LET k == call[q].target  t == made + 1 IN
  /\ call[q].pc = "slow"
  /\ made < MaxTunnels /\ FreePort(p)
  /\ made' = t
  /\ tun' = [tun EXCEPT ![t] = [target |-> k, port |-> p, refs |-> 1, open |-> TRUE]]
  /\ pool' = [pool EXCEPT ![TunnelKey(k)] = t]
  /\ Use(q, k, t)
  /\ UNCHANGED <<aged, mode>>

\* The expired tunnel is closed, whoever uses it, and a new one takes its place
SlowPathCreate(q, p) ==
  LET k == call[q].target  t == made + 1 IN
  /\ call[q].pc = "slow"
  /\ ~Reusable(k)
  /\ made < MaxTunnels /\ FreePort(p)
  /\ made' = t
  /\ tun' = [Shut({Pooled(k)}) EXCEPT
               ![t] = [target |-> k, port |-> p, refs |-> 1, open |-> TRUE]]
  /\ pool' = [pool EXCEPT ![TunnelKey(k)] = t]
  /\ Use(q, k, t)
  /\ UNCHANGED <<aged, mode>>

\* The SSH host does not answer or no listener is to be had: the query fails
SlowPathFail(q) ==
  LET k == call[q].target IN
  /\ call[q].pc = "slow"
  /\ ~Reusable(k)
  /\ CloseTunnels({Pooled(k)})
  /\ call' = [call EXCEPT ![q] = Idle]
  /\ UNCHANGED <<made, aged, mode>>
-----------------------------------------------------------------------------
\* The query connects to the port it was told and is forwarded by the tunnel that
\* listens there now
Connect(q) ==
  /\ call[q].pc = "using"
  /\ \E t \in Tunnels :
       /\ tun[t].open /\ tun[t].port = tun[call[q].tunnel].port
       /\ call' = [call EXCEPT ![q].reached = tun[t].target]
  /\ UNCHANGED <<made, aged, tun, pool, mode>>

\* Mutant: a query that never got a connection does not release
ReleaseIfReached(q) ==
  /\ call[q].pc = "using"
  /\ tun' = [tun EXCEPT ![call[q].tunnel].refs = IF call[q].reached = None THEN @ ELSE @ - 1]
  /\ call' = [call EXCEPT ![q] = Idle]
  /\ UNCHANGED <<made, aged, pool, mode>>

\* The deferred release, whether the query succeeded or not
Release(q) ==
  /\ call[q].pc = "using"
  /\ tun' = [tun EXCEPT ![call[q].tunnel].refs = @ - 1]
  /\ call' = [call EXCEPT ![q] = Idle]
  /\ UNCHANGED <<made, aged, pool, mode>>

\* Mutant: the count is not looked at
CleanupStaleUsed ==
  LET stale == {t \in PooledTunnels : Expired(t)} IN
  /\ mode # "closed"
  /\ stale # {}
  /\ CloseTunnels(stale)
  /\ UNCHANGED <<made, aged, call, mode>>

\* One tick of the cleanup goroutine
CleanupStale ==
  LET stale == {t \in PooledTunnels : Expired(t) /\ tun[t].refs = 0} IN
  /\ mode # "closed"
  /\ stale # {}
  /\ CloseTunnels(stale)
  /\ UNCHANGED <<made, aged, call, mode>>

\* Time passes: the oldest tunnel that has not reached the time to live does
Age == aged < made /\ aged' = aged + 1 /\ UNCHANGED <<made, tun, pool, call, mode>>

(***************************************************************************)
(* Shutdown: the server stops accepting requests and waits for those in    *)
(* progress; only then is the pool closed.                                 *)
(***************************************************************************)
Shutdown ==
  /\ mode = "serving" /\ mode' = "draining"
  /\ UNCHANGED <<made, aged, tun, pool, call>>

Close ==
  /\ mode = "draining"
  /\ \A q \in Queries : call[q].pc = "idle"
  /\ mode' = "closed"
  /\ CloseTunnels(PooledTunnels)
  /\ UNCHANGED <<made, aged, call>>

Serve(q) ==
  \/ \E k \in Targets : FastPath(q, k)
  \/ SlowPathReuse(q)
  \/ \E p \in Ports : SlowPathCreate(q, p)
  \/ SlowPathFail(q)
  \/ Connect(q)
  \/ Release(q)

Next == (\E q \in Queries : Serve(q)) \/ CleanupStale \/ Age \/ Shutdown \/ Close

Spec == Init /\ [][Next]_vars

\* Time passes, the ticker ticks, and a query ends: its context has a deadline
Fairness == WF_vars(Age) /\ WF_vars(CleanupStale) /\ \A q \in Queries : WF_vars(Release(q))

FairSpec == Spec /\ Fairness
-----------------------------------------------------------------------------
(***************************************************************************)
(* Properties                                                              *)
(***************************************************************************)
\* refs counts the queries that use the tunnel, through races between the two
\* paths, failed queries and the replacement of the tunnel (GetOrCreate, release).
RefsCountUsers == \A t \in Tunnels : tun[t].refs = Cardinality(Users(t))

\* No open tunnel is lost: the pool still knows it, so the ticker can close it.
\* Two queries that both missed must not both create (the second look).
NoTunnelLost == \A t \in Tunnels : tun[t].open => pool[TunnelKey(tun[t].target)] = t

\* As long as a query's tunnel is open the query talks to the database it is meant
\* for (tunnelKey, and the port the entry was created with).
OwnTargetWhileOpen ==
  \A q \in Queries :
    call[q].pc = "using" /\ tun[call[q].tunnel].open => call[q].reached \in {None, call[q].target}

\* A tunnel is closed under a query in one case only: it is past its time to live
\* and another query for the same target is replacing it.
Replaces(t) ==
  \E q \in Queries :
    /\ call[q].pc = "slow" /\ call[q].target = tun[t].target
    /\ call'[q].pc # "slow"
ClosedUnderQuery ==
  [][\A t \in Tunnels :
       tun[t].open /\ ~tun'[t].open /\ Users(t) # {} => Expired(t) /\ Replaces(t)]_vars

\* Every tunnel is closed sooner or later, however busy its target is: once it is
\* past its time to live nobody new gets it, and the last release leaves it to the
\* ticker.
TunnelsTurnOver == \A t \in Tunnels : t <= made ~> ~tun[t].open
=============================================================================
