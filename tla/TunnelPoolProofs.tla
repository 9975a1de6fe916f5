-------------------------- MODULE TunnelPoolProofs --------------------------
(***************************************************************************)
(* Proofs about TunnelPool, for any number of queries, targets and tunnels. *)
(***************************************************************************)
EXTENDS TunnelPool, FiniteSetTheorems, TLAPS

\* A tunnel that was never made is blank
MadeSound ==
  /\ \A t \in Tunnels : t > made => tun[t] = Unmade
  /\ \A t \in Tunnels : t <= made => tun[t].target \in Targets

\* The pool keeps open tunnels, each under its own key
PoolSound ==
  \A k \in Targets :
    pool[k] # NoTunnel => pool[k] <= made /\ tun[pool[k]].target = k /\ tun[pool[k]].open

\* A query uses a tunnel that leads to its target
CallSound ==
  \A q \in Queries :
    /\ call[q].pc # "idle" => call[q].target \in Targets
    /\ call[q].pc = "using" =>
         /\ call[q].tunnel \in Tunnels /\ call[q].tunnel <= made
         /\ tun[call[q].tunnel].target = call[q].target

\* No two listeners share a port
DistinctPorts ==
  \A t1, t2 \in Tunnels :
    tun[t1].open /\ tun[t2].open /\ tun[t1].port = tun[t2].port => t1 = t2

Inv ==
  /\ TypeOK /\ MadeSound /\ PoolSound /\ CallSound
  /\ NoTunnelLost /\ RefsCountUsers /\ DistinctPorts /\ OwnTargetWhileOpen
-----------------------------------------------------------------------------
(***************************************************************************)
(* Counting                                                                *)
(***************************************************************************)
LEMMA UsersFinite == ASSUME NEW t PROVE IsFiniteSet(Users(t))
<1>1. Users(t) \subseteq Queries BY DEF Users
<1> QED BY <1>1, FS_Subset, QueriesAssumption

\* One query more, one query less
LEMMA CountJoin ==
  ASSUME NEW S, NEW q, IsFiniteSet(S), q \notin S
  PROVE  Cardinality(S \cup {q}) = Cardinality(S) + 1
BY FS_AddElement

LEMMA CountLeave ==
  ASSUME NEW S, NEW q, IsFiniteSet(S), q \in S
  PROVE  /\ Cardinality(S) \in Nat \ {0}
         /\ Cardinality(S \ {q}) = Cardinality(S) - 1
<1>1. Cardinality(S) \in Nat BY FS_CardinalityType
<1>2. Cardinality(S) # 0 BY FS_EmptySet
<1>3. Cardinality(S \ {q}) = Cardinality(S) - 1 BY FS_RemoveElement
<1> QED BY <1>1, <1>2, <1>3

LEMMA IdleType == Idle \in Call /\ Idle.pc = "idle"
BY DEF Idle, Call

LEMMA NoTunnelType == NoTunnel \notin Tunnels
BY BoundAssumption DEF NoTunnel, Tunnels
-----------------------------------------------------------------------------
\* A query takes the tunnel kept under its key, on either path
Take(q, k) ==
  /\ call[q].pc # "using"
  /\ Pooled(k) # NoTunnel
  /\ tun' = [tun EXCEPT ![Pooled(k)].refs = @ + 1]
  /\ Use(q, k, Pooled(k))
  /\ UNCHANGED <<made, aged, pool, mode>>

LEMMA TakeKeepsInv ==
  ASSUME Inv, NEW q \in Queries, NEW k \in Targets, Take(q, k)
  PROVE  Inv'
<1> DEFINE x == pool[k]
<1> USE NoTunnelType DEF Take, Use, Pooled, TunnelKey
<1>1. x \in Tunnels /\ x # NoTunnel /\ tun[x] \in Tunnel /\ tun[x].open
      /\ tun[x].target = k /\ x <= made
  BY DEF Inv, TypeOK, PoolSound
<1>2. tun' = [tun EXCEPT ![x].refs = tun[x].refs + 1]
  OBVIOUS
<1>3. call' = [call EXCEPT ![q] = [pc |-> "using", target |-> k, tunnel |-> x, reached |-> None]]
  OBVIOUS
<1> HIDE DEF x
<1>4. [tun[x] EXCEPT !.refs = tun[x].refs + 1] \in Tunnel
  BY <1>1 DEF Tunnel
<1>5. /\ tun' \in [Tunnels -> Tunnel]
      /\ \A t \in Tunnels : /\ tun'[t].target = tun[t].target /\ tun'[t].port = tun[t].port
                            /\ tun'[t].open = tun[t].open
                            /\ t # x => tun'[t] = tun[t]
      /\ tun'[x].refs = tun[x].refs + 1
  BY <1>1, <1>2, <1>4 DEF Inv, TypeOK, Tunnel
<1>6. TypeOK'
  BY <1>1, <1>3, <1>5 DEF Inv, TypeOK, Call
<1>7. MadeSound' /\ PoolSound' /\ NoTunnelLost' /\ DistinctPorts'
  BY <1>1, <1>5 DEF Inv, TypeOK, MadeSound, PoolSound, NoTunnelLost, DistinctPorts, Tunnels
<1>8. CallSound' /\ OwnTargetWhileOpen'
  BY <1>1, <1>3, <1>5 DEF Inv, TypeOK, CallSound, OwnTargetWhileOpen, Call
<1>9. RefsCountUsers'
  <2> SUFFICES ASSUME NEW t \in Tunnels PROVE tun'[t].refs = Cardinality(Users(t)')
    BY DEF RefsCountUsers
  <2>1. tun[t].refs = Cardinality(Users(t)) BY DEF Inv, RefsCountUsers
  <2>2. q \notin Users(t) BY DEF Users
  <2>3. CASE t = x
    <3>1. Users(t)' = Users(t) \cup {q}
      BY <1>3, <2>3 DEF Inv, TypeOK, Users
    <3> QED BY <1>5, <2>1, <2>2, <2>3, <3>1, CountJoin, UsersFinite
  <2>4. CASE t # x
    <3>1. Users(t)' = Users(t)
      BY <1>3, <2>2, <2>4 DEF Inv, TypeOK, Users
    <3> QED BY <1>5, <2>1, <2>4, <3>1
  <2> QED BY <2>3, <2>4
<1> QED BY <1>6, <1>7, <1>8, <1>9 DEF Inv
-----------------------------------------------------------------------------
\* Tunnels are closed and no query changes what it uses
Closing(S) ==
  /\ S \subseteq PooledTunnels \cup {NoTunnel}
  /\ CloseTunnels(S)
  /\ call' \in [Queries -> Call]
  /\ \A q \in Queries : call'[q] = call[q] \/ (call'[q] = Idle /\ call[q].pc # "using")
  /\ mode' \in {"serving", "draining", "closed"}
  /\ UNCHANGED <<made, aged>>

LEMMA ClosingKeepsInv == ASSUME Inv, NEW S, Closing(S) PROVE Inv'
<1> USE NoTunnelType DEF Closing
<1>1. /\ tun' \in [Tunnels -> Tunnel]
      /\ \A t \in Tunnels : /\ tun'[t].target = tun[t].target /\ tun'[t].port = tun[t].port
                            /\ tun'[t].refs = tun[t].refs
                            /\ tun'[t].open = (tun[t].open /\ t \notin S)
                            /\ t \notin S => tun'[t] = tun[t]
  <2>1. tun \in [Tunnels -> Tunnel] BY DEF Inv, TypeOK
  <2>2. tun' = [t \in Tunnels |-> IF t \in S THEN [tun[t] EXCEPT !.open = FALSE] ELSE tun[t]]
    BY DEF CloseTunnels, Shut
  <2>3. ASSUME NEW y \in Tunnel
        PROVE  /\ [y EXCEPT !.open = FALSE] \in Tunnel
               /\ [y EXCEPT !.open = FALSE].target = y.target /\ [y EXCEPT !.open = FALSE].port = y.port
               /\ [y EXCEPT !.open = FALSE].refs = y.refs /\ [y EXCEPT !.open = FALSE].open = FALSE
               /\ y.open \in BOOLEAN
    BY DEF Tunnel
  <2>4. ASSUME NEW t \in Tunnels
        PROVE  /\ tun'[t] \in Tunnel
               /\ tun'[t].target = tun[t].target /\ tun'[t].port = tun[t].port
               /\ tun'[t].refs = tun[t].refs
               /\ tun'[t].open = (tun[t].open /\ t \notin S)
               /\ t \notin S => tun'[t] = tun[t]
    <3>1. PICK y \in Tunnel : y = tun[t] BY <2>1
    <3>2. CASE t \in S
      <4>1. tun'[t] = [y EXCEPT !.open = FALSE] BY <2>2, <3>1, <3>2
      <4> QED BY <2>3, <3>1, <3>2, <4>1
    <3>3. CASE t \notin S
      <4>1. tun'[t] = y BY <2>2, <3>1, <3>3
      <4> QED BY <2>3, <3>1, <3>3, <4>1
    <3> QED BY <3>2, <3>3
  <2>5. tun' \in [Tunnels -> Tunnel] BY <2>2, <2>4
  <2> QED BY <2>4, <2>5
<1>2. /\ pool' \in [Targets -> Tunnels \cup {NoTunnel}]
      /\ \A k \in Targets : pool'[k] = IF pool[k] \in S THEN NoTunnel ELSE pool[k]
  BY DEF Inv, TypeOK, CloseTunnels
<1>3. TypeOK'
  BY <1>1, <1>2 DEF Inv, TypeOK
<1>4. \A t \in Tunnels : t \in S => t <= made
  BY DEF Inv, PoolSound, PooledTunnels
<1>5. MadeSound'
  BY <1>1, <1>4 DEF Inv, TypeOK, MadeSound, Tunnels
<1>6. PoolSound' /\ DistinctPorts'
  <2>1. PoolSound'
    <3> SUFFICES ASSUME NEW k \in Targets, pool'[k] # NoTunnel
                 PROVE  pool'[k] <= made' /\ tun'[pool'[k]].target = k /\ tun'[pool'[k]].open
      BY DEF PoolSound
    <3>1. pool'[k] = pool[k] /\ pool[k] \notin S /\ pool[k] \in Tunnels
      BY <1>2 DEF Inv, TypeOK
    <3> QED BY <1>1, <3>1 DEF Inv, PoolSound
  <2>2. DistinctPorts'
    BY <1>1 DEF Inv, DistinctPorts
  <2> QED BY <2>1, <2>2
<1>10. NoTunnelLost'
  <2> SUFFICES ASSUME NEW t \in Tunnels, tun'[t].open PROVE pool'[tun[t].target] = t
    BY <1>1 DEF NoTunnelLost, TunnelKey
  <2>1. tun[t].open /\ t \notin S BY <1>1
  <2>2. tun[t].target \in Targets
    BY <2>1 DEF Inv, TypeOK, MadeSound, Unmade, Tunnels
  <2>3. pool[tun[t].target] = t
    BY <2>1 DEF Inv, NoTunnelLost, TunnelKey
  <2> QED BY <1>2, <2>1, <2>2, <2>3
<1>7. CallSound' /\ OwnTargetWhileOpen'
  <2>1. \A q \in Queries : call'[q] = call[q] \/ call'[q].pc = "idle"
    BY IdleType
  <2>2. ASSUME NEW q \in Queries, call'[q].pc # "idle"
        PROVE  /\ call'[q] = call[q]
               /\ call[q].target \in Targets
               /\ call[q].pc = "using" =>
                    /\ call[q].tunnel \in Tunnels /\ call[q].tunnel <= made
                    /\ tun[call[q].tunnel].target = call[q].target
                    /\ tun[call[q].tunnel].open => call[q].reached \in {None, call[q].target}
    BY <2>1, <2>2 DEF Inv, CallSound, OwnTargetWhileOpen
  <2>3. CallSound' BY <1>1, <2>2 DEF CallSound
  <2>4. OwnTargetWhileOpen'
    <3> SUFFICES ASSUME NEW q \in Queries, call'[q].pc = "using", tun'[call'[q].tunnel].open
                 PROVE  call'[q].reached \in {None, call'[q].target}
      BY DEF OwnTargetWhileOpen
    <3>1. /\ call'[q] = call[q] /\ call[q].tunnel \in Tunnels
          /\ tun[call[q].tunnel].open => call[q].reached \in {None, call[q].target}
      BY <2>2
    <3>2. tun[call[q].tunnel].open BY <1>1, <3>1
    <3> QED BY <3>1, <3>2
  <2> QED BY <2>3, <2>4
<1>8. \A t \in Tunnels : Users(t)' = Users(t)
  BY IdleType DEF Users
<1>9. RefsCountUsers'
  BY <1>1, <1>8 DEF Inv, RefsCountUsers
<1> QED BY <1>3, <1>5, <1>6, <1>7, <1>9, <1>10 DEF Inv
-----------------------------------------------------------------------------
LEMMA CreateKeepsInv ==
  ASSUME Inv, NEW q \in Queries, NEW p \in Ports, SlowPathCreate(q, p)
  PROVE  Inv'
<1> DEFINE k == call[q].target  t == made + 1  x == pool[k]
           new == [target |-> k, port |-> p, refs |-> 1, open |-> TRUE]
<1> USE NoTunnelType
<1>1. /\ k \in Targets /\ call[q].pc = "slow"
      /\ t \in Tunnels /\ t > made /\ made \in Nat /\ aged \in Nat /\ aged <= made
      /\ x # t /\ x \in Tunnels \cup {NoTunnel} /\ new \in Tunnel
  BY BoundAssumption DEF Inv, TypeOK, CallSound, PoolSound, SlowPathCreate, Tunnels, Tunnel
<1>2. /\ made' = t /\ aged' = aged /\ mode' = mode
      /\ tun' = [Shut({x}) EXCEPT ![t] = new]
      /\ pool' = [pool EXCEPT ![k] = t]
      /\ call' = [call EXCEPT ![q] = [pc |-> "using", target |-> k, tunnel |-> t, reached |-> None]]
  BY DEF SlowPathCreate, Use, Pooled, TunnelKey
<1>3. FreePort(p) BY DEF SlowPathCreate
<1> HIDE DEF new
<1>4. new.target = k /\ new.port = p /\ new.refs = 1 /\ new.open
  BY DEF new
<1>5. /\ tun' \in [Tunnels -> Tunnel]
      /\ tun'[t] = new
      /\ \A u \in Tunnels : u # t =>
           /\ tun'[u].target = tun[u].target /\ tun'[u].port = tun[u].port
           /\ tun'[u].refs = tun[u].refs /\ tun'[u].open = (tun[u].open /\ u # x)
           /\ u # x => tun'[u] = tun[u]
  BY <1>1, <1>2 DEF Inv, TypeOK, Shut, Tunnel
<1> HIDE DEF k, t, x
<1>6. TypeOK'
  <2>1. made' \in 0 .. MaxTunnels /\ aged' \in 0 .. made'
    BY <1>1, <1>2, BoundAssumption DEF Tunnels, t
  <2> QED BY <1>1, <1>2, <1>5, <2>1 DEF Inv, TypeOK, Call
<1>7. MadeSound'
  <2>1. x <= made BY <1>1, BoundAssumption DEF Inv, PoolSound, NoTunnel, x
  <2>2. \A u \in Tunnels : u > made' => u # t /\ u # x /\ u > made
    BY <1>1, <1>2, <2>1 DEF Tunnels, t, NoTunnel
  <2>3. \A u \in Tunnels : u <= made' => u = t \/ u <= made
    BY <1>1, <1>2 DEF Tunnels, t
  <2>4. \A u \in Tunnels : u > made' => tun'[u] = Unmade
    BY <1>5, <2>2 DEF Inv, MadeSound
  <2>5. \A u \in Tunnels : u <= made' => tun'[u].target \in Targets
    BY <1>1, <1>4, <1>5, <2>3 DEF Inv, MadeSound
  <2> QED BY <2>4, <2>5 DEF MadeSound
<1>8. PoolSound'
  <2> SUFFICES ASSUME NEW j \in Targets, pool'[j] # NoTunnel
               PROVE  pool'[j] <= made' /\ tun'[pool'[j]].target = j /\ tun'[pool'[j]].open
    BY DEF PoolSound
  <2>1. CASE j = k
    BY <1>1, <1>2, <1>4, <1>5, <2>1 DEF Inv, TypeOK, Tunnels
  <2>2. CASE j # k
    <3>1. pool'[j] = pool[j] /\ pool[j] \in Tunnels
      BY <1>2, <2>2 DEF Inv, TypeOK
    <3>2. pool[j] <= made /\ tun[pool[j]].target = j /\ tun[pool[j]].open
      BY <3>1 DEF Inv, PoolSound
    <3>3. pool[j] # x
      <4> SUFFICES ASSUME pool[j] = x PROVE FALSE
        OBVIOUS
      <4>1. tun[x].target = k BY <1>1, <3>1 DEF Inv, PoolSound, x
      <4> QED BY <2>2, <3>2, <4>1
    <3>4. pool[j] # t /\ pool[j] <= made'
      BY <1>1, <1>2, <3>1, <3>2 DEF Tunnels
    <3>5. tun'[pool[j]].target = j /\ tun'[pool[j]].open
      BY <1>5, <3>1, <3>2, <3>3, <3>4
    <3> QED BY <3>1, <3>4, <3>5
  <2> QED BY <2>1, <2>2
<1>9. NoTunnelLost'
  <2> SUFFICES ASSUME NEW u \in Tunnels, tun'[u].open PROVE pool'[tun'[u].target] = u
    BY DEF NoTunnelLost, TunnelKey
  <2>1. CASE u = t
    BY <1>1, <1>2, <1>4, <1>5, <2>1 DEF Inv, TypeOK
  <2>2. CASE u # t
    <3>1. tun[u].open /\ u # x /\ tun'[u].target = tun[u].target
      BY <1>5, <2>2
    <3>2. pool[tun[u].target] = u
      BY <3>1 DEF Inv, NoTunnelLost, TunnelKey
    <3>3. tun[u].target # k
      BY <3>1, <3>2 DEF x
    <3>4. tun[u].target \in Targets
      BY <3>1 DEF Inv, TypeOK, MadeSound, Unmade, Tunnels
    <3> QED BY <1>2, <3>1, <3>2, <3>3, <3>4 DEF Inv, TypeOK
  <2> QED BY <2>1, <2>2
<1>10. DistinctPorts'
  <2>1. \A u, w \in Tunnels : u # w /\ tun[u].open /\ tun[w].open => tun[u].port # tun[w].port
    BY DEF Inv, DistinctPorts
  <2>2. \A u \in Tunnels : u # t /\ tun'[u].open => tun[u].open /\ tun'[u].port = tun[u].port BY <1>5
  <2>3. tun'[t].port = p BY <1>4, <1>5
  <2>4. \A u \in Tunnels : u # t /\ tun'[u].open => tun'[u].port # p BY <1>3, <2>2 DEF FreePort
  <2>5. ASSUME NEW u \in Tunnels, NEW w \in Tunnels, u # w, tun'[u].open, tun'[w].open
        PROVE  tun'[u].port # tun'[w].port
    <3>1. CASE u = t BY <2>3, <2>4, <2>5, <3>1
    <3>2. CASE w = t BY <2>3, <2>4, <2>5, <3>2
    <3>3. CASE u # t /\ w # t BY <2>1, <2>2, <2>5, <3>3
    <3> QED BY <3>1, <3>2, <3>3
  <2> QED BY <2>5 DEF DistinctPorts
<1>11. CallSound'
  <2> SUFFICES ASSUME NEW r \in Queries
               PROVE  /\ call'[r].pc # "idle" => call'[r].target \in Targets
                      /\ call'[r].pc = "using" =>
                            /\ call'[r].tunnel \in Tunnels /\ call'[r].tunnel <= made'
                            /\ tun'[call'[r].tunnel].target = call'[r].target
    BY DEF CallSound
  <2>1. CASE r = q
    BY <1>1, <1>2, <1>4, <1>5, <2>1 DEF Inv, TypeOK, Tunnels
  <2>2. CASE r # q
    <3>1. call'[r] = call[r] BY <1>2, <2>2 DEF Inv, TypeOK
    <3>2. call[r].pc = "using" =>
            /\ call[r].tunnel \in Tunnels /\ call[r].tunnel <= made' /\ call[r].tunnel # t
            /\ tun[call[r].tunnel].target = call[r].target
      BY <1>1, <1>2 DEF Inv, CallSound, Tunnels
    <3>3. call[r].pc = "using" => tun'[call[r].tunnel].target = call[r].target
      BY <1>5, <3>2
    <3>4. call[r].pc # "idle" => call[r].target \in Targets
      BY DEF Inv, CallSound
    <3> QED BY <3>1, <3>2, <3>3, <3>4
  <2> QED BY <2>1, <2>2
<1>12. OwnTargetWhileOpen'
  <2> SUFFICES ASSUME NEW r \in Queries, call'[r].pc = "using", tun'[call'[r].tunnel].open
               PROVE  call'[r].reached \in {None, call'[r].target}
    BY DEF OwnTargetWhileOpen
  <2>1. CASE r = q BY <1>2, <2>1 DEF Inv, TypeOK
  <2>2. CASE r # q
    <3>1. call'[r] = call[r] BY <1>2, <2>2 DEF Inv, TypeOK
    <3>2. call[r].tunnel \in Tunnels /\ call[r].tunnel # t
      BY <1>1, <3>1 DEF Inv, CallSound, Tunnels
    <3>3. tun[call[r].tunnel].open BY <1>5, <3>1, <3>2
    <3>4. call[r].reached \in {None, call[r].target} BY <3>1, <3>3 DEF Inv, OwnTargetWhileOpen
    <3> QED BY <3>1, <3>4
  <2> QED BY <2>1, <2>2
<1>13. RefsCountUsers'
  <2> SUFFICES ASSUME NEW u \in Tunnels PROVE tun'[u].refs = Cardinality(Users(u)')
    BY DEF RefsCountUsers
  <2>1. tun[u].refs = Cardinality(Users(u)) BY DEF Inv, RefsCountUsers
  <2>2. CASE u = t
    <3>1. Users(u) = {} BY <1>1, <2>2 DEF Inv, CallSound, Users, Tunnels
    <3>2. Users(u)' = {q}
      BY <1>2, <2>2, <3>1 DEF Inv, TypeOK, Users
    <3>3. tun'[u].refs = 1 BY <1>4, <1>5, <2>2
    <3>4. Cardinality({q}) = 1 BY FS_Singleton
    <3> QED BY <3>2, <3>3, <3>4
  <2>3. CASE u # t
    <3>1. Users(u)' = Users(u)
      BY <1>1, <1>2, <2>3 DEF Inv, TypeOK, Users
    <3> QED BY <1>5, <2>1, <2>3, <3>1
  <2> QED BY <2>2, <2>3
<1> QED BY <1>6, <1>7, <1>8, <1>9, <1>10, <1>11, <1>12, <1>13 DEF Inv
-----------------------------------------------------------------------------
LEMMA ReleaseKeepsInv == ASSUME Inv, NEW q \in Queries, Release(q) PROVE Inv'
<1> DEFINE x == call[q].tunnel
<1>1. x \in Tunnels /\ tun[x] \in Tunnel /\ call[q].pc = "using"
  BY DEF Inv, TypeOK, CallSound, Release
<1>2. /\ tun' = [tun EXCEPT ![x].refs = tun[x].refs - 1]
      /\ call' = [call EXCEPT ![q] = Idle]
      /\ UNCHANGED <<made, aged, pool, mode>>
  BY DEF Release
<1>3. q \in Users(x) BY <1>1 DEF Users
<1> HIDE DEF x
<1>4. /\ tun[x].refs = Cardinality(Users(x))
      /\ tun[x].refs - 1 \in Nat
      /\ Cardinality(Users(x) \ {q}) = tun[x].refs - 1
  BY <1>1, <1>3, CountLeave, UsersFinite DEF Inv, RefsCountUsers
<1>5. /\ tun' \in [Tunnels -> Tunnel]
      /\ \A t \in Tunnels : /\ tun'[t].target = tun[t].target /\ tun'[t].port = tun[t].port
                            /\ tun'[t].open = tun[t].open
                            /\ t # x => tun'[t] = tun[t]
      /\ tun'[x].refs = tun[x].refs - 1
  BY <1>1, <1>2, <1>4 DEF Inv, TypeOK, Tunnel
<1>6. TypeOK'
  BY <1>2, <1>5 DEF Inv, TypeOK, Call, Idle
<1>7. x <= made BY <1>1, <1>2 DEF Inv, CallSound, x
<1>8. MadeSound'
  BY <1>1, <1>2, <1>5, <1>7 DEF Inv, TypeOK, MadeSound, Tunnels
<1>9. PoolSound' /\ NoTunnelLost' /\ DistinctPorts'
  BY <1>2, <1>5, NoTunnelType DEF Inv, TypeOK, PoolSound, NoTunnelLost, DistinctPorts, TunnelKey
<1>10. CallSound' /\ OwnTargetWhileOpen'
  BY <1>2, <1>5 DEF Inv, TypeOK, CallSound, OwnTargetWhileOpen, Idle
<1>11. RefsCountUsers'
  <2> SUFFICES ASSUME NEW t \in Tunnels PROVE tun'[t].refs = Cardinality(Users(t)')
    BY DEF RefsCountUsers
  <2>1. CASE t = x
    <3>1. Users(t)' = Users(t) \ {q}
      BY <1>2 DEF Inv, TypeOK, Users, Idle
    <3> QED BY <1>4, <1>5, <2>1, <3>1
  <2>2. CASE t # x
    <3>1. Users(t)' = Users(t)
      BY <1>2, <2>2 DEF Inv, TypeOK, Users, Idle, x
    <3> QED BY <1>5, <2>2, <3>1 DEF Inv, RefsCountUsers
  <2> QED BY <2>1, <2>2
<1> QED BY <1>6, <1>8, <1>9, <1>10, <1>11 DEF Inv

LEMMA ConnectKeepsInv == ASSUME Inv, NEW q \in Queries, Connect(q) PROVE Inv'
<1>1. PICK t \in Tunnels : /\ tun[t].open /\ tun[t].port = tun[call[q].tunnel].port
                            /\ call' = [call EXCEPT ![q].reached = tun[t].target]
  BY DEF Connect
<1>2. call[q].pc = "using" /\ UNCHANGED <<made, aged, tun, pool, mode>>
  BY DEF Connect
<1>3. [call[q] EXCEPT !.reached = tun[t].target] \in Call
  BY DEF Inv, TypeOK, Call, Tunnel
<1>4. /\ call' \in [Queries -> Call]
      /\ \A r \in Queries : /\ call'[r].pc = call[r].pc /\ call'[r].target = call[r].target
                            /\ call'[r].tunnel = call[r].tunnel
                            /\ r # q => call'[r] = call[r]
      /\ call'[q].reached = tun[t].target
  BY <1>1, <1>3 DEF Inv, TypeOK, Call
<1>5. TypeOK' BY <1>2, <1>4 DEF Inv, TypeOK
<1>6. MadeSound' /\ PoolSound' /\ NoTunnelLost' /\ DistinctPorts'
  BY <1>2 DEF Inv, MadeSound, PoolSound, NoTunnelLost, DistinctPorts
<1>7. CallSound'
  <2>1. ASSUME NEW r \in Queries
        PROVE  /\ call'[r].pc # "idle" => call'[r].target \in Targets
               /\ call'[r].pc = "using" =>
                     /\ call'[r].tunnel \in Tunnels /\ call'[r].tunnel <= made'
                     /\ tun'[call'[r].tunnel].target = call'[r].target
    <3>1. /\ call[r].pc # "idle" => call[r].target \in Targets
          /\ call[r].pc = "using" =>
                /\ call[r].tunnel \in Tunnels /\ call[r].tunnel <= made
                /\ tun[call[r].tunnel].target = call[r].target
      BY DEF Inv, CallSound
    <3>2. call'[r].pc = call[r].pc /\ call'[r].target = call[r].target /\ call'[r].tunnel = call[r].tunnel
      BY <1>4
    <3> QED BY <1>2, <3>1, <3>2, Zenon
  <2> QED BY <2>1, Zenon DEF CallSound
<1>8. \A u \in Tunnels : Users(u)' = Users(u) BY <1>4, Zenon DEF Users
<1>9. RefsCountUsers' BY <1>2, <1>8 DEF Inv, RefsCountUsers
<1>10. OwnTargetWhileOpen'
  <2> SUFFICES ASSUME NEW r \in Queries, call[r].pc = "using", tun[call[r].tunnel].open
               PROVE  call'[r].reached \in {None, call[r].target}
    BY <1>2, <1>4, Zenon DEF OwnTargetWhileOpen
  <2>1. CASE r # q
    <3>1. call'[r] = call[r] BY <1>4, <2>1
    <3> QED BY <3>1 DEF Inv, OwnTargetWhileOpen
  <2>2. CASE r = q
    <3>1. call[q].tunnel \in Tunnels /\ tun[call[q].tunnel].target = call[q].target
      BY <1>2 DEF Inv, CallSound
    <3>2. t = call[q].tunnel
      BY <1>1, <2>2, <3>1 DEF Inv, DistinctPorts
    <3> QED BY <1>4, <2>2, <3>1, <3>2
  <2> QED BY <2>1, <2>2
<1> QED BY <1>5, <1>6, <1>7, <1>9, <1>10 DEF Inv

\* A query that found nothing goes on to the slow path
LEMMA MissKeepsInv ==
  ASSUME Inv, NEW q \in Queries, NEW k \in Targets, call[q].pc = "idle",
         call' = [call EXCEPT ![q] = [Idle EXCEPT !.pc = "slow", !.target = k]],
         UNCHANGED <<made, aged, tun, pool, mode>>
  PROVE  Inv'
<1> DEFINE r == [Idle EXCEPT !.pc = "slow", !.target = k]
<1>1. r \in Call /\ r.pc = "slow" /\ r.target = k BY DEF Idle, Call
<1> HIDE DEF r
<1>2. call' = [call EXCEPT ![q] = r] BY DEF r
<1>3. TypeOK' BY <1>1, <1>2 DEF Inv, TypeOK
<1>4. MadeSound' /\ PoolSound' /\ NoTunnelLost' /\ DistinctPorts'
  BY DEF Inv, MadeSound, PoolSound, NoTunnelLost, DistinctPorts
<1>5. CallSound' /\ OwnTargetWhileOpen'
  BY <1>1, <1>2 DEF Inv, TypeOK, CallSound, OwnTargetWhileOpen
<1>6. \A u \in Tunnels : Users(u)' = Users(u) BY <1>1, <1>2 DEF Inv, TypeOK, Users
<1>7. RefsCountUsers' BY <1>6 DEF Inv, RefsCountUsers
<1> QED BY <1>3, <1>4, <1>5, <1>7 DEF Inv
-----------------------------------------------------------------------------
\* Every step is one of the above
LEMMA ServeKeepsInv == ASSUME Inv, NEW q \in Queries, Serve(q) PROVE Inv'
<1>1. ASSUME NEW k \in Targets, FastPath(q, k) PROVE Inv'
  <2>1. CASE Reusable(k)
    <3>1. Take(q, k) BY <1>1, <2>1 DEF FastPath, Take, Reusable
    <3> QED BY <3>1, TakeKeepsInv
  <2>2. CASE ~Reusable(k)
    <3>1. /\ call[q].pc = "idle"
          /\ call' = [call EXCEPT ![q] = [Idle EXCEPT !.pc = "slow", !.target = k]]
          /\ UNCHANGED <<made, aged, tun, pool, mode>>
      BY <1>1, <2>2 DEF FastPath
    <3> QED BY <3>1, MissKeepsInv
  <2> QED BY <2>1, <2>2
<1>2. CASE SlowPathReuse(q)
  <2>1. call[q].target \in Targets BY <1>2 DEF Inv, CallSound, SlowPathReuse
  <2>2. Take(q, call[q].target) BY <1>2 DEF SlowPathReuse, Take, Reusable
  <2> QED BY <2>1, <2>2, TakeKeepsInv
<1>3. ASSUME NEW p \in Ports, SlowPathCreate(q, p) PROVE Inv'
  BY <1>3, CreateKeepsInv
<1>4. CASE SlowPathFail(q)
  <2> DEFINE S == {Pooled(call[q].target)}
  <2>1. call[q].target \in Targets BY <1>4 DEF Inv, CallSound, SlowPathFail
  <2>2. S \subseteq PooledTunnels \cup {NoTunnel}
    BY <2>1 DEF PooledTunnels, Pooled, TunnelKey
  <2>3. CloseTunnels(S) /\ UNCHANGED <<made, aged, mode>> /\ call[q].pc = "slow"
        /\ call' = [call EXCEPT ![q] = Idle]
    BY <1>4 DEF SlowPathFail
  <2>4. call' \in [Queries -> Call]
        /\ \A r \in Queries : call'[r] = call[r] \/ (call'[r] = Idle /\ call[r].pc # "using")
    <3>1. call \in [Queries -> Call] BY DEF Inv, TypeOK
    <3> QED BY <2>3, <3>1, IdleType
  <2>5. mode \in {"serving", "draining", "closed"} BY DEF Inv, TypeOK
  <2>6. Closing(S) BY <2>2, <2>3, <2>4, <2>5 DEF Closing
  <2> QED BY <2>6, ClosingKeepsInv
<1>5. CASE Connect(q) BY <1>5, ConnectKeepsInv
<1>6. CASE Release(q) BY <1>6, ReleaseKeepsInv
<1> QED BY <1>1, <1>2, <1>3, <1>4, <1>5, <1>6 DEF Serve

LEMMA InitInv == Init => Inv
<1> SUFFICES ASSUME Init PROVE Inv OBVIOUS
<1>1. TypeOK BY BoundAssumption DEF Init, TypeOK, Unmade, Idle, Tunnel, Call
<1>2. MadeSound /\ PoolSound /\ CallSound /\ NoTunnelLost /\ DistinctPorts /\ OwnTargetWhileOpen
  BY DEF Init, MadeSound, PoolSound, CallSound, NoTunnelLost, DistinctPorts, OwnTargetWhileOpen,
         Unmade, Idle, Tunnels
<1>3. \A t \in Tunnels : Users(t) = {} BY DEF Init, Users, Idle
<1>4. RefsCountUsers BY <1>3, FS_EmptySet DEF Init, RefsCountUsers, Unmade
<1> QED BY <1>1, <1>2, <1>4 DEF Inv

LEMMA NextInv == Inv /\ [Next]_vars => Inv'
<1> SUFFICES ASSUME Inv, [Next]_vars PROVE Inv' OBVIOUS
<1>1. ASSUME NEW q \in Queries, Serve(q) PROVE Inv' BY <1>1, ServeKeepsInv
<1>2. CASE CleanupStale
  <2>1. PICK S \in SUBSET PooledTunnels : CloseTunnels(S) /\ UNCHANGED <<made, aged, call, mode>>
    BY <1>2 DEF CleanupStale
  <2>2. call \in [Queries -> Call] /\ mode \in {"serving", "draining", "closed"}
    BY DEF Inv, TypeOK
  <2>3. Closing(S) BY <2>1, <2>2 DEF Closing
  <2> QED BY <2>3, ClosingKeepsInv
<1>3. CASE Close
  <2>1. Closing(PooledTunnels) BY <1>3 DEF Close, Closing, Inv, TypeOK
  <2> QED BY <2>1, ClosingKeepsInv
<1>4. CASE Age
  <2>1. TypeOK' BY <1>4 DEF Age, Inv, TypeOK
  <2>2. \A t \in Tunnels : Users(t)' = Users(t) BY <1>4 DEF Age, Users
  <2> QED BY <1>4, <2>1, <2>2 DEF Age, Inv, MadeSound, PoolSound, CallSound, NoTunnelLost,
                              RefsCountUsers, DistinctPorts, OwnTargetWhileOpen
<1>5. CASE Shutdown
  <2>1. TypeOK' BY <1>5 DEF Shutdown, Inv, TypeOK
  <2>2. \A t \in Tunnels : Users(t)' = Users(t) BY <1>5 DEF Shutdown, Users
  <2> QED BY <1>5, <2>1, <2>2 DEF Shutdown, Inv, MadeSound, PoolSound, CallSound, NoTunnelLost,
                              RefsCountUsers, DistinctPorts, OwnTargetWhileOpen
<1>6. CASE UNCHANGED vars
  <2>1. TypeOK' BY <1>6 DEF vars, Inv, TypeOK
  <2>2. \A t \in Tunnels : Users(t)' = Users(t) BY <1>6 DEF vars, Users
  <2> QED BY <1>6, <2>1, <2>2 DEF vars, Inv, MadeSound, PoolSound, CallSound, NoTunnelLost,
                              RefsCountUsers, DistinctPorts, OwnTargetWhileOpen
<1> QED BY <1>1, <1>2, <1>3, <1>4, <1>5, <1>6 DEF Next

LEMMA InvHolds == Spec => []Inv
BY InitInv, NextInv, PTL DEF Spec

\* Every reachable state is type-correct.
THEOREM TypeCorrect == Spec => []TypeOK
BY InvHolds, PTL DEF Inv

\* refs of a tunnel is the number of queries that use it.
THEOREM RefsCountUsersHolds == Spec => []RefsCountUsers
BY InvHolds, PTL DEF Inv

\* Every open tunnel is in the pool, where the ticker finds it.
THEOREM NoTunnelLostHolds == Spec => []NoTunnelLost
BY InvHolds, PTL DEF Inv

\* While its tunnel is open a query talks to its own database.
THEOREM OwnTargetWhileOpenHolds == Spec => []OwnTargetWhileOpen
BY InvHolds, PTL DEF Inv
-----------------------------------------------------------------------------
\* What closes the tunnel kept under the key of a query on the slow path
LEMMA ReplacementCloses ==
  ASSUME Inv, NEW q \in Queries, NEW t \in Tunnels,
         call[q].pc = "slow", ~Reusable(call[q].target), call'[q].pc # "slow",
         t = Pooled(call[q].target)
  PROVE  Expired(t) /\ Replaces(t)
<1>1. t # NoTunnel BY NoTunnelType
<1>2. Expired(t) BY <1>1 DEF Reusable
<1>3. call[q].target \in Targets BY DEF Inv, CallSound
<1>4. call[q].target = tun[t].target
  BY <1>1, <1>3 DEF Inv, PoolSound, Pooled, TunnelKey
<1> QED BY <1>2, <1>4 DEF Replaces

LEMMA ClosedUnderQueryStep ==
  ASSUME Inv, [Next]_vars, NEW t \in Tunnels, tun[t].open, ~tun'[t].open, Users(t) # {}
  PROVE  Expired(t) /\ Replaces(t)
<1> DEFINE Goal == Expired(t) /\ Replaces(t)
<1>1. tun' # tun OBVIOUS
<1>2. ASSUME NEW q \in Queries, NEW k \in Targets, FastPath(q, k) PROVE Goal
  <2>1. CASE Reusable(k)
    <3>1. Take(q, k) BY <1>2, <2>1 DEF FastPath, Take, Reusable
    <3>2. tun'[t].open = tun[t].open
      <4>1. Pooled(k) \in Tunnels /\ tun \in [Tunnels -> Tunnel]
        BY <3>1 DEF Take, Inv, TypeOK, Pooled, TunnelKey
      <4>2. tun' = [tun EXCEPT ![Pooled(k)].refs = @ + 1] BY <3>1 DEF Take
      <4> QED BY <4>1, <4>2 DEF Tunnel
    <3> QED BY <3>2
  <2>2. CASE ~Reusable(k) BY <1>1, <1>2, <2>2 DEF FastPath
  <2> QED BY <2>1, <2>2
<1>3. ASSUME NEW q \in Queries, SlowPathReuse(q) PROVE Goal
  <2>1. tun' = [tun EXCEPT ![Pooled(call[q].target)].refs = @ + 1] BY <1>3 DEF SlowPathReuse
  <2>2. tun \in [Tunnels -> Tunnel] BY DEF Inv, TypeOK
  <2>3. tun'[t].open = tun[t].open BY <2>1, <2>2 DEF Tunnel
  <2> QED BY <2>3
<1>4. ASSUME NEW q \in Queries, NEW p \in Ports, SlowPathCreate(q, p) PROVE Goal
  <2> DEFINE n == made + 1
             new == [target |-> call[q].target, port |-> p, refs |-> 1, open |-> TRUE]
  <2>1. /\ call[q].pc = "slow" /\ ~Reusable(call[q].target)
        /\ tun' = [Shut({Pooled(call[q].target)}) EXCEPT ![n] = new]
    BY <1>4 DEF SlowPathCreate
  <2>2. call'[q].pc # "slow" BY <1>4 DEF SlowPathCreate, Use, Inv, TypeOK
  <2>3. new.open OBVIOUS
  <2> HIDE DEF new, n
  <2>4. t # n BY <2>1, <2>3 DEF Shut
  <2>5. t = Pooled(call[q].target) BY <2>1, <2>4 DEF Shut, Inv, TypeOK, Tunnel
  <2> QED BY <2>1, <2>2, <2>5, ReplacementCloses
<1>5. ASSUME NEW q \in Queries, SlowPathFail(q) PROVE Goal
  <2>1. /\ call[q].pc = "slow" /\ ~Reusable(call[q].target)
        /\ tun' = Shut({Pooled(call[q].target)})
    BY <1>5 DEF SlowPathFail, CloseTunnels
  <2>2. call'[q].pc # "slow" BY <1>5, IdleType DEF SlowPathFail, Inv, TypeOK
  <2>3. t = Pooled(call[q].target) BY <2>1 DEF Shut
  <2> QED BY <2>1, <2>2, <2>3, ReplacementCloses
<1>6. ASSUME NEW q \in Queries, Connect(q) PROVE Goal
  BY <1>1, <1>6 DEF Connect
<1>7. ASSUME NEW q \in Queries, Release(q) PROVE Goal
  <2>1. tun' = [tun EXCEPT ![call[q].tunnel].refs = @ - 1] BY <1>7 DEF Release
  <2>2. tun \in [Tunnels -> Tunnel] BY DEF Inv, TypeOK
  <2>3. tun'[t].open = tun[t].open BY <2>1, <2>2 DEF Tunnel
  <2> QED BY <2>3
<1>8. CASE CleanupStale
  <2>1. PICK S : /\ tun' = Shut(S) /\ \A u \in S : tun[u].refs = 0
    BY <1>8 DEF CleanupStale, CloseTunnels
  <2>2. tun[t].refs = 0 BY <2>1 DEF Shut
  <2>3. Cardinality(Users(t)) = 0 BY <2>2 DEF Inv, RefsCountUsers
  <2> QED BY <2>3, UsersFinite, FS_EmptySet
<1>9. CASE Close
  BY <1>9 DEF Close, Users
<1>10. CASE Age BY <1>1, <1>10 DEF Age
<1>11. CASE Shutdown BY <1>1, <1>11 DEF Shutdown
<1>12. CASE UNCHANGED vars BY <1>1, <1>12 DEF vars
<1> QED BY <1>2, <1>3, <1>4, <1>5, <1>6, <1>7, <1>8, <1>9, <1>10, <1>11, <1>12 DEF Next, Serve

\* A tunnel is closed under a query only when it has expired and is being replaced.
THEOREM ClosedUnderQueryHolds == Spec => ClosedUnderQuery
<1>1. Inv /\ [Next]_vars =>
        [\A t \in Tunnels :
           tun[t].open /\ ~tun'[t].open /\ Users(t) # {} => Expired(t) /\ Replaces(t)]_vars
  BY ClosedUnderQueryStep
<1> QED BY <1>1, InvHolds, PTL DEF Spec, ClosedUnderQuery
-----------------------------------------------------------------------------
(***************************************************************************)
(* Turning over.  That a tunnel is closed sooner or later rests on three   *)
(* facts about every step and every state: an expired tunnel loses users   *)
(* and gains none, it stays expired and a closed tunnel stays closed, and  *)
(* once nobody uses it the ticker finds it.                                *)
(***************************************************************************)
\* No step opens a closed tunnel again, makes an expired one young or hands it to
\* a query that does not use it yet (Get, getOrCreate, cleanupStale).
Drains ==
  [][\A t \in Tunnels :
       t <= made =>
         /\ tun'[t].open => tun[t].open
         /\ Expired(t) => Expired(t)' /\ Users(t)' \subseteq Users(t)]_vars

\* The ticker runs and closes t at its next tick
Closable(t) == mode # "closed" /\ t \in PooledTunnels /\ Expired(t) /\ tun[t].refs = 0

\* An open tunnel that has expired and that nobody uses is within reach of the ticker
\* (cleanupStale, release, Close).
StaleIsClosable ==
  \A t \in Tunnels : tun[t].open /\ Expired(t) /\ Users(t) = {} => Closable(t)

\* Once the pool is closed no query is under way and no tunnel is open
ClosedSound ==
  mode = "closed" =>
    /\ \A q \in Queries : call[q].pc = "idle"
    /\ \A t \in Tunnels : ~tun[t].open

\* The tunnel of a query on the slow path is not handed out, and it is no new one
LEMMA SlowSteps ==
  ASSUME Inv, NEW q \in Queries, NEW t \in Tunnels, t <= made
  PROVE  /\ \A p \in Ports : SlowPathCreate(q, p) =>
               /\ tun'[t].open => tun[t].open
               /\ Users(t)' \subseteq Users(t)
         /\ SlowPathFail(q) =>
               /\ tun'[t].open => tun[t].open
               /\ Users(t)' \subseteq Users(t)
<1>1. ASSUME NEW p \in Ports, SlowPathCreate(q, p)
      PROVE  (tun'[t].open => tun[t].open) /\ Users(t)' \subseteq Users(t)
  <2> DEFINE n == made + 1
             new == [target |-> call[q].target, port |-> p, refs |-> 1, open |-> TRUE]
             own == [pc |-> "using", target |-> call[q].target, tunnel |-> n, reached |-> None]
  <2>1. /\ tun' = [Shut({Pooled(call[q].target)}) EXCEPT ![n] = new]
        /\ call' = [call EXCEPT ![q] = own]
    BY <1>1 DEF SlowPathCreate, Use
  <2>2. t # n BY BoundAssumption DEF Inv, TypeOK, Tunnels
  <2>3. own.tunnel = n OBVIOUS
  <2> HIDE DEF n, new, own
  <2>4. tun'[t] = Shut({Pooled(call[q].target)})[t] BY <2>1, <2>2 DEF Shut
  <2>5. tun'[t].open => tun[t].open BY <2>4 DEF Shut, Inv, TypeOK, Tunnel
  <2>6. Users(t)' \subseteq Users(t) BY <2>1, <2>2, <2>3 DEF Users, Inv, TypeOK
  <2> QED BY <2>5, <2>6
<1>2. ASSUME SlowPathFail(q)
      PROVE  (tun'[t].open => tun[t].open) /\ Users(t)' \subseteq Users(t)
  <2>1. tun' = Shut({Pooled(call[q].target)}) /\ call' = [call EXCEPT ![q] = Idle]
    BY <1>2 DEF SlowPathFail, CloseTunnels
  <2>2. tun'[t].open => tun[t].open BY <2>1 DEF Shut, Inv, TypeOK, Tunnel
  <2>3. Users(t)' \subseteq Users(t) BY <2>1, IdleType DEF Users, Inv, TypeOK
  <2> QED BY <2>2, <2>3
<1> QED BY <1>1, <1>2

\* A query takes a tunnel on either path only while that tunnel is young
LEMMA TakeSteps ==
  ASSUME Inv, NEW q \in Queries, NEW k, Take(q, k), Reusable(k), k \in Targets,
         NEW t \in Tunnels
  PROVE  /\ tun'[t].open = tun[t].open
         /\ Expired(t) => Users(t)' \subseteq Users(t)
<1> DEFINE own == [pc |-> "using", target |-> k, tunnel |-> Pooled(k), reached |-> None]
<1>1. /\ tun' = [tun EXCEPT ![Pooled(k)].refs = @ + 1]
      /\ call' = [call EXCEPT ![q] = own]
  BY DEF Take, Use
<1>2. tun'[t].open = tun[t].open BY <1>1 DEF Inv, TypeOK, Tunnel
<1>3. own.tunnel = Pooled(k) OBVIOUS
<1> HIDE DEF own
<1>4. ASSUME Expired(t) PROVE Users(t)' \subseteq Users(t)
  <2>1. Pooled(k) # t BY <1>4 DEF Reusable
  <2> QED BY <1>1, <1>3, <2>1 DEF Users, Inv, TypeOK
<1> QED BY <1>2, <1>4

LEMMA DrainsStep ==
  ASSUME Inv, [Next]_vars, NEW t \in Tunnels, t <= made
  PROVE  /\ tun'[t].open => tun[t].open
         /\ Expired(t) => Expired(t)' /\ Users(t)' \subseteq Users(t)
<1> DEFINE Opens == tun'[t].open => tun[t].open
           Joins == Expired(t) => Users(t)' \subseteq Users(t)
<1>1. Expired(t) => Expired(t)'
  <2>1. aged' = aged \/ aged' = aged + 1
    BY DEF Next, Serve, FastPath, SlowPathReuse, SlowPathCreate, SlowPathFail, Connect, Release,
           CleanupStale, Age, Shutdown, Close, vars
  <2>2. aged \in Nat BY BoundAssumption DEF Inv, TypeOK
  <2> QED BY <2>1, <2>2 DEF Expired, Tunnels
<1>2. ASSUME tun' = tun \/ \E S : tun' = Shut(S) PROVE Opens
  BY <1>2 DEF Shut, Inv, TypeOK, Tunnel
<1>3. ASSUME call' = call PROVE Joins BY <1>3 DEF Users
<1>4. ASSUME NEW q \in Queries, NEW k \in Targets, FastPath(q, k) PROVE Opens /\ Joins
  <2>1. CASE Reusable(k)
    <3>1. Take(q, k) BY <1>4, <2>1 DEF FastPath, Take, Reusable
    <3> QED BY <2>1, <3>1, TakeSteps
  <2>2. CASE ~Reusable(k)
    <3> DEFINE r == [Idle EXCEPT !.pc = "slow", !.target = k]
    <3>1. r.pc = "slow" BY DEF Idle
    <3>2. tun' = tun /\ call' = [call EXCEPT ![q] = r] BY <1>4, <2>2 DEF FastPath
    <3> HIDE DEF r
    <3>3. Joins BY <3>1, <3>2 DEF Users, Inv, TypeOK
    <3> QED BY <1>2, <3>2, <3>3
  <2> QED BY <2>1, <2>2
<1>5. ASSUME NEW q \in Queries, SlowPathReuse(q) PROVE Opens /\ Joins
  <2>1. call[q].target \in Targets BY <1>5 DEF Inv, CallSound, SlowPathReuse
  <2>2. Take(q, call[q].target) /\ Reusable(call[q].target)
    BY <1>5 DEF SlowPathReuse, Take, Reusable
  <2> QED BY <2>1, <2>2, TakeSteps
<1>6. ASSUME NEW q \in Queries, NEW p \in Ports, SlowPathCreate(q, p) PROVE Opens /\ Joins
  BY <1>6, SlowSteps
<1>7. ASSUME NEW q \in Queries, SlowPathFail(q) PROVE Opens /\ Joins
  BY <1>7, SlowSteps
<1>8. ASSUME NEW q \in Queries, Connect(q) PROVE Opens /\ Joins
  <2>1. PICK h : call' = [call EXCEPT ![q].reached = h] BY <1>8 DEF Connect
  <2>2. tun' = tun BY <1>8 DEF Connect
  <2>3. ASSUME NEW r \in Queries
        PROVE  call'[r].pc = call[r].pc /\ call'[r].tunnel = call[r].tunnel
    BY <2>1 DEF Inv, TypeOK, Call
  <2>4. Joins BY <2>3 DEF Users
  <2> QED BY <1>2, <2>2, <2>4
<1>9. ASSUME NEW q \in Queries, Release(q) PROVE Opens /\ Joins
  <2>1. tun' = [tun EXCEPT ![call[q].tunnel].refs = @ - 1] /\ call' = [call EXCEPT ![q] = Idle]
    BY <1>9 DEF Release
  <2>2. Opens BY <2>1 DEF Inv, TypeOK, Tunnel
  <2>3. Joins BY <2>1, IdleType DEF Users, Inv, TypeOK
  <2> QED BY <2>2, <2>3
<1>10. ASSUME CleanupStale PROVE Opens /\ Joins
  BY <1>2, <1>3, <1>10 DEF CleanupStale, CloseTunnels
<1>11. ASSUME Close PROVE Opens /\ Joins
  BY <1>2, <1>3, <1>11 DEF Close, CloseTunnels
<1>12. ASSUME Age \/ Shutdown \/ UNCHANGED vars PROVE Opens /\ Joins
  BY <1>2, <1>3, <1>12 DEF Age, Shutdown, vars
<1> QED BY <1>1, <1>4, <1>5, <1>6, <1>7, <1>8, <1>9, <1>10, <1>11, <1>12 DEF Next, Serve

\* A tunnel that has expired only loses users, and a closed one is not opened again.
THEOREM DrainsHolds == Spec => Drains
<1>1. Inv /\ [Next]_vars =>
        [\A t \in Tunnels :
           t <= made =>
             /\ tun'[t].open => tun[t].open
             /\ Expired(t) => Expired(t)' /\ Users(t)' \subseteq Users(t)]_vars
  BY DrainsStep
<1> QED BY <1>1, InvHolds, PTL DEF Spec, Drains

\* Every open tunnel is one of those the pool keeps
LEMMA OpenIsPooled == ASSUME Inv, NEW t \in Tunnels, tun[t].open PROVE t \in PooledTunnels
<1>1. tun[t].target \in Targets BY DEF Inv, TypeOK, MadeSound, Unmade, Tunnels
<1>2. pool[tun[t].target] = t BY DEF Inv, NoTunnelLost, TunnelKey
<1> QED BY <1>1, <1>2, NoTunnelType DEF PooledTunnels

LEMMA ClosedStep == Inv /\ ClosedSound /\ [Next]_vars => ClosedSound'
<1> SUFFICES ASSUME Inv, ClosedSound, [Next]_vars, mode' = "closed"
             PROVE  /\ \A q \in Queries : call'[q].pc = "idle"
                    /\ \A t \in Tunnels : ~tun'[t].open
  BY DEF ClosedSound
<1>1. CASE mode = "closed"
  <2>1. \A q \in Queries : call[q].pc = "idle" BY <1>1 DEF ClosedSound
  <2>2. \A t \in Tunnels : ~tun[t].open BY <1>1 DEF ClosedSound
  <2>3. ASSUME NEW q \in Queries PROVE ~Serve(q)
    BY <1>1, <2>1 DEF Serve, FastPath, SlowPathReuse, SlowPathCreate, SlowPathFail, Connect, Release
  <2>4. tun' = tun /\ call' = call
    BY <1>1, <2>3 DEF Next, CleanupStale, Age, Shutdown, Close, vars
  <2> QED BY <2>1, <2>2, <2>4
<1>2. CASE mode # "closed"
  <2>1. Close
    BY <1>2 DEF Next, Serve, FastPath, SlowPathReuse, SlowPathCreate, SlowPathFail, Connect, Release,
                CleanupStale, Age, Shutdown, vars
  <2>2. \A q \in Queries : call'[q].pc = "idle" BY <2>1 DEF Close
  <2>3. tun' = Shut(PooledTunnels) BY <2>1 DEF Close, CloseTunnels
  <2>4. ASSUME NEW t \in Tunnels PROVE ~tun'[t].open
    <3>1. CASE t \in PooledTunnels
      <4>1. tun'[t] = [tun[t] EXCEPT !.open = FALSE] BY <2>3, <3>1 DEF Shut
      <4> QED BY <4>1 DEF Inv, TypeOK, Tunnel
    <3>2. CASE t \notin PooledTunnels
      <4>1. tun'[t] = tun[t] BY <2>3, <3>2 DEF Shut
      <4>2. ASSUME tun[t].open PROVE t \in PooledTunnels
        BY <4>2, OpenIsPooled
      <4> QED BY <3>2, <4>1, <4>2
    <3> QED BY <3>1, <3>2
  <2> QED BY <2>2, <2>4
<1> QED BY <1>1, <1>2

\* The ticker finds every open tunnel that has expired and that nobody uses.
THEOREM StaleIsClosableHolds == Spec => []StaleIsClosable
<1>1. Init => ClosedSound BY DEF Init, ClosedSound
<1>2. Inv /\ ClosedSound => StaleIsClosable
  <2> SUFFICES ASSUME Inv, ClosedSound, NEW t \in Tunnels, tun[t].open, Expired(t), Users(t) = {}
               PROVE  Closable(t)
    BY DEF StaleIsClosable
  <2>1. mode # "closed" BY DEF ClosedSound
  <2>2. t \in PooledTunnels BY OpenIsPooled
  <2>3. tun[t].refs = 0 BY FS_EmptySet DEF Inv, RefsCountUsers
  <2> QED BY <2>1, <2>2, <2>3 DEF Closable
<1> QED BY <1>1, <1>2, ClosedStep, InvHolds, PTL DEF Spec
=============================================================================
