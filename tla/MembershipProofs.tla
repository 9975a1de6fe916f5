-------------------------- MODULE MembershipProofs --------------------------
(***************************************************************************)
(* Proofs about Membership, for any number of people and workers.          *)
(***************************************************************************)
EXTENDS Membership, TLAPS

\* What a request under way has filled in
Filled(r) ==
  /\ r.pc # "idle" => r.user \in Users /\ role[r.user] # None
  /\ r.pc \in {"login", "role", "sync"} => r.role \in Roles
  /\ r.pc \in {"role", "deactivate"} => r.by # r.user

\* A copy of a role that is going to be written into a session is still right
CopyRight(r) ==
  r.pc \in {"login", "sync"} =>
    \/ r.user \in raced
    \/ role[r.user] = r.role /\ (r.pc = "login" => r.user \notin deactivated)

Syncing(u) == \E w \in Workers : req[w].pc = "sync" /\ req[w].user = u
Revoking(u) == \E w \in Workers : req[w].pc = "revoke" /\ req[w].user = u

\* A session is right, or a request that will see to what is wrong is under way: only
\* the second signal puts the session of a deactivated user right.
Mirrors(s) ==
  \/ s.user \in raced
  \/ Revoking(s.user)
  \/ s.user \notin deactivated /\ (s.role = role[s.user] \/ Syncing(s.user))

Inv ==
  /\ TypeOK
  /\ \A w \in Workers : Filled(req[w]) /\ CopyRight(req[w])
  /\ \A s \in sessions : role[s.user] # None /\ Mirrors(s)
  /\ \A u \in deactivated : role[u] # None

LEMMA IdleType == Idle \in Request /\ Idle.pc = "idle"
BY DEF Idle, Request

LEMMA RoleTypes == None \notin Roles /\ "admin" \in Roles /\ "member" \in Roles
BY DEF None, Roles

LEMMA InitInv == Init => Inv
<1> SUFFICES ASSUME Init PROVE Inv OBVIOUS
<1>1. TypeOK BY IdleType, FoundersAssumption DEF Init, TypeOK, Roles
<1>2. \A w \in Workers : Filled(req[w]) /\ CopyRight(req[w])
  BY IdleType DEF Init, Filled, CopyRight
<1> QED BY <1>1, <1>2 DEF Init, Inv

LEMMA InvMirrors == Inv => SessionsMirrorUsers
<1> SUFFICES ASSUME Inv, NEW s \in sessions
             PROVE  s.user \in raced \/ Pending(s.user) \/ (s.role = role[s.user] /\ Active(s.user))
  BY DEF SessionsMirrorUsers
<1> QED BY DEF Inv, Mirrors, Revoking, Syncing, Pending, Active
-----------------------------------------------------------------------------
\* A request begins, or ends without having had a signal to send
LEMMA Turn ==
  ASSUME Inv, NEW w \in Workers, NEW r \in Request, Filled(r), CopyRight(r),
         req' = [req EXCEPT ![w] = r], r.pc \notin {"sync", "revoke"},
         req[w].pc \notin {"sync", "revoke"},
         UNCHANGED <<role, deactivated, raced>>,
         sessions' \in SUBSET Session,
         \A s \in sessions' :
           \/ s \in sessions
           \/ /\ role[s.user] # None
              /\ s.user \in raced \/ (s.user \notin deactivated /\ s.role = role[s.user])
  PROVE  Inv'
<1>1. TypeOK' BY DEF Inv, TypeOK
<1>2. \A v \in Workers : req'[v] = IF v = w THEN r ELSE req[v] BY DEF Inv, TypeOK
<1>3. \A v \in Workers : Filled(req[v])' /\ CopyRight(req[v])'
  BY <1>2 DEF Inv, Filled, CopyRight
<1>4. \A u : Syncing(u) => Syncing(u)' BY <1>2 DEF Syncing
<1>5. \A u : Revoking(u) => Revoking(u)' BY <1>2 DEF Revoking
<1>6. \A s \in sessions' : (role[s.user] # None)' /\ Mirrors(s)'
  BY <1>4, <1>5 DEF Inv, Mirrors
<1> QED BY <1>1, <1>3, <1>6 DEF Inv

LEMMA LoginReadKeeps == ASSUME Inv, NEW w \in Workers, NEW u \in Users, LoginRead(w, u) PROVE Inv'
<1> DEFINE r == [Idle EXCEPT !.pc = "login", !.user = u, !.role = role[u]]
<1>1. /\ Active(u) /\ req[w].pc = "idle" /\ req' = [req EXCEPT ![w] = r]
      /\ UNCHANGED <<role, deactivated, sessions, raced>>
  BY DEF LoginRead, Begin, userVars
<1>2. role[u] \in Roles BY <1>1 DEF Active, Inv, TypeOK
<1>3. r \in Request /\ r.pc = "login" /\ r.user = u /\ r.role = role[u]
  BY <1>2 DEF Idle, Request
<1> HIDE DEF r
<1>4. Filled(r) /\ CopyRight(r) BY <1>1, <1>2, <1>3, RoleTypes DEF Filled, CopyRight, Active
<1> QED BY <1>1, <1>3, <1>4, Turn DEF Inv, TypeOK

LEMMA RoleReadKeeps ==
  ASSUME Inv, NEW w \in Workers, NEW s \in sessions, NEW u \in Users, NEW x \in Roles,
         RoleRead(w, s, u, x)
  PROVE  Inv'
<1> DEFINE r == [Idle EXCEPT !.pc = "role", !.by = s.user, !.user = u, !.role = x]
<1>1. /\ Active(u) /\ s.user # u /\ req[w].pc = "idle" /\ req' = [req EXCEPT ![w] = r]
      /\ UNCHANGED <<role, deactivated, sessions, raced>>
  BY DEF RoleRead, Begin, userVars
<1>2. s.user \in Users BY DEF Inv, TypeOK, Session
<1>3. r \in Request /\ r.pc = "role" /\ r.user = u /\ r.by = s.user /\ r.role = x
  BY <1>2 DEF Idle, Request
<1> HIDE DEF r
<1>4. Filled(r) /\ CopyRight(r) BY <1>1, <1>3 DEF Filled, CopyRight, Active
<1> QED BY <1>1, <1>3, <1>4, Turn DEF Inv, TypeOK

LEMMA DeactivateReadKeeps ==
  ASSUME Inv, NEW w \in Workers, NEW s \in sessions, NEW u \in Users, DeactivateRead(w, s, u)
  PROVE  Inv'
<1> DEFINE r == [Idle EXCEPT !.pc = "deactivate", !.by = s.user, !.user = u]
<1>1. /\ Active(u) /\ s.user # u /\ req[w].pc = "idle" /\ req' = [req EXCEPT ![w] = r]
      /\ UNCHANGED <<role, deactivated, sessions, raced>>
  BY DEF DeactivateRead, Begin, userVars
<1>2. s.user \in Users BY DEF Inv, TypeOK, Session
<1>3. r \in Request /\ r.pc = "deactivate" /\ r.user = u /\ r.by = s.user
  BY <1>2 DEF Idle, Request
<1> HIDE DEF r
<1>4. Filled(r) /\ CopyRight(r) BY <1>1, <1>3 DEF Filled, CopyRight, Active
<1> QED BY <1>1, <1>3, <1>4, Turn DEF Inv, TypeOK

LEMMA LoginCreateKeeps == ASSUME Inv, NEW w \in Workers, LoginCreate(w) PROVE Inv'
<1> DEFINE n == [user |-> req[w].user, role |-> req[w].role]
<1>1. /\ req[w].pc = "login" /\ req' = [req EXCEPT ![w] = Idle]
      /\ sessions' = sessions \cup {n}
      /\ UNCHANGED <<role, deactivated, raced>>
  BY DEF LoginCreate, Finish, userVars
<1>2. Filled(req[w]) /\ CopyRight(req[w]) BY DEF Inv
<1>3. n \in Session BY <1>1, <1>2 DEF Filled, Session
<1>4. role[n.user] # None /\ (n.user \in raced \/ (n.user \notin deactivated /\ n.role = role[n.user]))
  BY <1>1, <1>2 DEF Filled, CopyRight
<1>5. sessions' \in SUBSET Session BY <1>1, <1>3 DEF Inv, TypeOK
<1> HIDE DEF n
<1>6. Filled(Idle) /\ CopyRight(Idle) BY IdleType DEF Filled, CopyRight
<1> QED BY <1>1, <1>4, <1>5, <1>6, IdleType, Turn
-----------------------------------------------------------------------------
LEMMA RoleSaveKeeps ==
  ASSUME Inv, NEW w \in Workers, RoleSave(w), NEW u, u = req[w].user, NEW x, x = req[w].role
  PROVE  Inv'
<1> DEFINE r == [req[w] EXCEPT !.pc = "sync", !.by = None]
<1>1. /\ req[w].pc = "role" /\ role' = [role EXCEPT ![u] = x]
      /\ req' = [req EXCEPT ![w].pc = "sync", ![w].by = None]
      /\ raced' = IF HoldsRole(w, u) THEN raced \cup {u} ELSE raced
      /\ UNCHANGED <<deactivated, sessions>>
  BY DEF RoleSave
<1>2. u \in Users /\ x \in Roles /\ req[w] \in Request BY <1>1 DEF Inv, Filled, TypeOK
<1>3. r \in Request /\ r.pc = "sync" /\ r.user = u /\ r.role = x BY <1>2 DEF Request
<1>4. \A v \in Workers : req'[v] = IF v = w THEN r ELSE req[v]
  BY <1>1 DEF Inv, TypeOK
<1> HIDE DEF r
<1>5. TypeOK'
  <2>1. req' \in [Workers -> Request]
    <3>1. \A v \in Workers : req'[v] \in Request BY <1>3, <1>4 DEF Inv, TypeOK
    <3>2. req' = [v \in Workers |-> req'[v]] BY <1>1 DEF Inv, TypeOK
    <3> QED BY <3>1, <3>2
  <2>2. role' \in [Users -> Roles \cup {None}] /\ raced' \subseteq Users
    BY <1>1, <1>2 DEF Inv, TypeOK
  <2> QED BY <1>1, <2>1, <2>2 DEF Inv, TypeOK
<1>6. \A v \in Users : role'[v] = IF v = u THEN x ELSE role[v]
  BY <1>1 DEF Inv, TypeOK
<1>7. \A v \in Workers : Filled(req[v])' /\ CopyRight(req[v])'
  <2> SUFFICES ASSUME NEW v \in Workers PROVE Filled(req[v])' /\ CopyRight(req[v])' OBVIOUS
  <2>1. CASE v = w
    BY <1>2, <1>3, <1>4, <1>6, <2>1, RoleTypes DEF Filled, CopyRight
  <2>2. CASE v # w
    <3>1. req'[v] = req[v] /\ Filled(req[v]) /\ CopyRight(req[v]) BY <1>4, <2>2 DEF Inv
    <3>2. CASE req[v].user = u /\ req[v].pc \in {"login", "sync"}
      <4>1. HoldsRole(w, u) BY <2>2, <3>2 DEF HoldsRole
      <4> QED BY <1>1, <1>2, <1>6, <3>1, <3>2, <4>1, RoleTypes DEF Filled, CopyRight
    <3>3. CASE req[v].user # u \/ req[v].pc \notin {"login", "sync"}
      <4>1. role'[req[v].user] # None \/ req[v].pc = "idle"
        BY <1>2, <1>6, <3>1, RoleTypes DEF Filled
      <4>2. Filled(req[v])' BY <1>2, <1>6, <3>1, <4>1 DEF Filled
      <4>3. CopyRight(req[v])'
        BY <1>1, <1>6, <3>1, <3>3 DEF Filled, CopyRight
      <4> QED BY <4>2, <4>3
    <3> QED BY <3>2, <3>3
  <2> QED BY <2>1, <2>2
<1>8. \A s \in sessions' : (role[s.user] # None)' /\ Mirrors(s)'
  <2> SUFFICES ASSUME NEW s \in sessions PROVE role'[s.user] # None /\ Mirrors(s)' BY <1>1
  <2>1. s.user \in Users /\ role[s.user] # None /\ Mirrors(s) BY DEF Inv, TypeOK, Session
  <2>2. role'[s.user] # None BY <1>2, <1>6, <2>1, RoleTypes
  <2>3. Revoking(s.user) => Revoking(s.user)' BY <1>1, <1>4 DEF Revoking
  <2>4. Syncing(s.user) => Syncing(s.user)' BY <1>1, <1>4 DEF Syncing
  <2>5. Syncing(u)' BY <1>3, <1>4 DEF Syncing
  <2> QED BY <1>1, <1>6, <2>1, <2>2, <2>3, <2>4, <2>5 DEF Mirrors
<1>9. \A d \in deactivated' : role'[d] # None BY <1>1, <1>2, <1>6, RoleTypes DEF Inv, TypeOK
<1> QED BY <1>5, <1>7, <1>8, <1>9 DEF Inv

LEMMA RoleSyncKeeps ==
  ASSUME Inv, NEW w \in Workers, RoleSync(w), NEW u, u = req[w].user, NEW x, x = req[w].role
  PROVE  Inv'
<1>1. /\ req[w].pc = "sync" /\ req' = [req EXCEPT ![w] = Idle]
      /\ sessions' = {IF s.user = u THEN Synced(u, x) ELSE s : s \in sessions}
      /\ raced' = IF Active(u) /\ role[u] = x /\ ~HoldsRole(w, u) THEN raced \ {u} ELSE raced
      /\ UNCHANGED <<role, deactivated>>
  BY DEF RoleSync, Finish, userVars
<1>2. u \in Users /\ x \in Roles /\ CopyRight(req[w]) BY <1>1 DEF Inv, Filled
<1>3. \A v \in Workers : req'[v] = IF v = w THEN Idle ELSE req[v] BY <1>1 DEF Inv, TypeOK
<1>4. Synced(u, x) \in Session /\ Synced(u, x).user = u /\ Synced(u, x).role = x
  BY <1>2 DEF Synced, Session
<1>5. u \in raced \/ role[u] = x BY <1>1, <1>2 DEF CopyRight
<1>6. TypeOK' BY <1>1, <1>4, IdleType DEF Inv, TypeOK
<1>7. \A v \in Workers : Filled(req[v])' /\ CopyRight(req[v])'
  <2> SUFFICES ASSUME NEW v \in Workers PROVE Filled(req[v])' /\ CopyRight(req[v])' OBVIOUS
  <2>1. CASE v = w BY <1>3, <2>1, IdleType DEF Filled, CopyRight
  <2>2. CASE v # w
    <3>1. req'[v] = req[v] /\ Filled(req[v]) /\ CopyRight(req[v]) BY <1>3, <2>2 DEF Inv
    <3>2. HoldsRole(w, u) \/ req[v].pc \notin {"login", "sync"} \/ req[v].user # u
      BY <2>2 DEF HoldsRole
    <3> QED BY <1>1, <3>1, <3>2 DEF Filled, CopyRight
  <2> QED BY <2>1, <2>2
<1>8. \A s \in sessions' : (role[s.user] # None)' /\ Mirrors(s)'
  <2> SUFFICES ASSUME NEW t \in sessions' PROVE role'[t.user] # None /\ Mirrors(t)' BY <1>1
  <2>1. PICK s \in sessions : t = IF s.user = u THEN Synced(u, x) ELSE s BY <1>1
  <2>2. role[s.user] # None /\ Mirrors(s) BY DEF Inv
  <2>3. Revoking(s.user) => Revoking(s.user)' BY <1>1, <1>3 DEF Revoking
  <2>4. CASE s.user # u
    <3>1. Syncing(s.user) => Syncing(s.user)' BY <1>1, <1>3, <2>4 DEF Syncing
    <3> QED BY <1>1, <2>1, <2>2, <2>3, <2>4, <3>1 DEF Mirrors
  <2>5. CASE s.user = u
    <3>1. t.user = u /\ t.role = x BY <1>4, <2>1, <2>5
    <3>2. CASE u \in raced' BY <1>1, <2>2, <2>5, <3>1, <3>2 DEF Mirrors
    <3>3. CASE u \notin raced'
      <4>1. role[u] = x BY <1>1, <1>5, <3>3
      <4>2. Revoking(u) \/ u \notin deactivated
        BY <1>1, <2>2, <2>5, <3>3 DEF Mirrors, Active
      <4> QED BY <1>1, <2>2, <2>3, <2>5, <3>1, <4>1, <4>2 DEF Mirrors
    <3> QED BY <3>2, <3>3
  <2> QED BY <2>4, <2>5
<1>9. \A d \in deactivated' : role'[d] # None BY <1>1 DEF Inv, TypeOK
<1> QED BY <1>6, <1>7, <1>8, <1>9 DEF Inv
-----------------------------------------------------------------------------
LEMMA DeactivateSaveKeeps ==
  ASSUME Inv, NEW w \in Workers, DeactivateSave(w), NEW u, u = req[w].user
  PROVE  Inv'
<1> DEFINE r == [req[w] EXCEPT !.pc = "revoke", !.by = None]
<1>1. /\ req[w].pc = "deactivate" /\ deactivated' = deactivated \cup {u}
      /\ req' = [req EXCEPT ![w].pc = "revoke", ![w].by = None]
      /\ raced' = IF LogsIn(w, u) THEN raced \cup {u} ELSE raced
      /\ UNCHANGED <<role, sessions>>
  BY DEF DeactivateSave
<1>2. u \in Users /\ role[u] # None /\ req[w] \in Request BY <1>1 DEF Inv, Filled, TypeOK
<1>3. r \in Request /\ r.pc = "revoke" /\ r.user = u BY <1>2 DEF Request
<1>4. \A v \in Workers : req'[v] = IF v = w THEN r ELSE req[v]
  BY <1>1 DEF Inv, TypeOK
<1> HIDE DEF r
<1>5. TypeOK'
  <2>1. req' \in [Workers -> Request]
    <3>1. \A v \in Workers : req'[v] \in Request BY <1>3, <1>4 DEF Inv, TypeOK
    <3>2. req' = [v \in Workers |-> req'[v]] BY <1>1 DEF Inv, TypeOK
    <3> QED BY <3>1, <3>2
  <2> QED BY <1>1, <1>2, <2>1 DEF Inv, TypeOK
<1>6. \A v \in Workers : Filled(req[v])' /\ CopyRight(req[v])'
  <2> SUFFICES ASSUME NEW v \in Workers PROVE Filled(req[v])' /\ CopyRight(req[v])' OBVIOUS
  <2>1. CASE v = w BY <1>1, <1>2, <1>3, <1>4, <2>1 DEF Filled, CopyRight
  <2>2. CASE v # w
    <3>1. req'[v] = req[v] /\ Filled(req[v]) /\ CopyRight(req[v]) BY <1>4, <2>2 DEF Inv
    <3>2. LogsIn(w, u) \/ req[v].pc # "login" \/ req[v].user # u BY <2>2 DEF LogsIn
    <3> QED BY <1>1, <3>1, <3>2 DEF Filled, CopyRight
  <2> QED BY <2>1, <2>2
<1>7. \A s \in sessions' : (role[s.user] # None)' /\ Mirrors(s)'
  <2> SUFFICES ASSUME NEW s \in sessions PROVE role'[s.user] # None /\ Mirrors(s)' BY <1>1
  <2>1. role[s.user] # None /\ Mirrors(s) BY DEF Inv
  <2>2. Revoking(s.user) => Revoking(s.user)' BY <1>1, <1>4 DEF Revoking
  <2>3. Syncing(s.user) => Syncing(s.user)' BY <1>1, <1>4 DEF Syncing
  <2>4. Revoking(u)' BY <1>3, <1>4 DEF Revoking
  <2> QED BY <1>1, <2>1, <2>2, <2>3, <2>4 DEF Mirrors
<1>9. \A d \in deactivated' : role'[d] # None BY <1>1, <1>2 DEF Inv, TypeOK
<1> QED BY <1>5, <1>6, <1>7, <1>9 DEF Inv

LEMMA DeactivateRevokeKeeps == ASSUME Inv, NEW w \in Workers, DeactivateRevoke(w) PROVE Inv'
<1>1. /\ req[w].pc = "revoke" /\ req' = [req EXCEPT ![w] = Idle]
      /\ sessions' = {s \in sessions : s.user # req[w].user}
      /\ UNCHANGED <<role, deactivated, raced>>
  BY DEF DeactivateRevoke, Finish, userVars
<1>2. \A v \in Workers : req'[v] = IF v = w THEN Idle ELSE req[v] BY <1>1 DEF Inv, TypeOK
<1>3. TypeOK' BY <1>1, IdleType DEF Inv, TypeOK
<1>4. \A v \in Workers : Filled(req[v])' /\ CopyRight(req[v])'
  BY <1>1, <1>2, IdleType DEF Inv, Filled, CopyRight
<1>5. \A s \in sessions' : (role[s.user] # None)' /\ Mirrors(s)'
  <2> SUFFICES ASSUME NEW s \in sessions, s.user # req[w].user
               PROVE  role'[s.user] # None /\ Mirrors(s)'
    BY <1>1
  <2>1. role[s.user] # None /\ Mirrors(s) BY DEF Inv
  <2>2. Revoking(s.user) => Revoking(s.user)' BY <1>1, <1>2 DEF Revoking
  <2>3. Syncing(s.user) => Syncing(s.user)' BY <1>1, <1>2 DEF Syncing
  <2> QED BY <1>1, <2>1, <2>2, <2>3 DEF Mirrors
<1>9. \A d \in deactivated' : role'[d] # None BY <1>1 DEF Inv, TypeOK
<1> QED BY <1>3, <1>4, <1>5, <1>9 DEF Inv

LEMMA JoinKeeps == ASSUME Inv, NEW u \in Users, Join(u) PROVE Inv'
<1> DEFINE n == [user |-> u, role |-> "member"]
<1>1. /\ role[u] = None /\ role' = [role EXCEPT ![u] = "member"]
      /\ sessions' = sessions \cup {n}
      /\ UNCHANGED <<deactivated, req, raced>>
  BY DEF Join
<1>2. n \in Session /\ n.user = u /\ n.role = "member" BY RoleTypes DEF Session
<1> HIDE DEF n
<1>3. TypeOK' BY <1>1, <1>2, RoleTypes DEF Inv, TypeOK
<1>4. \A v \in Users : role'[v] = IF v = u THEN "member" ELSE role[v] BY <1>1 DEF Inv, TypeOK
<1>5. \A v \in Workers : Filled(req[v])' /\ CopyRight(req[v])'
  <2> SUFFICES ASSUME NEW v \in Workers PROVE Filled(req[v])' /\ CopyRight(req[v])' OBVIOUS
  <2>1. Filled(req[v]) /\ CopyRight(req[v]) BY DEF Inv
  <2> QED BY <1>1, <1>4, <2>1, RoleTypes DEF Filled, CopyRight
<1>6. \A s \in sessions' : (role[s.user] # None)' /\ Mirrors(s)'
  <2> SUFFICES ASSUME NEW s \in sessions' PROVE role'[s.user] # None /\ Mirrors(s)' OBVIOUS
  <2>1. CASE s \in sessions
    <3>1. s.user \in Users /\ role[s.user] # None /\ Mirrors(s) BY <2>1 DEF Inv, TypeOK, Session
    <3>2. role'[s.user] = role[s.user] BY <1>1, <1>4, <3>1
    <3> QED BY <1>1, <3>1, <3>2 DEF Mirrors, Revoking, Syncing
  <2>2. CASE s = n
    <3>1. u \notin deactivated BY <1>1 DEF Inv
    <3> QED BY <1>1, <1>2, <1>4, <2>2, <3>1, RoleTypes DEF Mirrors
  <2> QED BY <1>1, <2>1, <2>2
<1>9. \A d \in deactivated' : role'[d] # None BY <1>1, <1>4, RoleTypes DEF Inv, TypeOK
<1> QED BY <1>3, <1>5, <1>6, <1>9 DEF Inv

LEMMA CrashKeeps == ASSUME Inv, NEW w \in Workers, Crash(w) PROVE Inv'
<1>1. /\ req' = [req EXCEPT ![w] = Idle]
      /\ raced' = IF req[w].pc \in {"sync", "revoke"} THEN raced \cup {req[w].user} ELSE raced
      /\ UNCHANGED <<role, deactivated, sessions>>
  BY DEF Crash, Finish, userVars
<1>2. \A v \in Workers : req'[v] = IF v = w THEN Idle ELSE req[v] BY <1>1 DEF Inv, TypeOK
<1>3. req[w].pc \in {"sync", "revoke"} => req[w].user \in Users BY DEF Inv, Filled
<1>4. TypeOK' BY <1>1, <1>3, IdleType DEF Inv, TypeOK
<1>5. raced \subseteq raced' BY <1>1
<1>6. \A v \in Workers : Filled(req[v])' /\ CopyRight(req[v])'
  BY <1>1, <1>2, <1>5, IdleType DEF Inv, Filled, CopyRight
<1>7. \A s \in sessions' : (role[s.user] # None)' /\ Mirrors(s)'
  <2> SUFFICES ASSUME NEW s \in sessions PROVE role'[s.user] # None /\ Mirrors(s)' BY <1>1
  <2>1. role[s.user] # None /\ Mirrors(s) BY DEF Inv
  <2>2. Revoking(s.user) => Revoking(s.user)' \/ s.user \in raced'
    BY <1>1, <1>2 DEF Revoking
  <2>3. Syncing(s.user) => Syncing(s.user)' \/ s.user \in raced'
    BY <1>1, <1>2 DEF Syncing
  <2> QED BY <1>1, <1>5, <2>1, <2>2, <2>3 DEF Mirrors
<1>9. \A d \in deactivated' : role'[d] # None BY <1>1 DEF Inv, TypeOK
<1> QED BY <1>4, <1>6, <1>7, <1>9 DEF Inv

\* A step that at most ends sessions
LEMMA QuietKeeps ==
  ASSUME Inv, sessions' \subseteq sessions, UNCHANGED <<role, deactivated, req, raced>>
  PROVE  Inv'
<1>1. TypeOK' BY DEF Inv, TypeOK
<1>2. \A w \in Workers : Filled(req[w])' /\ CopyRight(req[w])'
  BY DEF Inv, Filled, CopyRight
<1>3. \A s \in sessions' : (role[s.user] # None)' /\ Mirrors(s)'
  BY DEF Inv, Mirrors, Revoking, Syncing
<1> QED BY <1>1, <1>2, <1>3 DEF Inv

LEMMA NextInv == Inv /\ [Next]_vars => Inv'
<1> SUFFICES ASSUME Inv, [Next]_vars PROVE Inv' OBVIOUS
<1>1. ASSUME NEW w \in Workers, SessionSteps(w) PROVE Inv'
  BY <1>1, LoginReadKeeps, LoginCreateKeeps DEF SessionSteps
<1>2. ASSUME NEW w \in Workers, RoleSteps(w) PROVE Inv'
  BY <1>2, RoleReadKeeps, RoleSaveKeeps, RoleSyncKeeps, DeactivateReadKeeps,
     DeactivateSaveKeeps, DeactivateRevokeKeeps DEF RoleSteps
<1>3. ASSUME NEW w \in Workers, Crash(w) PROVE Inv' BY <1>3, CrashKeeps
<1>4. ASSUME NEW s \in sessions, EndSession(s) PROVE Inv'
  BY <1>4, QuietKeeps DEF EndSession, userVars
<1>5. ASSUME NEW u \in Users, Join(u) PROVE Inv' BY <1>5, JoinKeeps
<1>6. CASE UNCHANGED vars BY <1>6, QuietKeeps DEF vars
<1> QED BY <1>1, <1>2, <1>3, <1>4, <1>5, <1>6 DEF Next

LEMMA InvHolds == Spec => []Inv
BY InitInv, NextInv, PTL DEF Spec

\* Every reachable state is type-correct.
THEOREM TypeCorrect == Spec => []TypeOK
BY InvHolds, PTL DEF Inv

\* Sessions show the role of their users and none is of a deactivated user, once the
\* signal has run, but for a login, a second change or a crash at the wrong moment.
THEOREM SessionsMirrorUsersHolds == Spec => []SessionsMirrorUsers
BY InvHolds, InvMirrors, PTL
-----------------------------------------------------------------------------
\* While the admin who asked for it is still one, a change of another leaves an admin.
LEMMA AskerStays ==
  ASSUME Inv, NEW w \in Workers, RoleSave(w) \/ DeactivateSave(w), req[w].by \in ActiveAdmins
  PROVE  ActiveAdmins' # {}
<1> DEFINE a == req[w].by  u == req[w].user
<1>1. a # u /\ a \in Users BY DEF Inv, Filled, RoleSave, DeactivateSave, ActiveAdmins
<1>2. role'[a] = role[a] BY <1>1 DEF Inv, TypeOK, RoleSave, DeactivateSave
<1>3. a \notin deactivated' BY <1>1 DEF RoleSave, DeactivateSave, ActiveAdmins, Active
<1>4. a \in ActiveAdmins' BY <1>1, <1>2, <1>3 DEF ActiveAdmins, Active
<1> QED BY <1>4

\* The last admin goes only when the admin who asked for it is no longer one.
THEOREM LastAdminRemovedHolds == Spec => LastAdminRemoved
<1> DEFINE A == ActiveAdmins # {} /\ ActiveAdmins' = {} =>
                  \E w \in Workers :
                    /\ req[w].pc \in {"role", "deactivate"} /\ req'[w].pc # req[w].pc
                    /\ req[w].by \notin ActiveAdmins
<1>1. ASSUME Inv, [Next]_vars, ActiveAdmins # {}, ActiveAdmins' = {} PROVE A
  <2>1. ASSUME NEW w \in Workers, RoleSave(w) \/ DeactivateSave(w) PROVE A
    <3>1. req[w].pc \in {"role", "deactivate"} BY <2>1 DEF RoleSave, DeactivateSave
    <3>2. req'[w].pc \in {"sync", "revoke"}
      BY <2>1, <1>1 DEF RoleSave, DeactivateSave, Inv, TypeOK, Request
    <3>3. req[w].by \notin ActiveAdmins BY <1>1, <2>1, AskerStays
    <3> QED BY <3>1, <3>2, <3>3
  <2>2. ASSUME NEW u \in Users, Join(u) PROVE FALSE
    <3>1. \A v \in Users : role[v] # None => role'[v] = role[v]
      BY <1>1, <2>2 DEF Join, Inv, TypeOK
    <3> QED BY <1>1, <2>2, <3>1 DEF Join, ActiveAdmins, Active
  <2>3. CASE UNCHANGED <<role, deactivated>>
    BY <1>1, <2>3 DEF ActiveAdmins, Active
  <2> QED
    BY <1>1, <2>1, <2>2, <2>3
    DEF Next, SessionSteps, RoleSteps, LoginRead, LoginCreate, EndSession, RoleRead, RoleSync,
        DeactivateRead, DeactivateRevoke, Crash, userVars, vars
<1>2. Inv /\ [Next]_vars => [A]_vars BY <1>1
<1> QED BY <1>2, InvHolds, PTL DEF Spec, LastAdminRemoved
=============================================================================
