-------------------------- MODULE VaultKeysProofs --------------------------
(***************************************************************************)
(* Proofs about the keys of a vault, for every set of users, keys,         *)
(* credentials and workers, and about the pages and tabs of the web app,   *)
(* for any number of changes.                                              *)
(***************************************************************************)
EXTENDS MCWorkspace, SequenceTheorems, WellFoundedInduction, NaturalsInduction, TLAPS

\* The key found first is one of the keys searched.
LEMMA FirstIsMember ==
  ASSUME NEW S \in SUBSET Nat, S # {}
  PROVE  Min(S) \in S
<1>1. PICK x \in S : \A y \in S : <<y, x>> \notin OpToRel(<, Nat)
  BY NatLessThanWellFounded, WFMin
<1>2. \A y \in S : ~(y < x)
  <2>1. SUFFICES ASSUME NEW y \in S, y < x
                 PROVE  FALSE
    OBVIOUS
  <2>2. <<y, x>> \in Nat \X Nat
    OBVIOUS
  <2>3. <<y, x>>[1] < <<y, x>>[2]
    BY <2>1
  <2>4. <<y, x>> \in OpToRel(<, Nat)
    BY <2>2, <2>3, Zenon DEF OpToRel
  <2> QED BY <1>1, <2>4
<1>3. \A y \in S : x <= y
  BY <1>2
<1> QED BY <1>3 DEF Min

LEMMA FirstActiveKeyType ==
  ASSUME TypeOK, NEW u, UserActiveKeys(u) # {}
  PROVE  FirstActiveKey(u) \in ActiveKeys
BY FirstIsMember, KeysAssumption DEF TypeOK, FirstActiveKey, UserActiveKeys, ActiveKeys
-----------------------------------------------------------------------------
(***************************************************************************)
(* Type correctness                                                        *)
(***************************************************************************)
\* What each stage of a request has already filled in.  Without it TypeOK is not
\* inductive: a stage that uses its target relies on an earlier one having set it.
Provisioning == {"activate_save", "activate_list", "provision", "rewrap"}

Activating == {"activate_admin_key"} \cup Provisioning

StageOK(r) ==
  /\ r.pc \in {"create_count", "create", "confirm_update", "confirm_save"} \cup Activating => r.target \in Keys
  /\ r.pc \in Provisioning => r.adminKey \in Keys
  /\ r.pc \in {"rewrap", "set_credentials"} => r.cred \in Creds

TypeInv == TypeOK /\ \A w \in Workers : StageOK(req[w])

LEMMA IdleType == Idle \in Request /\ StageOK(Idle)
BY DEF Idle, Request, PC, None, NoKey, StageOK, Activating, Provisioning

\* Replacing one worker's request by a well-formed one keeps all of them so.
LEMMA RequestUpdate ==
  ASSUME TypeInv, NEW w \in Workers, NEW r \in Request, StageOK(r),
         req' = [req EXCEPT ![w] = r]
  PROVE  req' \in [Workers -> Request] /\ \A v \in Workers : StageOK(req'[v])
BY DEF TypeInv, TypeOK

LEMMA RequestAt == ASSUME TypeInv, NEW w \in Workers PROVE req[w] \in Request /\ StageOK(req[w])
BY DEF TypeInv, TypeOK

\* A request that moves on
LEMMA Moved ==
  ASSUME NEW x \in Request, NEW p \in PC, NEW r, r = [x EXCEPT !.pc = p]
  PROVE  r \in Request /\ r.pc = p /\ r.target = x.target /\ r.adminKey = x.adminKey /\ r.cred = x.cred
BY DEF Request

\* A request to create a key that has counted the admins
LEMMA Counted ==
  ASSUME TypeInv, NEW w \in Workers, CreateCountAdmins(w)
  PROVE  /\ req' = [req EXCEPT ![w] = req'[w]] /\ req'[w] \in Request /\ StageOK(req'[w])
         /\ req'[w].pc = "create"
<1>1. PICK x \in Request : x = req[w] BY RequestAt
<1>2. PICK b \in BOOLEAN : b = IsSoloAdmin(x.solo) BY DEF IsSoloAdmin
<1> DEFINE r == [x EXCEPT !.pc = "create", !.solo = b]
<1>3. r \in Request /\ r.pc = "create" /\ r.target = x.target BY DEF Request, PC
<1>4. x.target \in Keys BY <1>1 DEF CreateCountAdmins, TypeInv, StageOK
<1>5. StageOK(r) BY <1>3, <1>4 DEF StageOK, Activating, Provisioning
<1>6. req' = [req EXCEPT ![w] = r] BY <1>1, <1>2 DEF CreateCountAdmins
<1> HIDE DEF r
<1>7. req'[w] = r BY <1>6 DEF TypeInv, TypeOK
<1> QED BY <1>3, <1>5, <1>6, <1>7

LEMMA InitType == Init => TypeInv
BY IdleType, LegacyAssumption, AdminsAssumption DEF Init, TypeOK, TypeInv

LEMMA CreateType ==
  ASSUME TypeInv, NEW w \in Workers, Create(w)
  PROVE  TypeInv'
<1>1. CASE \E k \in Keys : CreateAuthenticate(w, k)
  <2>1. PICK k \in Keys : CreateAuthenticate(w, k)
    BY <1>1
  <2>0. PICK b \in BOOLEAN : b = (Owner[k] \in admins)
    <3>1. CASE Owner[k] \in admins BY <3>1, TRUE = (Owner[k] \in admins), Zenon
    <3>2. CASE Owner[k] \notin admins BY <3>2, FALSE = (Owner[k] \in admins), Zenon
    <3> QED BY <3>1, <3>2
  <2> DEFINE r == [Idle EXCEPT !.pc = "create_count", !.target = k, !.solo = b]
  <2>2. r \in Request /\ StageOK(r)
    <3>1. PICK i \in Request : i = Idle BY IdleType
    <3>2. r \in Request /\ r.pc = "create_count" /\ r.target = k BY <3>1 DEF Request, PC
    <3> QED BY <3>2 DEF StageOK, Activating, Provisioning
  <2>3. req' = [req EXCEPT ![w] = r]
    BY <2>1, <2>0 DEF CreateAuthenticate, Begin
  <2> HIDE DEF r
  <2>4. req' \in [Workers -> Request] /\ \A v \in Workers : StageOK(req'[v])
    BY <2>2, <2>3, RequestUpdate
  <2> QED BY <2>1, <2>4
          DEF CreateAuthenticate, TypeInv, TypeOK, keyVars, credVars, history
<1>2. CASE CreateInsert(w)
  <2>1. req[w].target \in Keys
    BY <1>2 DEF CreateInsert, TypeInv, StageOK
  <2>2. req' \in [Workers -> Request] /\ \A v \in Workers : StageOK(req'[v])
    BY <1>2, IdleType, RequestUpdate DEF CreateInsert, Return
  <2> QED BY <1>2, <2>1, <2>2 DEF CreateInsert, TypeInv, TypeOK, credVars
<1>3. CASE CreateCountAdmins(w)
  <2>1. PICK r \in Request : r = req'[w] BY <1>3, Counted
  <2>2. req' \in [Workers -> Request] /\ \A v \in Workers : StageOK(req'[v])
    BY <1>3, <2>1, Counted, RequestUpdate
  <2> QED BY <1>3, <2>2 DEF CreateCountAdmins, TypeInv, TypeOK, keyVars, credVars, history
<1> QED BY <1>1, <1>2, <1>3 DEF Create

LEMMA ConfirmType ==
  ASSUME TypeInv, NEW w \in Workers, Confirm(w)
  PROVE  TypeInv'
<1>1. CASE \E k \in Keys : ConfirmRead(w, k)
  <2>1. PICK k \in Keys : ConfirmRead(w, k)
    BY <1>1
  <2> DEFINE r == [Idle EXCEPT !.pc = "confirm_update", !.target = k]
  <2>2. r \in Request /\ StageOK(r)
    BY DEF Idle, Request, PC, None, NoKey, StageOK, Activating, Provisioning
  <2>3. req' = [req EXCEPT ![w] = r]
    BY <2>1 DEF ConfirmRead, Begin
  <2> HIDE DEF r
  <2>4. req' \in [Workers -> Request] /\ \A v \in Workers : StageOK(req'[v])
    BY <2>2, <2>3, RequestUpdate
  <2> QED BY <2>1, <2>4 DEF ConfirmRead, TypeInv, TypeOK, keyVars, credVars, history
<1>2. CASE ConfirmRevokeOthers(w)
  <2> DEFINE r == [req[w] EXCEPT !.pc = "confirm_save"]
  <2>2. r \in Request /\ StageOK(r)
    <3>1. req[w] \in Request /\ StageOK(req[w]) BY RequestAt
    <3>2. req[w].pc = "confirm_update" BY <1>2 DEF ConfirmRevokeOthers, Goto
    <3>3. "confirm_save" \in PC BY DEF PC
    <3>4. r \in Request /\ r.pc = "confirm_save" /\ r.target = req[w].target BY <3>1, <3>3, Moved
    <3>5. req[w].target \in Keys BY <3>1, <3>2 DEF StageOK
    <3> HIDE DEF r
    <3> QED BY <3>4, <3>5 DEF StageOK, Activating, Provisioning
  <2>3. req' = [req EXCEPT ![w] = r]
    BY <1>2 DEF ConfirmRevokeOthers, Goto, TypeInv, TypeOK
  <2> HIDE DEF r
  <2>1. req' \in [Workers -> Request] /\ \A v \in Workers : StageOK(req'[v])
    BY <2>2, <2>3, RequestUpdate
  <2> QED BY <1>2, <2>1 DEF ConfirmRevokeOthers, TypeInv, TypeOK, credVars, history
<1>3. CASE ConfirmSave(w)
  <2>1. req[w].target \in Keys
    BY <1>3 DEF ConfirmSave, TypeInv, StageOK
  <2>2. req' \in [Workers -> Request] /\ \A v \in Workers : StageOK(req'[v])
    BY <1>3, IdleType, RequestUpdate DEF ConfirmSave, Return
  <2> QED BY <1>3, <2>1, <2>2 DEF ConfirmSave, TypeInv, TypeOK, credVars, history
<1> QED BY <1>1, <1>2, <1>3 DEF Confirm

LEMMA ActivateType ==
  ASSUME TypeInv, NEW w \in Workers, Activate(w)
  PROVE  TypeInv'
<1> DEFINE ReqOK == req' \in [Workers -> Request] /\ \A v \in Workers : StageOK(req'[v])
<1>1. CASE \E a \in Users, k \in Keys, p \in Keys \cup {NoKey} : ActivateRead(w, a, k, p)
  <2>1. PICK a \in Users, k \in Keys, p \in Keys \cup {NoKey} : ActivateRead(w, a, k, p)
    BY <1>1
  <2> DEFINE r == [Idle EXCEPT !.pc = "activate_admin_key", !.target = k, !.actor = a, !.pass = p]
  <2>2. r \in Request /\ StageOK(r)
    BY DEF Idle, Request, PC, None, NoKey, StageOK, Activating, Provisioning
  <2>3. req' = [req EXCEPT ![w] = r]
    BY <2>1 DEF ActivateRead, Begin
  <2> HIDE DEF r
  <2>4. ReqOK
    BY <2>2, <2>3, RequestUpdate
  <2> QED BY <2>1, <2>4 DEF ActivateRead, TypeInv, TypeOK, keyVars, credVars, history
<1>2. CASE ActivateFindAdminKey(w)
  <2>1. UserActiveKeys(req[w].actor) # {} => FirstActiveKey(req[w].actor) \in Keys
    BY FirstActiveKeyType DEF TypeInv, TypeOK, ActiveKeys
  <2>2. CASE UserActiveKeys(req[w].actor) = {}
    BY <1>2, <2>2, IdleType, RequestUpdate
       DEF ActivateFindAdminKey, Return, TypeInv, TypeOK, keyVars, credVars, history
  <2>3. CASE UserActiveKeys(req[w].actor) # {}
    <3> DEFINE f == FirstActiveKey(req[w].actor)
    <3>1. req' = [req EXCEPT ![w].pc = "activate_save", ![w].adminKey = f]
      BY <1>2, <2>3 DEF ActivateFindAdminKey
    <3>2. f \in Keys /\ req[w].target \in Keys
      BY <1>2, <2>1, <2>3 DEF ActivateFindAdminKey, TypeInv, StageOK, Activating, Provisioning
    <3> HIDE DEF f
    <3> DEFINE r == [req[w] EXCEPT !.pc = "activate_save", !.adminKey = f]
    <3>4. r \in Request /\ StageOK(r)
      <4>1. req[w] \in Request BY RequestAt
      <4>2. PICK x \in Request : x = req[w] BY <4>1
      <4>3. r = [x EXCEPT !.pc = "activate_save", !.adminKey = f] BY <4>2
      <4> HIDE DEF r
      <4>4. r \in Request /\ r.pc = "activate_save" /\ r.target = req[w].target /\ r.adminKey = f
        <5>1. "activate_save" \in PC BY DEF PC
        <5>2. [x EXCEPT !.pc = "activate_save", !.adminKey = f] \in Request BY <3>2, <5>1 DEF Request
        <5>3. r.pc = "activate_save" /\ r.target = x.target /\ r.adminKey = f BY <4>3 DEF Request
        <5> QED BY <4>2, <4>3, <5>2, <5>3
      <4> QED BY <3>2, <4>4 DEF StageOK, Activating, Provisioning
    <3>5. req' = [req EXCEPT ![w] = r]
      BY <3>1 DEF TypeInv, TypeOK
    <3> HIDE DEF r
    <3>3. ReqOK
      BY <3>4, <3>5, RequestUpdate
    <3> QED BY <1>2, <3>3 DEF ActivateFindAdminKey, TypeInv, TypeOK, keyVars, credVars, history
  <2> QED BY <2>2, <2>3
<1>3. CASE ActivateSave(w)
  <2> DEFINE r == [req[w] EXCEPT !.pc = "activate_list"]
  <2>2. r \in Request /\ StageOK(r) /\ req[w].target \in Keys
    <3>1. req[w] \in Request /\ StageOK(req[w]) BY RequestAt
    <3>2. req[w].pc = "activate_save" BY <1>3 DEF ActivateSave, Goto
    <3>3. "activate_list" \in PC BY DEF PC
    <3>4. r \in Request /\ r.pc = "activate_list" /\ r.target = req[w].target /\ r.adminKey = req[w].adminKey
      BY <3>1, <3>3, Moved
    <3>5. req[w].target \in Keys /\ req[w].adminKey \in Keys
      BY <3>1, <3>2 DEF StageOK, Activating, Provisioning
    <3> HIDE DEF r
    <3> QED BY <3>4, <3>5 DEF StageOK, Activating, Provisioning
  <2>3. req' = [req EXCEPT ![w] = r]
    BY <1>3 DEF ActivateSave, Goto, TypeInv, TypeOK
  <2> HIDE DEF r
  <2>1. ReqOK /\ req[w].target \in Keys
    BY <2>2, <2>3, RequestUpdate
  <2> QED BY <1>3, <2>1 DEF ActivateSave, TypeInv, TypeOK, credVars
<1>4. CASE ActivateList(w)
  <2> DEFINE r == [req[w] EXCEPT !.pc = "provision", !.list = creds, !.todo = creds]
  <2>5. req[w] \in Request /\ creds \in SUBSET Creds
    BY DEF TypeInv, TypeOK
  <2>2. r \in Request
    BY <2>5 DEF Request, PC
  <2>3. StageOK(r)
    BY <1>4 DEF ActivateList, TypeInv, TypeOK, Request, StageOK, Activating, Provisioning
  <2>4. req' = [req EXCEPT ![w] = r]
    BY <1>4 DEF ActivateList, TypeInv, TypeOK
  <2> HIDE DEF r
  <2>1. ReqOK
    BY <2>2, <2>3, <2>4, RequestUpdate
  <2> QED BY <1>4, <2>1 DEF ActivateList, TypeInv, TypeOK, keyVars, credVars, history
<1>5. ASSUME NEW c \in Creds, ProvisionSkip(w, c)
      PROVE  TypeInv'
  <2> DEFINE r == [req[w] EXCEPT !.todo = @ \ {c}]
  <2>d. req[w] \in Request /\ req[w].todo \ {c} \subseteq Creds
    BY DEF TypeInv, TypeOK, Request
  <2>a. r \in Request
    BY <2>d DEF Request, PC, None
  <2>b. StageOK(r)
    BY <1>5 DEF ProvisionSkip, TypeInv, TypeOK, Request, StageOK, Activating, Provisioning
  <2>c. req' = [req EXCEPT ![w] = r]
    BY <1>5 DEF ProvisionSkip, TypeInv, TypeOK
  <2> HIDE DEF r
  <2>1. ReqOK
    BY <2>a, <2>b, <2>c, RequestUpdate
  <2> QED BY <1>5, <2>1 DEF ProvisionSkip, TypeInv, TypeOK, keyVars, credVars, history
<1>6. ASSUME NEW c \in Creds, ProvisionShare(w, c)
      PROVE  TypeInv'
  <2> DEFINE r == [req[w] EXCEPT !.todo = @ \ {c}]
  <2>d. req[w] \in Request /\ req[w].todo \ {c} \subseteq Creds
    BY DEF TypeInv, TypeOK, Request
  <2>a. r \in Request
    BY <2>d DEF Request, PC, None
  <2>b. StageOK(r)
    BY <1>6 DEF ProvisionShare, TypeInv, TypeOK, Request, StageOK, Activating, Provisioning
  <2>c. req' = [req EXCEPT ![w] = r]
    BY <1>6 DEF ProvisionShare, TypeInv, TypeOK
  <2> HIDE DEF r
  <2>1. ReqOK
    BY <2>a, <2>b, <2>c, RequestUpdate
  <2>2. req[w].adminKey \in Keys
    BY <1>6 DEF ProvisionShare, TypeInv, StageOK, Activating, Provisioning
  <2>3. wrap' \in [Creds -> [Keys -> Nat]]
    BY <1>6, <2>2 DEF ProvisionShare, TypeInv, TypeOK
  <2> QED BY <1>6, <2>1, <2>3 DEF ProvisionShare, TypeInv, TypeOK, keyVars, history
<1>7. ASSUME NEW c \in Creds, ProvisionReencrypt(w, c)
      PROVE  TypeInv'
  <2> DEFINE r == [req[w] EXCEPT !.pc = "rewrap", !.cred = c, !.fresh = sym[c] + 1, !.todo = @ \ {c}]
  <2>d. req[w] \in Request /\ req[w].todo \ {c} \subseteq Creds /\ sym[c] + 1 \in Nat
    BY DEF TypeInv, TypeOK, Request
  <2>a. r \in Request
    BY <2>d DEF Request, PC, None
  <2>b. StageOK(r)
    BY <1>7 DEF ProvisionReencrypt, TypeInv, TypeOK, Request, StageOK, Activating, Provisioning
  <2>c. req' = [req EXCEPT ![w] = r]
    BY <1>7 DEF ProvisionReencrypt, TypeInv, TypeOK
  <2> HIDE DEF r
  <2>1. ReqOK
    BY <2>a, <2>b, <2>c, RequestUpdate
  <2> QED BY <1>7, <2>1 DEF ProvisionReencrypt, TypeInv, TypeOK, keyVars, history
<1>8. CASE ProvisionRewrap(w)
  <2> DEFINE r == [req[w] EXCEPT !.pc = "provision", !.cred = None, !.fresh = 0]
  <2>d. req[w] \in Request
    BY DEF TypeInv, TypeOK, Request
  <2>a. r \in Request
    BY <2>d DEF Request, PC, None
  <2>b. StageOK(r)
    BY <1>8 DEF ProvisionRewrap, TypeInv, TypeOK, Request, StageOK, Activating, Provisioning
  <2>c. req' = [req EXCEPT ![w] = r]
    BY <1>8 DEF ProvisionRewrap, TypeInv, TypeOK
  <2> HIDE DEF r
  <2>1. ReqOK
    BY <2>a, <2>b, <2>c, RequestUpdate
  <2>2. wrap' \in [Creds -> [Keys -> Nat]]
    BY <1>8 DEF ProvisionRewrap, TypeInv, TypeOK, Request
  <2> QED BY <1>8, <2>1, <2>2 DEF ProvisionRewrap, TypeInv, TypeOK, keyVars, history
<1>9. ASSUME NEW c \in Creds, ProvisionReject(w, c)
      PROVE  TypeInv'
  <2>1. ReqOK
    BY <1>9, IdleType, RequestUpdate DEF ProvisionReject, Return
  <2> QED BY <1>9, <2>1 DEF ProvisionReject, TypeInv, TypeOK, keyVars, credVars, history
<1>10. CASE ActivateReturn(w)
  <2>1. ReqOK
    BY <1>10, IdleType, RequestUpdate DEF ActivateReturn, Return
  <2> QED BY <1>10, <2>1 DEF ActivateReturn, TypeInv, TypeOK, keyVars, credVars, history
<1> QED BY <1>1, <1>2, <1>3, <1>4, <1>5, <1>6, <1>7, <1>8, <1>9, <1>10 DEF Activate

LEMMA SetCredentialsType ==
  ASSUME TypeInv, NEW w \in Workers, SetCredentials(w)
  PROVE  TypeInv'
<1>1. CASE \E c \in Creds : SetCredentialsReadKeys(w, c)
  <2>1. PICK c \in Creds : SetCredentialsReadKeys(w, c)
    BY <1>1
  <2> DEFINE r == [Idle EXCEPT !.pc = "set_credentials", !.cred = c, !.keys = ActiveKeys]
  <2>2. ActiveKeys \subseteq Keys
    BY DEF ActiveKeys, TypeInv, TypeOK
  <2>3. r \in Request /\ StageOK(r)
    BY <2>2 DEF Idle, Request, PC, None, NoKey, StageOK, Activating, Provisioning
  <2>4. req' = [req EXCEPT ![w] = r]
    BY <2>1 DEF SetCredentialsReadKeys, Begin
  <2> HIDE DEF r
  <2>5. req' \in [Workers -> Request] /\ \A v \in Workers : StageOK(req'[v])
    BY <2>3, <2>4, RequestUpdate
  <2> QED BY <2>1, <2>5 DEF SetCredentialsReadKeys, TypeInv, TypeOK, keyVars, credVars, history
<1>2. CASE SetCredentialsCommit(w)
  <2>1. req[w].cred \in Creds
    BY <1>2 DEF SetCredentialsCommit, TypeInv, StageOK
  <2>2. req' \in [Workers -> Request] /\ \A v \in Workers : StageOK(req'[v])
    BY <1>2, IdleType, RequestUpdate DEF SetCredentialsCommit, Return
  <2> QED BY <1>2, <2>1, <2>2 DEF SetCredentialsCommit, TypeInv, TypeOK, keyVars, history
<1> QED BY <1>1, <1>2 DEF SetCredentials

LEMMA NextType == TypeInv /\ [Next]_vars => TypeInv'
<1> SUFFICES ASSUME TypeInv, [Next]_vars
             PROVE  TypeInv'
  OBVIOUS
<1>1. CASE SetRole
  BY <1>1 DEF SetRole, TypeInv, TypeOK, keyVars, credVars, history
<1>2. ASSUME NEW k \in Keys, Revoke(k)
      PROVE  TypeInv'
  BY <1>2 DEF Revoke, TypeInv, TypeOK, credVars, history
<1>3. ASSUME NEW w \in Workers, Crash(w)
      PROVE  TypeInv'
  <2>1. req' \in [Workers -> Request] /\ \A v \in Workers : StageOK(req'[v])
    BY <1>3, IdleType, RequestUpdate DEF Crash, Return
  <2> QED BY <1>3, <2>1 DEF Crash, TypeInv, TypeOK, keyVars, credVars, history
<1>4. CASE UNCHANGED vars
  BY <1>4 DEF vars, TypeInv, TypeOK, keyVars, credVars, history
<1> QED BY <1>1, <1>2, <1>3, <1>4, CreateType, ConfirmType, ActivateType, SetCredentialsType DEF Next

\* The types, and what each stage of a request relies on, in every reachable state.
LEMMA TypeInvariant == Spec => []TypeInv
BY InitType, NextType, PTL DEF Spec

\* TypeOK holds in every reachable state: no stage of a request stores a value of
\* the wrong kind, whatever the number of users, keys, credentials and workers.
THEOREM TypeCorrect == Spec => []TypeOK
<1>1. TypeInv => TypeOK
  BY DEF TypeInv
<1> QED BY <1>1, TypeInvariant, PTL
-----------------------------------------------------------------------------
(***************************************************************************)
(* One live key per user.                                                  *)
(*                                                                         *)
(* OneLiveKey is not inductive: between its two queries a confirm request  *)
(* has revoked the other keys but not yet confirmed its own, and two such  *)
(* requests overlap.  The invariant therefore speaks of committed keys,    *)
(* those confirmed or about to be.                                         *)
(***************************************************************************)
Committed(k) ==
  k \in confirmed \/ \E w \in Workers : req[w].pc = "confirm_save" /\ req[w].target = k

Exempt == soloBorn \cup resurrected

RingInv ==
  /\ \A k \in Keys : Committed(k) => k \in created
  /\ \A w \in Workers : req[w].pc = "confirm_update" => req[w].target \in created
  /\ \A w \in Workers : req[w].pc \in Activating => req[w].target \in confirmed
  /\ \A k1, k2 \in Keys :
       /\ Committed(k1) /\ k1 \notin revoked
       /\ Committed(k2) /\ k2 \notin revoked
       /\ Owner[k1] = Owner[k2] /\ k1 # k2
       => {k1, k2} \cap Exempt # {}

LEMMA RingInit == Init => RingInv
<1> SUFFICES ASSUME Init
             PROVE  RingInv
  OBVIOUS
<1>1. Idle.pc = "idle"
  BY DEF Idle
<1>2. \A w \in Workers : req[w].pc = "idle"
  BY <1>1 DEF Init
<1>3. \A k \in Keys : Committed(k) => k \in LegacyKeys
  BY <1>2 DEF Init, Committed
<1>4. \A k1, k2 \in LegacyKeys : Owner[k1] = Owner[k2] => k1 = k2
  BY LegacyAssumption
<1> QED BY <1>2, <1>3, <1>4 DEF Init, RingInv, Activating, Provisioning

\* A step that revokes no less, and commits no key that is not exempt.
LEMMA RingMonotone ==
  ASSUME RingInv,
         created \subseteq created', confirmed \subseteq confirmed', revoked \subseteq revoked',
         Exempt \subseteq Exempt',
         \A k \in Keys : Committed(k)' => Committed(k) \/ k \in Exempt' \cap created',
         \A w \in Workers : /\ req'[w].pc = "confirm_update" => req'[w].target \in created'
                            /\ req'[w].pc \in Activating => req'[w].target \in confirmed'
  PROVE  RingInv'
<1>1. \A k \in Keys : Committed(k)' => k \in created'
  BY DEF RingInv
<1>2. ASSUME NEW k1 \in Keys, NEW k2 \in Keys,
             Committed(k1)', k1 \notin revoked', Committed(k2)', k2 \notin revoked',
             Owner[k1] = Owner[k2], k1 # k2
      PROVE  {k1, k2} \cap Exempt' # {}
  BY <1>2 DEF RingInv
<1> QED BY <1>1, <1>2 DEF RingInv, Activating, Provisioning

\* A step of worker w that leaves the key rows alone and neither starts a confirm
\* or an activation nor reaches the save of one.
LEMMA RingQuiet ==
  ASSUME TypeInv, RingInv, NEW w \in Workers, NEW r,
         req' = [req EXCEPT ![w] = r],
         UNCHANGED <<created, confirmed, revoked, soloBorn, resurrected>>,
         r.pc # "confirm_save",
         r.pc = "confirm_update" => r.target \in created,
         r.pc \in Activating => r.target \in confirmed
  PROVE  RingInv'
<1>1. req'[w] = r /\ \A v \in Workers \ {w} : req'[v] = req[v]
  BY DEF TypeInv, TypeOK
<1>2. \A k \in Keys : Committed(k)' => Committed(k)
  BY <1>1 DEF Committed
<1>3. \A v \in Workers : /\ req'[v].pc = "confirm_update" => req'[v].target \in created'
                         /\ req'[v].pc \in Activating => req'[v].target \in confirmed'
  BY <1>1 DEF RingInv
<1>4. /\ created \subseteq created' /\ confirmed \subseteq confirmed' /\ revoked \subseteq revoked'
      /\ Exempt \subseteq Exempt'
  BY DEF Exempt
<1> QED BY <1>2, <1>3, <1>4, RingMonotone

LEMMA RingReturn ==
  ASSUME TypeInv, RingInv, NEW w \in Workers, Return(w),
         UNCHANGED <<created, confirmed, revoked, soloBorn, resurrected>>
  PROVE  RingInv'
<1>1. Idle.pc \notin {"confirm_save", "confirm_update"} \cup Activating
  BY DEF Idle, Activating, Provisioning
<1>2. req' = [req EXCEPT ![w] = Idle]
  BY DEF Return
<1> QED BY <1>1, <1>2, RingQuiet

LEMMA RingCreate ==
  ASSUME TypeInv, RingInv, NEW w \in Workers, Create(w)
  PROVE  RingInv'
<1>1. CASE \E k \in Keys : CreateAuthenticate(w, k)
  <2>1. PICK k \in Keys : CreateAuthenticate(w, k)
    BY <1>1
  <2> DEFINE r == [Idle EXCEPT !.pc = "create_count", !.target = k, !.solo = Owner[k] \in admins]
  <2>2. r.pc \notin {"confirm_save", "confirm_update"} \cup Activating
    BY DEF Idle, Activating, Provisioning
  <2>3. req' = [req EXCEPT ![w] = r]
    BY <2>1 DEF CreateAuthenticate, Begin
  <2> HIDE DEF r
  <2>4. UNCHANGED <<created, confirmed, revoked, soloBorn, resurrected>>
    BY <2>1 DEF CreateAuthenticate, keyVars, history
  <2> QED BY <2>2, <2>3, <2>4, RingQuiet
<1>2. CASE CreateInsert(w)
  <2>1. req'[w] = Idle /\ \A v \in Workers \ {w} : req'[v] = req[v]
    BY <1>2 DEF CreateInsert, Return, TypeInv, TypeOK
  <2>2. Idle.pc = "idle"
    BY DEF Idle
  <2>3. \A k \in Keys : Committed(k)' => Committed(k) \/ k \in Exempt' \cap created'
    BY <1>2, <2>1, <2>2 DEF CreateInsert, Committed, Exempt
  <2>4. \A v \in Workers : /\ req'[v].pc = "confirm_update" => req'[v].target \in created'
                           /\ req'[v].pc \in Activating => req'[v].target \in confirmed'
    BY <1>2, <2>1, <2>2 DEF CreateInsert, RingInv, Activating, Provisioning
  <2> QED BY <1>2, <2>3, <2>4, RingMonotone DEF CreateInsert, Exempt
<1>3. CASE CreateCountAdmins(w)
  <2>1. PICK r \in Request : r = req'[w] BY <1>3, Counted
  <2>2. r.pc \notin {"confirm_save", "confirm_update"} \cup Activating
    BY <1>3, <2>1, Counted DEF Activating, Provisioning
  <2>3. UNCHANGED <<created, confirmed, revoked, soloBorn, resurrected>>
    BY <1>3 DEF CreateCountAdmins, keyVars, history
  <2> QED BY <1>3, <2>1, <2>2, <2>3, Counted, RingQuiet
<1> QED BY <1>1, <1>2, <1>3 DEF Create

LEMMA RingConfirm ==
  ASSUME TypeInv, RingInv, NEW w \in Workers, Confirm(w)
  PROVE  RingInv'
<1>1. CASE \E k \in Keys : ConfirmRead(w, k)
  <2>1. PICK k \in Keys : ConfirmRead(w, k)
    BY <1>1
  <2> DEFINE r == [Idle EXCEPT !.pc = "confirm_update", !.target = k]
  <2>2. r.pc \notin {"confirm_save"} \cup Activating /\ r.target \in created
    BY <2>1 DEF ConfirmRead, Idle, Activating, Provisioning
  <2>3. req' = [req EXCEPT ![w] = r]
    BY <2>1 DEF ConfirmRead, Begin
  <2> HIDE DEF r
  <2>4. UNCHANGED <<created, confirmed, revoked, soloBorn, resurrected>>
    BY <2>1 DEF ConfirmRead, keyVars, history
  <2> QED BY <2>2, <2>3, <2>4, RingQuiet
<1>2. CASE ConfirmRevokeOthers(w)
  <2> DEFINE k0 == req[w].target
  <2>1. k0 \in created
    BY <1>2 DEF ConfirmRevokeOthers, Goto, RingInv
  <2>2. /\ req'[w].pc = "confirm_save" /\ req'[w].target = k0
        /\ \A v \in Workers \ {w} : req'[v] = req[v]
    BY <1>2 DEF ConfirmRevokeOthers, Goto, TypeInv, TypeOK, Request
  <2>3. \A k \in Keys : Committed(k)' => Committed(k) \/ k = k0
    BY <1>2, <2>2 DEF ConfirmRevokeOthers, Committed
  <2>4. \A k \in Keys \ {k0} : Committed(k) /\ Owner[k] = Owner[k0] => k \in revoked'
    BY <1>2 DEF ConfirmRevokeOthers, RingInv
  <2>5. UNCHANGED <<created, confirmed, Exempt>> /\ revoked \subseteq revoked'
    BY <1>2 DEF ConfirmRevokeOthers, history, Exempt
  <2>6. \A k \in Keys : Committed(k)' => k \in created'
    BY <2>1, <2>3, <2>5 DEF RingInv
  <2>7. \A v \in Workers : /\ req'[v].pc = "confirm_update" => req'[v].target \in created'
                           /\ req'[v].pc \in Activating => req'[v].target \in confirmed'
    BY <2>2, <2>5 DEF RingInv, Activating, Provisioning
  <2>8. ASSUME NEW k1 \in Keys, NEW k2 \in Keys,
               Committed(k1)', k1 \notin revoked', Committed(k2)', k2 \notin revoked',
               Owner[k1] = Owner[k2], k1 # k2
        PROVE  {k1, k2} \cap Exempt' # {}
    <3>1. CASE k1 = k0 \/ k2 = k0
      BY <2>3, <2>4, <2>8, <3>1
    <3>2. CASE k1 # k0 /\ k2 # k0
      BY <2>3, <2>5, <2>8, <3>2 DEF RingInv
    <3> QED BY <3>1, <3>2
  <2> QED BY <2>6, <2>7, <2>8 DEF RingInv, Activating, Provisioning
<1>3. CASE ConfirmSave(w)
  <2>1. req'[w] = Idle /\ \A v \in Workers \ {w} : req'[v] = req[v]
    BY <1>3 DEF ConfirmSave, Return, TypeInv, TypeOK
  <2>2. Idle.pc = "idle"
    BY DEF Idle
  <2>3. \A k \in Keys : Committed(k)' => Committed(k)
    BY <1>3, <2>1, <2>2 DEF ConfirmSave, Committed
  <2>4. \A v \in Workers : /\ req'[v].pc = "confirm_update" => req'[v].target \in created'
                           /\ req'[v].pc \in Activating => req'[v].target \in confirmed'
    BY <1>3, <2>1, <2>2 DEF ConfirmSave, RingInv, Activating, Provisioning
  <2> QED BY <1>3, <2>3, <2>4, RingMonotone DEF ConfirmSave, history, Exempt
<1> QED BY <1>1, <1>2, <1>3 DEF Confirm

LEMMA RingActivate ==
  ASSUME TypeInv, RingInv, NEW w \in Workers, Activate(w)
  PROVE  RingInv'
<1>1. CASE \E a \in Users, k \in Keys, p \in Keys \cup {NoKey} : ActivateRead(w, a, k, p)
  <2>1. PICK a \in Users, k \in Keys, p \in Keys \cup {NoKey} : ActivateRead(w, a, k, p)
    BY <1>1
  <2> DEFINE r == [Idle EXCEPT !.pc = "activate_admin_key", !.target = k, !.actor = a, !.pass = p]
  <2>2. r.pc \notin {"confirm_save", "confirm_update"} /\ r.target \in confirmed
    BY <2>1 DEF ActivateRead, Idle
  <2>3. req' = [req EXCEPT ![w] = r]
    BY <2>1 DEF ActivateRead, Begin
  <2> HIDE DEF r
  <2>4. UNCHANGED <<created, confirmed, revoked, soloBorn, resurrected>>
    BY <2>1 DEF ActivateRead, keyVars, history
  <2> QED BY <2>2, <2>3, <2>4, RingQuiet
<1>2. CASE ActivateSave(w)
  <2> DEFINE k0 == req[w].target
  <2>1. k0 \in confirmed /\ k0 \in created
    BY <1>2 DEF ActivateSave, Goto, RingInv, TypeInv, TypeOK, Committed, Activating, Provisioning
  <2>2. /\ req'[w].pc = "activate_list" /\ req'[w].target = k0
        /\ \A v \in Workers \ {w} : req'[v] = req[v]
    BY <1>2 DEF ActivateSave, Goto, TypeInv, TypeOK, Request
  <2>3. UNCHANGED <<created, confirmed>> /\ Exempt \subseteq Exempt'
    BY <1>2, <2>1 DEF ActivateSave, Exempt
  <2>4. \A k \in Keys : Committed(k)' => Committed(k)
    BY <2>2, <2>3 DEF Committed
  <2>5. \A k \in Keys : k \notin revoked' => k \notin revoked \/ k \in Exempt'
    BY <1>2 DEF ActivateSave, Exempt
  <2>6. \A v \in Workers : /\ req'[v].pc = "confirm_update" => req'[v].target \in created'
                           /\ req'[v].pc \in Activating => req'[v].target \in confirmed'
    BY <2>1, <2>2, <2>3 DEF RingInv, Activating, Provisioning
  <2>7. ASSUME NEW k1 \in Keys, NEW k2 \in Keys,
               Committed(k1)', k1 \notin revoked', Committed(k2)', k2 \notin revoked',
               Owner[k1] = Owner[k2], k1 # k2
        PROVE  {k1, k2} \cap Exempt' # {}
    BY <2>3, <2>4, <2>5, <2>7 DEF RingInv
  <2> QED BY <2>3, <2>4, <2>6, <2>7 DEF RingInv, Activating, Provisioning
<1>3. ASSUME UNCHANGED <<created, confirmed, revoked, soloBorn, resurrected>>,
             req[w].pc \in Activating, req'[w].pc \in Activating,
             req'[w].target = req[w].target, req' = [req EXCEPT ![w] = req'[w]]
      PROVE  RingInv'
  <2>1. req'[w].target \in confirmed
    BY <1>3 DEF RingInv
  <2>2. req'[w].pc \notin {"confirm_save", "confirm_update"}
    BY <1>3 DEF Activating, Provisioning
  <2> QED BY <1>3, <2>1, <2>2, RingQuiet
<1>4. CASE ActivateFindAdminKey(w)
  <2>1. CASE UserActiveKeys(req[w].actor) = {}
    BY <1>4, <2>1, RingReturn DEF ActivateFindAdminKey, keyVars, history
  <2>2. CASE UserActiveKeys(req[w].actor) # {}
    <3> DEFINE f == FirstActiveKey(req[w].actor)
    <3>1. req' = [req EXCEPT ![w].pc = "activate_save", ![w].adminKey = f]
      BY <1>4, <2>2 DEF ActivateFindAdminKey
    <3> HIDE DEF f
    <3>2. req'[w].pc \in Activating /\ req'[w].target = req[w].target
      <4>1. req[w] \in Request /\ req \in [Workers -> Request] BY RequestAt DEF TypeInv, TypeOK
      <4>2. req'[w] = [req[w] EXCEPT !.pc = "activate_save", !.adminKey = f] BY <3>1, <4>1
      <4>3. req'[w].pc = "activate_save" /\ req'[w].target = req[w].target BY <4>1, <4>2 DEF Request
      <4> QED BY <4>3 DEF Activating, Provisioning
    <3>3. req' = [req EXCEPT ![w] = req'[w]]
      BY <3>1 DEF TypeInv, TypeOK
    <3> QED BY <1>3, <1>4, <3>2, <3>3
            DEF ActivateFindAdminKey, keyVars, history, Activating, Provisioning
  <2> QED BY <2>1, <2>2
<1>5. CASE ActivateList(w)
  <2>1. /\ req'[w].pc \in Activating /\ req'[w].target = req[w].target
        /\ req' = [req EXCEPT ![w] = req'[w]]
    <3>1. req[w] \in Request /\ req \in [Workers -> Request] BY RequestAt DEF TypeInv, TypeOK
    <3>2. req' = [req EXCEPT ![w].pc = "provision", ![w].list = creds, ![w].todo = creds]
      BY <1>5 DEF ActivateList
    <3>3. /\ req'[w] = [req[w] EXCEPT !.pc = "provision", !.list = creds, !.todo = creds]
          /\ req' = [req EXCEPT ![w] = req'[w]]
      BY <3>1, <3>2
    <3>4. req'[w].pc = "provision" /\ req'[w].target = req[w].target BY <3>1, <3>3 DEF Request
    <3> QED BY <3>3, <3>4 DEF Activating, Provisioning
  <2> QED BY <1>3, <1>5, <2>1 DEF ActivateList, keyVars, history, Activating, Provisioning
<1>6. ASSUME NEW c \in Creds, ProvisionSkip(w, c)
      PROVE  RingInv'
  <2>1. /\ req'[w].pc \in Activating /\ req'[w].target = req[w].target
        /\ req' = [req EXCEPT ![w] = req'[w]]
    BY <1>6 DEF ProvisionSkip, TypeInv, TypeOK, Request, Activating, Provisioning
  <2> QED BY <1>3, <1>6, <2>1 DEF ProvisionSkip, keyVars, history, Activating, Provisioning
<1>7. ASSUME NEW c \in Creds, ProvisionShare(w, c)
      PROVE  RingInv'
  <2>1. /\ req'[w].pc \in Activating /\ req'[w].target = req[w].target
        /\ req' = [req EXCEPT ![w] = req'[w]]
    BY <1>7 DEF ProvisionShare, TypeInv, TypeOK, Request, Activating, Provisioning
  <2> QED BY <1>3, <1>7, <2>1 DEF ProvisionShare, keyVars, history, Activating, Provisioning
<1>8. ASSUME NEW c \in Creds, ProvisionReencrypt(w, c)
      PROVE  RingInv'
  <2>1. /\ req'[w].pc \in Activating /\ req'[w].target = req[w].target
        /\ req' = [req EXCEPT ![w] = req'[w]]
    <3>1. req[w] \in Request /\ req \in [Workers -> Request] BY RequestAt DEF TypeInv, TypeOK
    <3>2. req' = [req EXCEPT ![w].pc = "rewrap", ![w].cred = c, ![w].fresh = sym[c] + 1,
                             ![w].todo = @ \ {c}]
      BY <1>8 DEF ProvisionReencrypt
    <3>3. /\ req'[w] = [req[w] EXCEPT !.pc = "rewrap", !.cred = c, !.fresh = sym[c] + 1, !.todo = @ \ {c}]
          /\ req' = [req EXCEPT ![w] = req'[w]]
      BY <3>1, <3>2
    <3>4. req'[w].pc = "rewrap" /\ req'[w].target = req[w].target BY <3>1, <3>3 DEF Request
    <3> QED BY <3>3, <3>4 DEF Activating, Provisioning
  <2> QED BY <1>3, <1>8, <2>1 DEF ProvisionReencrypt, keyVars, history, Activating, Provisioning
<1>9. CASE ProvisionRewrap(w)
  <2>1. /\ req'[w].pc \in Activating /\ req'[w].target = req[w].target
        /\ req' = [req EXCEPT ![w] = req'[w]]
    <3>1. req[w] \in Request /\ req \in [Workers -> Request] BY RequestAt DEF TypeInv, TypeOK
    <3>2. req' = [req EXCEPT ![w].pc = "provision", ![w].cred = None, ![w].fresh = 0]
      BY <1>9 DEF ProvisionRewrap
    <3>3. /\ req'[w] = [req[w] EXCEPT !.pc = "provision", !.cred = None, !.fresh = 0]
          /\ req' = [req EXCEPT ![w] = req'[w]]
      BY <3>1, <3>2
    <3>4. req'[w].pc = "provision" /\ req'[w].target = req[w].target BY <3>1, <3>3 DEF Request
    <3> QED BY <3>3, <3>4 DEF Activating, Provisioning
  <2> QED BY <1>3, <1>9, <2>1 DEF ProvisionRewrap, keyVars, history, Activating, Provisioning
<1>10. ASSUME NEW c \in Creds, ProvisionReject(w, c)
       PROVE  RingInv'
  BY <1>10, RingReturn DEF ProvisionReject, keyVars, history
<1>11. CASE ActivateReturn(w)
  BY <1>11, RingReturn DEF ActivateReturn, keyVars, history
<1> QED BY <1>1, <1>2, <1>4, <1>5, <1>6, <1>7, <1>8, <1>9, <1>10, <1>11 DEF Activate

LEMMA RingSetCredentials ==
  ASSUME TypeInv, RingInv, NEW w \in Workers, SetCredentials(w)
  PROVE  RingInv'
<1>1. CASE \E c \in Creds : SetCredentialsReadKeys(w, c)
  <2>1. PICK c \in Creds : SetCredentialsReadKeys(w, c)
    BY <1>1
  <2> DEFINE r == [Idle EXCEPT !.pc = "set_credentials", !.cred = c, !.keys = ActiveKeys]
  <2>2. r.pc \notin {"confirm_save", "confirm_update"} \cup Activating
    BY DEF Idle, Activating, Provisioning
  <2>3. req' = [req EXCEPT ![w] = r]
    BY <2>1 DEF SetCredentialsReadKeys, Begin
  <2> HIDE DEF r
  <2>4. UNCHANGED <<created, confirmed, revoked, soloBorn, resurrected>>
    BY <2>1 DEF SetCredentialsReadKeys, keyVars, history
  <2> QED BY <2>2, <2>3, <2>4, RingQuiet
<1>2. CASE SetCredentialsCommit(w)
  BY <1>2, RingReturn DEF SetCredentialsCommit, keyVars, history
<1> QED BY <1>1, <1>2 DEF SetCredentials

LEMMA RingNext == TypeInv /\ RingInv /\ [Next]_vars => RingInv'
<1> SUFFICES ASSUME TypeInv, RingInv, [Next]_vars
             PROVE  RingInv'
  OBVIOUS
<1>1. CASE SetRole
  BY <1>1 DEF SetRole, RingInv, Committed, Exempt, keyVars, history
<1>2. ASSUME NEW k \in Keys, Revoke(k)
      PROVE  RingInv'
  <2>1. \A o \in Keys : Committed(o)' => Committed(o)
    BY <1>2 DEF Revoke, Committed
  <2> QED BY <1>2, <2>1, RingMonotone DEF Revoke, RingInv, Exempt, history
<1>3. ASSUME NEW w \in Workers, Crash(w)
      PROVE  RingInv'
  BY <1>3, RingReturn DEF Crash, keyVars, history
<1>4. CASE UNCHANGED vars
  BY <1>4 DEF vars, RingInv, Committed, Exempt, keyVars, history
<1> QED BY <1>1, <1>2, <1>3, <1>4, RingCreate, RingConfirm, RingActivate, RingSetCredentials DEF Next

\* A user has at most one live confirmed key, unless one of the two was approved
\* at creation or resurrected by a late activation: confirm_key keeps its promise
\* under every interleaving of the other handlers, however many run at once.
THEOREM OneLiveKeyHolds == Spec => []OneLiveKey
<1>1. RingInv => OneLiveKey
  BY DEF RingInv, OneLiveKey, Live, Committed, Exempt
<1> QED BY <1>1, RingInit, RingNext, TypeInvariant, PTL DEF Spec
-----------------------------------------------------------------------------
(***************************************************************************)
(* Where trust comes from: the rows, and the approvals they rest on.       *)
(*                                                                         *)
(* Neither RowsOnlyForApproved nor TrustNeedsSoloAdmin is inductive: a row *)
(* is written long after the approval it depends on was read or saved, so  *)
(* the invariant carries that approval along with the request in flight.   *)
(***************************************************************************)
Trusting(r, app, conf) ==
  /\ r.pc \in {"activate_list", "provision", "rewrap"} => r.target \in app \cap conf
  /\ r.pc \in Provisioning => r.adminKey \in app
  /\ r.pc = "set_credentials" => r.keys \subseteq app \cap conf

TrustInv ==
  /\ RowsOnlyForApproved
  /\ approved # {} => soloBorn \cup LegacyKeys # {}
  /\ \A w \in Workers : Trusting(req[w], approved, confirmed)

LEMMA TrustingIdle ==
  ASSUME NEW app, NEW conf
  PROVE  Trusting(Idle, app, conf)
BY DEF Trusting, Idle, Provisioning

\* A step of worker w that takes no approval and no confirmation back.
LEMMA TrustStep ==
  ASSUME TypeInv, TrustInv, NEW w \in Workers, NEW r,
         req' = [req EXCEPT ![w] = r],
         approved \subseteq approved', confirmed \subseteq confirmed',
         Trusting(r, approved', confirmed'),
         approved' # {} => soloBorn' \cup LegacyKeys # {},
         \A c \in Creds, k \in Keys :
           wrap'[c][k] # 0 => wrap[c][k] # 0 \/ k \in approved' \cap confirmed'
  PROVE  TrustInv'
<1>1. req'[w] = r /\ \A v \in Workers \ {w} : req'[v] = req[v]
  BY DEF TypeInv, TypeOK
<1>2. \A v \in Workers : Trusting(req[v], approved, confirmed)
  BY DEF TrustInv
<1>3. \A v \in Workers : Trusting(req[v], approved', confirmed')
  BY <1>2 DEF Trusting
<1>4. \A v \in Workers : Trusting(req'[v], approved', confirmed')
  BY <1>1, <1>3
<1>5. RowsOnlyForApproved'
  BY DEF TrustInv, RowsOnlyForApproved
<1> QED BY <1>4, <1>5 DEF TrustInv

\* A step of worker w that leaves the key rows and the credential rows alone.
LEMMA TrustQuiet ==
  ASSUME TypeInv, TrustInv, NEW w \in Workers, NEW r,
         req' = [req EXCEPT ![w] = r],
         UNCHANGED <<approved, confirmed, soloBorn, wrap>>,
         Trusting(r, approved, confirmed)
  PROVE  TrustInv'
<1>1. approved' # {} => soloBorn' \cup LegacyKeys # {}
  BY DEF TrustInv
<1>2. Trusting(r, approved', confirmed')
  OBVIOUS
<1> QED BY <1>1, <1>2, TrustStep

LEMMA TrustReturn ==
  ASSUME TypeInv, TrustInv, NEW w \in Workers, Return(w),
         UNCHANGED <<approved, confirmed, soloBorn, wrap>>
  PROVE  TrustInv'
BY TrustQuiet, TrustingIdle DEF Return

LEMMA TrustInit == Init => TrustInv
<1> SUFFICES ASSUME Init
             PROVE  TrustInv
  OBVIOUS
<1>1. \A w \in Workers : Trusting(req[w], approved, confirmed)
  BY TrustingIdle DEF Init
<1> QED BY <1>1 DEF Init, TrustInv, RowsOnlyForApproved

LEMMA TrustCreate ==
  ASSUME TypeInv, TrustInv, NEW w \in Workers, Create(w)
  PROVE  TrustInv'
<1>1. CASE \E k \in Keys : CreateAuthenticate(w, k)
  <2>1. PICK k \in Keys : CreateAuthenticate(w, k)
    BY <1>1
  <2> DEFINE r == [Idle EXCEPT !.pc = "create_count", !.target = k, !.solo = Owner[k] \in admins]
  <2>2. Trusting(r, approved, confirmed)
    BY DEF Trusting, Idle, Provisioning
  <2>3. req' = [req EXCEPT ![w] = r]
    BY <2>1 DEF CreateAuthenticate, Begin
  <2> HIDE DEF r
  <2>4. UNCHANGED <<approved, confirmed, soloBorn, wrap>>
    BY <2>1 DEF CreateAuthenticate, keyVars, credVars, history
  <2> QED BY <2>2, <2>3, <2>4, TrustQuiet
<1>2. CASE CreateInsert(w)
  <2>1. approved \subseteq approved' /\ confirmed \subseteq confirmed'
    BY <1>2 DEF CreateInsert
  <2>2. approved' # {} => soloBorn' \cup LegacyKeys # {}
    BY <1>2 DEF CreateInsert, TrustInv
  <2> QED BY <1>2, <2>1, <2>2, TrustingIdle, TrustStep DEF CreateInsert, Return, credVars
<1>3. CASE CreateCountAdmins(w)
  <2>1. PICK r \in Request : r = req'[w] BY <1>3, Counted
  <2>2. Trusting(r, approved, confirmed) BY <1>3, <2>1, Counted DEF Trusting, Provisioning
  <2>3. UNCHANGED <<approved, confirmed, soloBorn, wrap>>
    BY <1>3 DEF CreateCountAdmins, keyVars, credVars, history
  <2> QED BY <1>3, <2>1, <2>2, <2>3, Counted, TrustQuiet
<1> QED BY <1>1, <1>2, <1>3 DEF Create

LEMMA TrustConfirm ==
  ASSUME TypeInv, TrustInv, NEW w \in Workers, Confirm(w)
  PROVE  TrustInv'
<1>1. CASE \E k \in Keys : ConfirmRead(w, k)
  <2>1. PICK k \in Keys : ConfirmRead(w, k)
    BY <1>1
  <2> DEFINE r == [Idle EXCEPT !.pc = "confirm_update", !.target = k]
  <2>2. Trusting(r, approved, confirmed)
    BY DEF Trusting, Idle, Provisioning
  <2>3. req' = [req EXCEPT ![w] = r]
    BY <2>1 DEF ConfirmRead, Begin
  <2> HIDE DEF r
  <2>4. UNCHANGED <<approved, confirmed, soloBorn, wrap>>
    BY <2>1 DEF ConfirmRead, keyVars, credVars, history
  <2> QED BY <2>2, <2>3, <2>4, TrustQuiet
<1>2. CASE ConfirmRevokeOthers(w)
  <2> DEFINE r == [req[w] EXCEPT !.pc = "confirm_save"]
  <2>1. Trusting(r, approved, confirmed)
    BY DEF Trusting, TypeInv, TypeOK, Request, Provisioning
  <2>2. req' = [req EXCEPT ![w] = r]
    BY <1>2 DEF ConfirmRevokeOthers, Goto, TypeInv, TypeOK
  <2> HIDE DEF r
  <2> QED BY <1>2, <2>1, <2>2, TrustQuiet DEF ConfirmRevokeOthers, credVars, history
<1>3. CASE ConfirmSave(w)
  <2>1. approved' # {} => soloBorn' \cup LegacyKeys # {}
    BY <1>3 DEF ConfirmSave, history, TrustInv
  <2> QED BY <1>3, <2>1, TrustingIdle, TrustStep DEF ConfirmSave, Return, credVars
<1> QED BY <1>1, <1>2, <1>3 DEF Confirm

LEMMA TrustActivate ==
  ASSUME TypeInv, TrustInv, NEW w \in Workers, Activate(w)
  PROVE  TrustInv'
<1> DEFINE r0 == req[w]
<1>a. r0 \in Request /\ Trusting(r0, approved, confirmed)
  BY DEF TypeInv, TypeOK, TrustInv
<1>1. CASE \E a \in Users, k \in Keys, p \in Keys \cup {NoKey} : ActivateRead(w, a, k, p)
  <2>1. PICK a \in Users, k \in Keys, p \in Keys \cup {NoKey} : ActivateRead(w, a, k, p)
    BY <1>1
  <2> DEFINE r == [Idle EXCEPT !.pc = "activate_admin_key", !.target = k, !.actor = a, !.pass = p]
  <2>2. Trusting(r, approved, confirmed)
    BY DEF Trusting, Idle, Provisioning
  <2>3. req' = [req EXCEPT ![w] = r]
    BY <2>1 DEF ActivateRead, Begin
  <2> HIDE DEF r
  <2>4. UNCHANGED <<approved, confirmed, soloBorn, wrap>>
    BY <2>1 DEF ActivateRead, keyVars, credVars, history
  <2> QED BY <2>2, <2>3, <2>4, TrustQuiet
<1>2. CASE ActivateFindAdminKey(w)
  <2>1. UNCHANGED <<approved, confirmed, soloBorn, wrap>>
    BY <1>2 DEF ActivateFindAdminKey, keyVars, credVars, history
  <2>2. CASE UserActiveKeys(req[w].actor) = {}
    BY <1>2, <2>1, <2>2, TrustReturn DEF ActivateFindAdminKey
  <2>3. CASE UserActiveKeys(req[w].actor) # {}
    <3> DEFINE f == FirstActiveKey(req[w].actor)
    <3>1. f \in approved
      BY <2>3, FirstActiveKeyType DEF TypeInv, ActiveKeys
    <3>2. req' = [req EXCEPT ![w].pc = "activate_save", ![w].adminKey = f]
      BY <1>2, <2>3 DEF ActivateFindAdminKey
    <3> HIDE DEF f
    <3> DEFINE r == [req[w] EXCEPT !.pc = "activate_save", !.adminKey = f]
    <3>3. Trusting(r, approved, confirmed)
      BY <1>a, <3>1 DEF Trusting, Request, Provisioning
    <3>4. req' = [req EXCEPT ![w] = r]
      BY <3>2 DEF TypeInv, TypeOK
    <3> HIDE DEF r
    <3> QED BY <2>1, <3>3, <3>4, TrustQuiet
  <2> QED BY <2>2, <2>3
<1>3. CASE ActivateSave(w)
  <2> DEFINE r == [req[w] EXCEPT !.pc = "activate_list"]
  <2>1. req[w].target \in approved' \cap confirmed' /\ req[w].adminKey \in approved
    BY <1>a, <1>3 DEF ActivateSave, Goto, Trusting, Provisioning
  <2>2. approved \subseteq approved' /\ confirmed \subseteq confirmed'
    BY <1>3 DEF ActivateSave
  <2>3. Trusting(r, approved', confirmed')
    BY <1>a, <2>1, <2>2 DEF Trusting, Request, Provisioning
  <2>4. req' = [req EXCEPT ![w] = r]
    BY <1>3 DEF ActivateSave, Goto, TypeInv, TypeOK
  <2> HIDE DEF r
  <2>5. approved' # {} => soloBorn' \cup LegacyKeys # {}
    BY <1>3, <2>1 DEF ActivateSave, TrustInv
  <2> QED BY <1>3, <2>2, <2>3, <2>4, <2>5, TrustStep DEF ActivateSave, credVars
<1>4. CASE ActivateList(w)
  <2> DEFINE r == [req[w] EXCEPT !.pc = "provision", !.list = creds, !.todo = creds]
  <2>1. Trusting(r, approved, confirmed)
    BY <1>a, <1>4 DEF ActivateList, Trusting, Request, Provisioning
  <2>2. req' = [req EXCEPT ![w] = r]
    BY <1>4 DEF ActivateList, TypeInv, TypeOK
  <2> HIDE DEF r
  <2> QED BY <1>4, <2>1, <2>2, TrustQuiet DEF ActivateList, keyVars, credVars, history
<1>5. ASSUME NEW c \in Creds, ProvisionSkip(w, c)
      PROVE  TrustInv'
  <2> DEFINE r == [req[w] EXCEPT !.todo = @ \ {c}]
  <2>1. Trusting(r, approved, confirmed)
    BY <1>a DEF Trusting, Request, Provisioning
  <2>2. req' = [req EXCEPT ![w] = r]
    BY <1>5 DEF ProvisionSkip, TypeInv, TypeOK
  <2> HIDE DEF r
  <2> QED BY <1>5, <2>1, <2>2, TrustQuiet DEF ProvisionSkip, keyVars, credVars, history
<1>6. ASSUME NEW c \in Creds, ProvisionShare(w, c)
      PROVE  TrustInv'
  <2> DEFINE r == [req[w] EXCEPT !.todo = @ \ {c}]
  <2>1. Trusting(r, approved, confirmed)
    BY <1>a DEF Trusting, Request, Provisioning
  <2>2. req' = [req EXCEPT ![w] = r]
    BY <1>6 DEF ProvisionShare, TypeInv, TypeOK
  <2> HIDE DEF r
  <2>3. req[w].target \in approved \cap confirmed
    BY <1>a, <1>6 DEF ProvisionShare, Trusting
  <2>4. UNCHANGED <<approved, confirmed, soloBorn>>
    BY <1>6 DEF ProvisionShare, keyVars, history
  <2>5. \A d \in Creds, k \in Keys :
          wrap'[d][k] # 0 => wrap[d][k] # 0 \/ k \in approved' \cap confirmed'
    BY <1>6, <2>3, <2>4 DEF ProvisionShare, TypeInv, TypeOK
  <2>6. approved' # {} => soloBorn' \cup LegacyKeys # {}
    BY <2>4 DEF TrustInv
  <2> QED BY <2>1, <2>2, <2>4, <2>5, <2>6, TrustStep
<1>7. ASSUME NEW c \in Creds, ProvisionReencrypt(w, c)
      PROVE  TrustInv'
  <2> DEFINE r == [req[w] EXCEPT !.pc = "rewrap", !.cred = c, !.fresh = sym[c] + 1, !.todo = @ \ {c}]
  <2>1. Trusting(r, approved, confirmed)
    BY <1>a, <1>7 DEF ProvisionReencrypt, Trusting, Request, Provisioning
  <2>2. req' = [req EXCEPT ![w] = r]
    BY <1>7 DEF ProvisionReencrypt, TypeInv, TypeOK
  <2> HIDE DEF r
  <2> QED BY <1>7, <2>1, <2>2, TrustQuiet DEF ProvisionReencrypt, keyVars, history
<1>8. CASE ProvisionRewrap(w)
  <2> DEFINE r == [req[w] EXCEPT !.pc = "provision", !.cred = None, !.fresh = 0]
  <2>1. Trusting(r, approved, confirmed)
    BY <1>a, <1>8 DEF ProvisionRewrap, Trusting, Request, Provisioning
  <2>2. req' = [req EXCEPT ![w] = r]
    BY <1>8 DEF ProvisionRewrap, TypeInv, TypeOK
  <2> HIDE DEF r
  <2>3. req[w].target \in approved \cap confirmed
    BY <1>a, <1>8 DEF ProvisionRewrap, Trusting
  <2>4. UNCHANGED <<approved, confirmed, soloBorn>>
    BY <1>8 DEF ProvisionRewrap, keyVars, history
  <2>5. \A d \in Creds, k \in Keys :
          wrap'[d][k] # 0 => wrap[d][k] # 0 \/ k \in approved' \cap confirmed'
    BY <1>8, <2>3, <2>4 DEF ProvisionRewrap, TypeInv, TypeOK
  <2>6. approved' # {} => soloBorn' \cup LegacyKeys # {}
    BY <2>4 DEF TrustInv
  <2> QED BY <2>1, <2>2, <2>4, <2>5, <2>6, TrustStep
<1>9. ASSUME NEW c \in Creds, ProvisionReject(w, c)
      PROVE  TrustInv'
  BY <1>9, TrustReturn DEF ProvisionReject, keyVars, credVars, history
<1>10. CASE ActivateReturn(w)
  BY <1>10, TrustReturn DEF ActivateReturn, keyVars, credVars, history
<1> QED BY <1>1, <1>2, <1>3, <1>4, <1>5, <1>6, <1>7, <1>8, <1>9, <1>10 DEF Activate

LEMMA TrustSetCredentials ==
  ASSUME TypeInv, TrustInv, NEW w \in Workers, SetCredentials(w)
  PROVE  TrustInv'
<1>1. CASE \E c \in Creds : SetCredentialsReadKeys(w, c)
  <2>1. PICK c \in Creds : SetCredentialsReadKeys(w, c)
    BY <1>1
  <2> DEFINE r == [Idle EXCEPT !.pc = "set_credentials", !.cred = c, !.keys = ActiveKeys]
  <2>2. Trusting(r, approved, confirmed)
    BY DEF Trusting, Idle, Provisioning, ActiveKeys
  <2>3. req' = [req EXCEPT ![w] = r]
    BY <2>1 DEF SetCredentialsReadKeys, Begin
  <2> HIDE DEF r
  <2> QED BY <2>1, <2>2, <2>3, TrustQuiet DEF SetCredentialsReadKeys, keyVars, credVars, history
<1>2. CASE SetCredentialsCommit(w)
  <2>1. UNCHANGED <<approved, confirmed, soloBorn>>
    BY <1>2 DEF SetCredentialsCommit, keyVars, history
  <2>2. req[w].keys \subseteq approved \cap confirmed
    BY <1>2 DEF SetCredentialsCommit, TrustInv, Trusting
  <2>3. \A d \in Creds, k \in Keys :
          wrap'[d][k] # 0 => wrap[d][k] # 0 \/ k \in approved' \cap confirmed'
    BY <1>2, <2>1, <2>2 DEF SetCredentialsCommit, TypeInv, TypeOK
  <2>4. approved' # {} => soloBorn' \cup LegacyKeys # {}
    BY <2>1 DEF TrustInv
  <2> QED BY <1>2, <2>1, <2>3, <2>4, TrustingIdle, TrustStep DEF SetCredentialsCommit, Return
<1> QED BY <1>1, <1>2 DEF SetCredentials

LEMMA TrustNext == TypeInv /\ TrustInv /\ [Next]_vars => TrustInv'
<1> SUFFICES ASSUME TypeInv, TrustInv, [Next]_vars
             PROVE  TrustInv'
  OBVIOUS
<1>1. CASE UNCHANGED <<approved, confirmed, soloBorn, wrap, req>>
  BY <1>1 DEF TrustInv, RowsOnlyForApproved
<1>2. CASE SetRole
  BY <1>1, <1>2 DEF SetRole, keyVars, credVars, history
<1>3. ASSUME NEW k \in Keys, Revoke(k)
      PROVE  TrustInv'
  BY <1>1, <1>3 DEF Revoke, credVars, history
<1>4. ASSUME NEW w \in Workers, Crash(w)
      PROVE  TrustInv'
  BY <1>4, TrustReturn DEF Crash, keyVars, credVars, history
<1>5. CASE UNCHANGED vars
  BY <1>1, <1>5 DEF vars, keyVars, credVars, history
<1> QED BY <1>2, <1>3, <1>4, <1>5, TrustCreate, TrustConfirm, TrustActivate, TrustSetCredentials
        DEF Next

\* No credential is ever wrapped for a key that was not both confirmed by its
\* owner and approved, whichever requests overlap or die half way.
THEOREM RowsOnlyForApprovedHolds == Spec => []RowsOnlyForApproved
<1>1. TrustInv => RowsOnlyForApproved
  BY DEF TrustInv
<1> QED BY <1>1, TrustInit, TrustNext, TypeInvariant, PTL DEF Spec

\* Every approval descends from a key approved at creation for a solo admin (or
\* from a key that predates the model): without one, nothing is ever approved and
\* nothing is wrapped.
THEOREM TrustNeedsSoloAdminHolds == Spec => []TrustNeedsSoloAdmin
<1>1. TrustInv => TrustNeedsSoloAdmin
  BY DEF TrustInv, TrustNeedsSoloAdmin, RowsOnlyForApproved
<1> QED BY <1>1, TrustInit, TrustNext, TypeInvariant, PTL DEF Spec
-----------------------------------------------------------------------------
(***************************************************************************)
(* One symmetric key per credential.  A turn of the old-format branch      *)
(* writes the data and the row in two queries, so the invariant says which *)
(* credentials a request between the two can be about.                     *)
(***************************************************************************)
SharedInv ==
  /\ SharedSymmetricKey
  /\ \A w \in Workers : req[w].pc = "rewrap" => req[w].cred \in LegacyCreds

\* A step of worker w that writes no credential row.
LEMMA SharedQuiet ==
  ASSUME SharedInv, UNCHANGED <<sym, wrap>>,
         \A w \in Workers : req'[w].pc = "rewrap" => req'[w] = req[w]
  PROVE  SharedInv'
BY DEF SharedInv, SharedSymmetricKey

LEMMA SharedInit == Init => SharedInv
<1>1. Idle.pc = "idle"
  BY DEF Idle
<1> QED BY <1>1 DEF Init, SharedInv, SharedSymmetricKey

LEMMA SharedActivate ==
  ASSUME TypeInv, SharedInv, NEW w \in Workers, Activate(w)
  PROVE  SharedInv'
<1>1. Idle.pc = "idle"
  BY DEF Idle
<1>2. CASE \E a \in Users, k \in Keys, p \in Keys \cup {NoKey} : ActivateRead(w, a, k, p)
  <2>1. PICK a \in Users, k \in Keys, p \in Keys \cup {NoKey} : ActivateRead(w, a, k, p)
    BY <1>2
  <2> DEFINE r == [Idle EXCEPT !.pc = "activate_admin_key", !.target = k, !.actor = a, !.pass = p]
  <2>2. r.pc # "rewrap"
    BY DEF Idle
  <2>3. req' = [req EXCEPT ![w] = r]
    BY <2>1 DEF ActivateRead, Begin
  <2> HIDE DEF r
  <2> QED BY <2>1, <2>2, <2>3, SharedQuiet DEF ActivateRead, TypeInv, TypeOK, credVars
<1>3. CASE ActivateFindAdminKey(w)
  <2> DEFINE f == FirstActiveKey(req[w].actor)
  <2>1. \/ req' = [req EXCEPT ![w] = Idle]
        \/ req' = [req EXCEPT ![w].pc = "activate_save", ![w].adminKey = f]
    BY <1>3 DEF ActivateFindAdminKey, Return
  <2> HIDE DEF f
  <2>2. \A v \in Workers : req'[v].pc = "rewrap" => req'[v] = req[v]
    BY <1>1, <2>1 DEF TypeInv, TypeOK, Request
  <2> QED BY <1>3, <2>2, SharedQuiet DEF ActivateFindAdminKey, credVars
<1>4. CASE ActivateSave(w)
  BY <1>4, SharedQuiet DEF ActivateSave, Goto, TypeInv, TypeOK, Request, credVars
<1>5. CASE ActivateList(w)
  BY <1>5, SharedQuiet DEF ActivateList, TypeInv, TypeOK, Request, credVars
<1>6. ASSUME NEW c \in Creds, ProvisionSkip(w, c)
      PROVE  SharedInv'
  BY <1>6, SharedQuiet DEF ProvisionSkip, TypeInv, TypeOK, Request, credVars
<1>7. ASSUME NEW c \in Creds, ProvisionShare(w, c)
      PROVE  SharedInv'
  <2>1. \A v \in Workers : req'[v].pc = "rewrap" => req'[v] = req[v]
    BY <1>7 DEF ProvisionShare, TypeInv, TypeOK, Request
  <2>2. req[w].adminKey \in Keys
    BY <1>7 DEF ProvisionShare, TypeInv, StageOK, Provisioning
  <2> QED BY <1>7, <2>1, <2>2
          DEF ProvisionShare, SharedInv, SharedSymmetricKey, TypeInv, TypeOK
<1>8. ASSUME NEW c \in Creds, ProvisionReencrypt(w, c)
      PROVE  SharedInv'
  <2>1. c \in LegacyCreds
    BY <1>8 DEF ProvisionReencrypt, OldRow
  <2>2. \A d \in Creds \ LegacyCreds : sym'[d] = sym[d]
    BY <1>8, <2>1 DEF ProvisionReencrypt, TypeInv, TypeOK
  <2>3. req'[w].cred = c /\ \A v \in Workers \ {w} : req'[v] = req[v]
    BY <1>8 DEF ProvisionReencrypt, TypeInv, TypeOK, Request
  <2> QED BY <1>8, <2>1, <2>2, <2>3 DEF ProvisionReencrypt, SharedInv, SharedSymmetricKey
<1>9. CASE ProvisionRewrap(w)
  <2>1. req[w].cred \in LegacyCreds
    BY <1>9 DEF ProvisionRewrap, SharedInv
  <2>2. \A d \in Creds \ LegacyCreds : wrap'[d] = wrap[d]
    BY <1>9, <2>1 DEF ProvisionRewrap, TypeInv, TypeOK
  <2>3. req'[w].pc = "provision" /\ \A v \in Workers \ {w} : req'[v] = req[v]
    BY <1>9 DEF ProvisionRewrap, TypeInv, TypeOK, Request
  <2> QED BY <1>9, <2>2, <2>3 DEF ProvisionRewrap, SharedInv, SharedSymmetricKey
<1>10. ASSUME NEW c \in Creds, ProvisionReject(w, c)
       PROVE  SharedInv'
  BY <1>1, <1>10, SharedQuiet DEF ProvisionReject, Return, TypeInv, TypeOK, credVars
<1>11. CASE ActivateReturn(w)
  BY <1>1, <1>11, SharedQuiet DEF ActivateReturn, Return, TypeInv, TypeOK, credVars
<1> QED BY <1>2, <1>3, <1>4, <1>5, <1>6, <1>7, <1>8, <1>9, <1>10, <1>11 DEF Activate

LEMMA SharedSetCredentials ==
  ASSUME TypeInv, SharedInv, NEW w \in Workers, SetCredentials(w)
  PROVE  SharedInv'
<1>1. CASE \E c \in Creds : SetCredentialsReadKeys(w, c)
  <2>1. PICK c \in Creds : SetCredentialsReadKeys(w, c)
    BY <1>1
  <2> DEFINE r == [Idle EXCEPT !.pc = "set_credentials", !.cred = c, !.keys = ActiveKeys]
  <2>2. r.pc # "rewrap"
    BY DEF Idle
  <2>3. req' = [req EXCEPT ![w] = r]
    BY <2>1 DEF SetCredentialsReadKeys, Begin
  <2> HIDE DEF r
  <2> QED BY <2>1, <2>2, <2>3, SharedQuiet DEF SetCredentialsReadKeys, TypeInv, TypeOK, credVars
<1>2. CASE SetCredentialsCommit(w)
  <2>1. Idle.pc = "idle"
    BY DEF Idle
  <2>2. \A v \in Workers : req'[v].pc = "rewrap" => req'[v] = req[v]
    BY <1>2, <2>1 DEF SetCredentialsCommit, Return, TypeInv, TypeOK
  <2> QED BY <1>2, <2>2 DEF SetCredentialsCommit, SharedInv, SharedSymmetricKey, TypeInv, TypeOK
<1> QED BY <1>1, <1>2 DEF SetCredentials

LEMMA SharedNext == TypeInv /\ SharedInv /\ [Next]_vars => SharedInv'
<1> SUFFICES ASSUME TypeInv, SharedInv, [Next]_vars
             PROVE  SharedInv'
  OBVIOUS
<1>1. Idle.pc = "idle"
  BY DEF Idle
<1>2. CASE SetRole \/ (\E k \in Keys : Revoke(k)) \/ UNCHANGED vars
  <2>1. UNCHANGED <<sym, wrap, req>>
    BY <1>2 DEF SetRole, Revoke, vars, credVars
  <2> QED BY <2>1, SharedQuiet
<1>3. ASSUME NEW w \in Workers, Create(w)
      PROVE  SharedInv'
  <2>1. CASE CreateInsert(w)
    BY <1>1, <2>1, SharedQuiet DEF CreateInsert, Return, TypeInv, TypeOK, credVars
  <2>2. CASE \E k \in Keys : CreateAuthenticate(w, k)
    <3>1. PICK k \in Keys : CreateAuthenticate(w, k)
      BY <2>2
    <3> DEFINE r == [Idle EXCEPT !.pc = "create_count", !.target = k, !.solo = Owner[k] \in admins]
    <3>2. r.pc # "rewrap"
      BY DEF Idle
    <3>3. req' = [req EXCEPT ![w] = r]
      BY <3>1 DEF CreateAuthenticate, Begin
    <3> HIDE DEF r
    <3> QED BY <3>1, <3>2, <3>3, SharedQuiet DEF CreateAuthenticate, TypeInv, TypeOK, credVars
  <2>3. CASE CreateCountAdmins(w)
    <3>1. req'[w].pc # "rewrap" BY <2>3, Counted
    <3>2. req' = [req EXCEPT ![w] = req'[w]] BY <2>3, Counted
    <3> QED BY <2>3, <3>1, <3>2, SharedQuiet DEF CreateCountAdmins, TypeInv, TypeOK, credVars
  <2> QED BY <1>3, <2>1, <2>2, <2>3 DEF Create
<1>4. ASSUME NEW w \in Workers, Confirm(w)
      PROVE  SharedInv'
  <2>1. CASE ConfirmSave(w)
    BY <1>1, <2>1, SharedQuiet DEF ConfirmSave, Return, TypeInv, TypeOK, credVars
  <2>2. CASE ConfirmRevokeOthers(w)
    BY <2>2, SharedQuiet DEF ConfirmRevokeOthers, Goto, TypeInv, TypeOK, Request, credVars
  <2>3. CASE \E k \in Keys : ConfirmRead(w, k)
    <3>1. PICK k \in Keys : ConfirmRead(w, k)
      BY <2>3
    <3> DEFINE r == [Idle EXCEPT !.pc = "confirm_update", !.target = k]
    <3>2. r.pc # "rewrap"
      BY DEF Idle
    <3>3. req' = [req EXCEPT ![w] = r]
      BY <3>1 DEF ConfirmRead, Begin
    <3> HIDE DEF r
    <3> QED BY <3>1, <3>2, <3>3, SharedQuiet DEF ConfirmRead, TypeInv, TypeOK, credVars
  <2> QED BY <1>4, <2>1, <2>2, <2>3 DEF Confirm
<1>5. ASSUME NEW w \in Workers, Crash(w)
      PROVE  SharedInv'
  BY <1>1, <1>5, SharedQuiet DEF Crash, Return, TypeInv, TypeOK, credVars
<1> QED BY <1>2, <1>3, <1>4, <1>5, SharedActivate, SharedSetCredentials DEF Next

\* However long the chain of approvals a row came through, it wraps the symmetric
\* key its credential is under now, unless the credential began in the old format.
THEOREM SharedSymmetricKeyHolds == Spec => []SharedSymmetricKey
<1>1. SharedInv => SharedSymmetricKey
  BY DEF SharedInv
<1> QED BY <1>1, SharedInit, SharedNext, TypeInvariant, PTL DEF Spec
-----------------------------------------------------------------------------
(* QueryCache: what a page shows of the answers it has read *)

\* What excuses change v: nobody tells of it, or it is still being told of
Unreached(u) == u \in {"others", "lost", "overtaken"} \/ <<u, query>> \in Untold \/ \A a \in Pages : u \in Offers[a] => ~Mounted(a)
Telling(v) == \E m \in DOMAIN running : running[m] = v
Excusable(v) == Unreached(why[v]) \/ Telling(v)

\* The version of the data, those not there yet being of the start
Since == IF held = NoData THEN 0 ELSE held

\* The changes the data that are taken for good lack are excused
HeldFits == freshness # "invalid" /\ (held # NoData \/ query = "me") => \A v \in Since + 1 .. fact : Excusable(v)
\* and those an answer under way lacks
FetchFits == fetching.pc = "read" => fetching.version \in 0 .. fact /\ \A v \in fetching.version + 1 .. fact : Excusable(v)
\* Only a query that a page shows is under way
FetchedWhereShown == (fetching # Unasked => Mounted(at)) /\ (fetching.pc = "idle" => fetching = Unasked)
\* No data are ahead of the rows
HeldPast == held # NoData => held <= fact
\* The change a mutation under way has made is the last of its kind
OwnChanges ==
  \A m \in DOMAIN running :
    /\ m \in Mutations
    /\ running[m] \in {0, NotRun} \/
      /\ running[m] \in 1 .. fact /\ why[running[m]] \in {m, "overtaken", "lost"}
      /\ \A u \in running[m] + 1 .. fact : why[u] # m
\* Who made a change changes what the query reads
CausesChange == \A v \in 1 .. fact : why[v] \in {"others", "lost", "overtaken"} \/ (why[v] \in Mutations /\ query \in Changes[why[v]])
\* What is read is not older than what is held, but where a page writes the answer of a mutation itself
Later == query \notin {"settings", "me"} /\ held # NoData /\ fetching.pc = "read" => held <= fetching.version
\* What every step keeps
CacheInv == CacheTypeOK /\ HeldFits /\ FetchFits /\ FetchedWhereShown /\ HeldPast /\ OwnChanges /\ CausesChange /\ Later
\* The pages, one by one
TwelvePages == {"home", "database", "inbox", "groups", "workspace", "add", "requests", "vaultKey", "keyReset", "audit", "profile", "workbench"}

\* The pages, the mutations each offers, what each mutation changes and what it tells of.
LEMMA PagesAre == Pages = TwelvePages
  BY DEF Pages, Page, TwelvePages

\* The mutations each page offers.
LEMMA OfferedAre ==
  /\ Offers["home"] = {"requestAccess", "setupDemo", "clearDemo"}
  /\ Offers["database"] = {"updateDatabase", "updateAccount", "createAccount", "grantAccess"}
  /\ Offers["inbox"] = {"approveAccess", "denyAccess", "activateKey"}
  /\ Offers["groups"] = {"addMember", "removeMember", "createGroup", "updateGroup", "deleteGroup", "updateRole", "removeUser"}
  /\ Offers["workspace"] = {"updateSettings", "uploadImage"}
  /\ Offers["add"] = {"createDatabase"} /\ Offers["keyReset"] = {"createKey", "confirmKey"}
  /\ Offers["audit"] = {"updateSettings"} /\ Offers["profile"] = {"updateProfile", "uploadAvatar"}
  /\ Offers["requests"] = {} /\ Offers["vaultKey"] = {} /\ Offers["workbench"] = {}
  BY PagesAre DEF Offers, Page, TwelvePages, HomePage, DatabasePage, InboxPage, GroupsPage, WorkspaceDetailsPage

\* Every mutation is offered by a page.
LEMMA MutationsAre ==
  /\ Mutations = UNION {Offers[a] : a \in TwelvePages}
  /\ \A a \in TwelvePages : Offers[a] \subseteq Mutations
  <1>1. DOMAIN Offers = TwelvePages BY PagesAre DEF Offers
  <1> QED BY <1>1, Zenon DEF Mutations, Range

\* What the rows that each mutation changes are read by.
LEMMA ChangesAre ==
  /\ Changes["requestAccess"] = {"user-accounts", "account-access", "pending", "history"}
  /\ Changes["approveAccess"] = {"user-accounts", "account-access", "pending", "history"}
  /\ Changes["denyAccess"] = {"user-accounts", "account-access", "pending", "history"}
  /\ Changes["grantAccess"] = {"account-access", "user-accounts"}
  /\ Changes["createDatabase"] = {"databases", "user-accounts"}
  /\ Changes["updateDatabase"] = {"databases", "database", "workbench-account", "pending", "history"}
  /\ Changes["createAccount"] = {"database-accounts", "user-accounts"}
  /\ Changes["updateAccount"] = {"database-accounts", "workbench-account", "pending", "history"}
  /\ Changes["setupDemo"] = {"databases", "user-accounts"}
  /\ Changes["clearDemo"] = {"databases", "database", "database-accounts", "user-accounts", "account-access", "pending", "history", "workbench-account"}
  /\ Changes["addMember"] = {"groups-members", "user-accounts"}
  /\ Changes["removeMember"] = {"groups-members", "user-accounts"}
  /\ Changes["createGroup"] = {"groups-members"}
  /\ Changes["updateGroup"] = {"groups-members", "user-accounts", "account-access"}
  /\ Changes["deleteGroup"] = {"groups-members", "user-accounts", "account-access"}
  /\ Changes["updateRole"] = {"users", "groups-members", "me"}
  /\ Changes["removeUser"] = {"users", "groups-members", "me"}
  /\ Changes["createKey"] = {"keys-me"}
  /\ Changes["confirmKey"] = {"keys-me", "keys-pending", "me"}
  /\ Changes["activateKey"] = {"keys-pending"}
  /\ Changes["updateSettings"] = {"settings", "me"}
  /\ Changes["uploadImage"] = {"me"}
  /\ Changes["updateProfile"] = {"me", "users", "groups-members", "pending", "history"}
  /\ Changes["uploadAvatar"] = {"me", "users", "groups-members"}
  BY DEF Changes

\* The queries each mutation tells of its success.
LEMMA ToldAre ==
  /\ Told("requestAccess") = {"user-accounts"}
  /\ Told("approveAccess") = {"pending"}
  /\ Told("denyAccess") = {"pending"}
  /\ Told("grantAccess") = {"account-access"}
  /\ Told("createDatabase") = {"databases"}
  /\ Told("updateDatabase") = {"databases", "database"}
  /\ Told("createAccount") = {"database-accounts"}
  /\ Told("updateAccount") = {"database-accounts"}
  /\ Told("setupDemo") = {"databases"}
  /\ Told("clearDemo") = {"databases"}
  /\ Told("addMember") = {"groups-members"}
  /\ Told("removeMember") = {"groups-members"}
  /\ Told("createGroup") = {"groups-members"}
  /\ Told("updateGroup") = {"groups-members"}
  /\ Told("deleteGroup") = {"groups-members"}
  /\ Told("updateRole") = {"users"}
  /\ Told("removeUser") = {"users", "groups-members"}
  /\ Told("createKey") = {}
  /\ Told("confirmKey") = {"me"}
  /\ Told("activateKey") = {"keys-pending"}
  /\ Told("updateSettings") = {}
  /\ Told("uploadImage") = {"me"}
  /\ Told("updateProfile") = {}
  /\ Told("uploadAvatar") = {"me"}
  <1>1. DOMAIN GroupsTold = GroupsPage.offers
    BY DEF GroupsTold
  <1>2. DOMAIN AccessTold = {"requestAccess", "approveAccess", "denyAccess", "grantAccess"}
    BY DEF AccessTold
  <1>3. DOMAIN DatabasesTold = {"createDatabase", "updateDatabase", "createAccount", "updateAccount", "setupDemo", "clearDemo"}
    BY DEF DatabasesTold
  <1>4. DOMAIN KeysTold = {"createKey", "confirmKey", "activateKey"} /\ DOMAIN SettingsTold = {"updateSettings", "uploadImage"}
    BY DEF KeysTold, SettingsTold
  <1>5. DOMAIN GroupsTold = {"addMember", "removeMember", "createGroup", "updateGroup", "deleteGroup", "updateRole", "removeUser"}
    BY DEF GroupsTold, GroupsPage
  <1> DEFINE all == DOMAIN AccessTold \cup DOMAIN DatabasesTold \cup DOMAIN GroupsTold \cup DOMAIN KeysTold \cup DOMAIN SettingsTold
                    \cup {"updateProfile", "uploadAvatar"}
  <1>6. all \subseteq Mutations
    BY <1>2, <1>3, <1>4, <1>5, MutationsAre, OfferedAre DEF TwelvePages
  <1>7. /\ \A m \in DOMAIN AccessTold : Told(m) = AccessTold[m]
        /\ \A m \in DOMAIN DatabasesTold : Told(m) = DatabasesTold[m]
        /\ \A m \in DOMAIN GroupsTold : Told(m) = GroupsTold[m]
        /\ \A m \in DOMAIN KeysTold : Told(m) = KeysTold[m]
        /\ \A m \in DOMAIN SettingsTold : Told(m) = SettingsTold[m]
        /\ \A m \in {"updateProfile", "uploadAvatar"} : Told(m) = UserTold[m]
    <2>1. \A m \in DOMAIN AccessTold : Told(m) = AccessTold[m]
      BY <1>2, <1>3, <1>4, <1>5, <1>6 DEF Told, Invalidates
    <2>2. \A m \in DOMAIN DatabasesTold : Told(m) = DatabasesTold[m]
      BY <1>2, <1>3, <1>4, <1>5, <1>6 DEF Told, Invalidates
    <2>3. \A m \in DOMAIN GroupsTold : Told(m) = GroupsTold[m]
      BY <1>2, <1>3, <1>4, <1>5, <1>6 DEF Told, Invalidates
    <2>4. \A m \in DOMAIN KeysTold : Told(m) = KeysTold[m]
      BY <1>2, <1>3, <1>4, <1>5, <1>6 DEF Told, Invalidates
    <2>5. \A m \in DOMAIN SettingsTold : Told(m) = SettingsTold[m]
      BY <1>2, <1>3, <1>4, <1>5, <1>6 DEF Told, Invalidates
    <2>6. \A m \in {"updateProfile", "uploadAvatar"} : Told(m) = UserTold[m]
      BY <1>2, <1>3, <1>4, <1>5, <1>6 DEF Told, Invalidates
    <2> QED BY <2>1, <2>2, <2>3, <2>4, <2>5, <2>6
  <1>10. /\ Told("requestAccess") = {"user-accounts"}
        /\ Told("approveAccess") = {"pending"}
        /\ Told("denyAccess") = {"pending"}
        /\ Told("grantAccess") = {"account-access"}
    BY <1>7, <1>2 DEF AccessTold
  <1>11. /\ Told("createDatabase") = {"databases"}
        /\ Told("updateDatabase") = {"databases", "database"}
        /\ Told("createAccount") = {"database-accounts"}
        /\ Told("updateAccount") = {"database-accounts"}
        /\ Told("setupDemo") = {"databases"}
        /\ Told("clearDemo") = {"databases"}
    BY <1>7, <1>3 DEF DatabasesTold
  <1>12. /\ Told("addMember") = {"groups-members"}
        /\ Told("removeMember") = {"groups-members"}
        /\ Told("createGroup") = {"groups-members"}
        /\ Told("updateGroup") = {"groups-members"}
        /\ Told("deleteGroup") = {"groups-members"}
        /\ Told("updateRole") = {"users"}
        /\ Told("removeUser") = {"users", "groups-members"}
    BY <1>7, <1>5 DEF GroupsTold, GroupsPage
  <1>13. /\ Told("createKey") = {}
        /\ Told("confirmKey") = {"me"}
        /\ Told("activateKey") = {"keys-pending"}
    BY <1>7, <1>4 DEF KeysTold
  <1>14. /\ Told("updateSettings") = {}
        /\ Told("uploadImage") = {"me"}
    BY <1>7, <1>4 DEF SettingsTold
  <1>15. /\ Told("updateProfile") = {}
        /\ Told("uploadAvatar") = {"me"}
    BY <1>7, <1>5 DEF UserTold
  <1> QED BY <1>10, <1>11, <1>12, <1>13, <1>14, <1>15

\* The queries each page shows.
LEMMA ReadAre ==
  /\ ReadAt("home") = {"user-accounts", "databases", "database-accounts", "me", "pending", "keys-pending"}
  /\ ReadAt("database") = {"database", "database-accounts", "users", "groups-members", "account-access", "me", "databases", "pending", "keys-pending"}
  /\ ReadAt("inbox") = {"pending", "keys-pending", "users", "me", "databases"}
  /\ ReadAt("groups") = {"groups-members", "users", "me", "databases", "pending", "keys-pending"}
  /\ ReadAt("workspace") = {"settings", "me", "databases", "pending", "keys-pending"}
  /\ ReadAt("add") = {"me", "databases", "pending", "keys-pending"}
  /\ ReadAt("requests") = {"history", "me", "databases", "pending", "keys-pending"}
  /\ ReadAt("vaultKey") = {"keys-me", "me", "databases", "pending", "keys-pending"}
  /\ ReadAt("keyReset") = {"me"}
  /\ ReadAt("audit") = {"settings", "me", "databases", "pending", "keys-pending"}
  /\ ReadAt("profile") = {"me", "databases", "pending", "keys-pending"}
  /\ ReadAt("workbench") = {"workbench-account", "me"}
  BY PagesAre DEF ReadAt, Page, TwelvePages, HomePage, DatabasePage, InboxPage, GroupsPage, WorkspaceDetailsPage, LayoutReads, WithoutLayout

\* A page tells the queries it shows of what its own mutations change, but for those listed as
\* untold.
LEMMA ToldOfWhatIsShown ==
  ASSUME NEW a \in Pages, NEW m \in Offers[a], NEW k \in Changes[m], k \in ReadAt(a)
  PROVE  k \in Told(m) \/ k = Sets[m] \/ <<m, k>> \in Untold
  <1>1. m \in Mutations
    BY PagesAre, MutationsAre
  <1>2. (m = "updateSettings" => Sets[m] = "settings") /\ (m = "updateProfile" => Sets[m] = "me")
    BY <1>1 DEF Sets
  <1>3. CASE a = "home"
    BY <1>2, <1>3, OfferedAre, ReadAre, ChangesAre, ToldAre DEF Untold
  <1>4. CASE a = "database"
    BY <1>2, <1>4, OfferedAre, ReadAre, ChangesAre, ToldAre DEF Untold
  <1>5. CASE a = "inbox"
    BY <1>2, <1>5, OfferedAre, ReadAre, ChangesAre, ToldAre DEF Untold
  <1>6. CASE a = "groups"
    BY <1>2, <1>6, OfferedAre, ReadAre, ChangesAre, ToldAre DEF Untold
  <1>7. CASE a = "workspace"
    BY <1>2, <1>7, OfferedAre, ReadAre, ChangesAre, ToldAre DEF Untold
  <1>8. CASE a = "add"
    BY <1>2, <1>8, OfferedAre, ReadAre, ChangesAre, ToldAre DEF Untold
  <1>9. CASE a = "keyReset"
    BY <1>2, <1>9, OfferedAre, ReadAre, ChangesAre, ToldAre DEF Untold
  <1>10. CASE a = "audit"
    BY <1>2, <1>10, OfferedAre, ReadAre, ChangesAre, ToldAre DEF Untold
  <1>11. CASE a = "profile"
    BY <1>2, <1>11, OfferedAre, ReadAre, ChangesAre, ToldAre DEF Untold
  <1>12. CASE a = "requests"
    BY <1>2, <1>12, OfferedAre, ReadAre, ChangesAre, ToldAre DEF Untold
  <1>13. CASE a = "vaultKey"
    BY <1>2, <1>13, OfferedAre, ReadAre, ChangesAre, ToldAre DEF Untold
  <1>14. CASE a = "workbench"
    BY <1>2, <1>14, OfferedAre, ReadAre, ChangesAre, ToldAre DEF Untold
  <1> QED BY PagesAre, <1>3, <1>4, <1>5, <1>6, <1>7, <1>8, <1>9, <1>10, <1>11, <1>12, <1>13, <1>14 DEF TwelvePages

\* Two mutations write their own answer into a query.
LEMMA WrittenItself ==
  ASSUME NEW m \in Mutations
  PROVE  /\ Sets[m] = "settings" => m = "updateSettings"
         /\ Sets[m] = "me" => m = "updateProfile"
         /\ Sets[m] \in {"settings", "me", "none"}
  BY DEF Sets

\* The settings are changed by their own mutation only.
LEMMA SettingsChange ==
  ASSUME NEW m \in Mutations, "settings" \in Changes[m]
  PROVE  m = "updateSettings"
  <1>1. \E a \in TwelvePages : m \in Offers[a]
    BY MutationsAre
  <1> QED BY <1>1, OfferedAre, ChangesAre DEF TwelvePages

\* A query that is not under way, and one that was asked for.
LEMMA CacheFetches ==
  /\ Unasked.pc = "idle" /\ Unasked.version = NoData
  /\ [Unasked EXCEPT !.pc = "asked"].pc = "asked" /\ [Unasked EXCEPT !.pc = "asked"] # Unasked
  <1> DEFINE z == [pc |-> "idle", version |-> NoData]
  <1>1. z.pc = "idle" /\ z.version = NoData
    OBVIOUS
  <1>2. PICK c \in {"asked"} : c = "asked"
    OBVIOUS
  <1>3. PICK z0 : z0 = [pc |-> "idle", version |-> NoData]
    OBVIOUS
  <1>4. z0.pc = "idle" /\ [z0 EXCEPT !.pc = c].pc = c
    BY <1>3
  <1>5. [z0 EXCEPT !.pc = c].pc # z0.pc
    BY <1>4, <1>2
  <1> QED BY <1>1, <1>2, <1>3, <1>4, <1>5 DEF Unasked

\* A change that was excused stays so while its mutation runs.
LEMMA ExcusedStays ==
  ASSUME query' = query, NEW v, Excusable(v), why'[v] = why[v],
         \A m \in DOMAIN running : running[m] = v => m \in DOMAIN running' /\ running'[m] = v
  PROVE  Excusable(v)'
  BY DEF Excusable, Unreached, Telling, Mounted

\* A change made by others, lost or overtaken is excused.
LEMMA ExcusedNow ==
  ASSUME query' = query, NEW v, why'[v] \in {"others", "lost", "overtaken"}
  PROVE  Excusable(v)'
  BY DEF Excusable, Unreached

\* Every page shows me.
LEMMA MeIsShown == ASSUME NEW a \in Pages PROVE "me" \in ReadAt(a)
  BY DEF ReadAt

\* Every page with the layout shows what the layout reads.
LEMMA LayoutIsShown == ASSUME NEW a \in Pages, a \notin WithoutLayout, NEW k \in LayoutReads PROVE k \in ReadAt(a)
  BY DEF ReadAt

\* The invariant holds at the start.
LEMMA CacheStarts == CacheInit => CacheInv
  <1> SUFFICES ASSUME CacheInit PROVE CacheInv
    OBVIOUS
  <1> USE CacheAssumption
  <1>1. Len(why) = 0 /\ why \in Seq(Mutations \cup {"others", "lost", "overtaken"})
    BY DEF CacheInit
  <1>2. PICK chosen \in SUBSET Relevant : running = [m \in chosen |-> 0]
    BY DEF CacheInit
  <1>3. chosen \subseteq Mutations
    BY DEF Relevant
  <1>4. "requests" \in Pages
    BY PagesAre DEF TwelvePages
  <1>5. fetching.pc \in {"idle", "asked"} /\ (fetching # Unasked => Mounted(at)) /\ (fetching.pc = "idle" => fetching = Unasked)
    BY CacheFetches DEF CacheInit
  <1>6. CacheTypeOK
    BY <1>1, <1>2, <1>3, <1>4, <1>5 DEF CacheInit, CacheTypeOK, fact, NoData
  <1>7. HeldFits /\ HeldPast /\ OwnChanges /\ CausesChange
    BY <1>1, <1>2, <1>3 DEF CacheInit, HeldFits, HeldPast, OwnChanges, CausesChange, Since, fact
  <1>8. FetchFits /\ FetchedWhereShown /\ Later
    BY <1>5 DEF FetchFits, FetchedWhereShown, Later
  <1> QED BY <1>6, <1>7, <1>8 DEF CacheInv

\* Steps that leave the changes, and who made them, alone
LEMMA CacheChangesSame ==
  ASSUME query' = query, why' = why, running' = running
  PROVE  /\ fact' = fact /\ \A v : Excusable(v)' <=> Excusable(v)
         /\ OwnChanges' <=> OwnChanges
         /\ CausesChange' <=> CausesChange
  <1>1. fact' = fact
    BY DEF fact
  <1>2. ASSUME NEW v PROVE Excusable(v)' <=> Excusable(v)
    BY DEF Excusable, Unreached, Telling, Mounted
  <1>3. OwnChanges' <=> OwnChanges
    BY <1>1 DEF OwnChanges
  <1>4. CausesChange' <=> CausesChange
    BY <1>1 DEF CausesChange
  <1> QED BY <1>1, <1>2, <1>3, <1>4

\* The steps of the query: an answer never takes back what was shown.
LEMMA CacheAnswers ==
  ASSUME CacheInv, ApiReads \/ Answered \/ FetchingFails \/ Ages \/ Collected \/ Reconnects
  PROVE  CacheInv' /\ (held # NoData /\ held' # NoData /\ held' < held => query \in {"settings", "me"})
  <1> USE CacheAssumption
  <1>0. UNCHANGED <<query, why, at, running>>
    BY DEF ApiReads, Answered, FetchingFails, Ages, Collected, Reconnects
  <1>1. /\ fact' = fact /\ \A v : Excusable(v)' <=> Excusable(v)
        /\ OwnChanges' /\ CausesChange' /\ Mounted(at)' = Mounted(at)
    BY <1>0, CacheChangesSame DEF CacheInv, Mounted
  <1>2. fact \in Nat /\ fact <= MaxChanges /\ held \in 0 .. MaxChanges + 1
    BY DEF CacheInv, CacheTypeOK, fact, NoData, Versions
  <1>3. CacheTypeOK' <=> held' \in Versions \cup {NoData} /\ freshness' \in {"fresh", "aged", "invalid"} /\ fetching'.pc \in {"idle", "asked", "read"}
    BY <1>0 DEF CacheInv, CacheTypeOK, Versions, NoData
  <1>4. CASE ApiReads
    <2>1. fetching'.pc = "read" /\ fetching'.version = fact /\ UNCHANGED <<held, freshness>> /\ fetching.pc = "asked"
      BY <1>4 DEF ApiReads
    <2>2. Mounted(at)
      BY <2>1, CacheFetches DEF CacheInv, FetchedWhereShown
    <2>3. CacheTypeOK' /\ HeldFits' /\ HeldPast'
      BY <1>0, <1>1, <1>3, <2>1 DEF CacheInv, CacheTypeOK, HeldFits, HeldPast, Since, NoData, Versions
    <2>4. FetchFits' /\ FetchedWhereShown' /\ Later'
      BY <1>0, <1>1, <1>2, <2>1, <2>2 DEF CacheInv, FetchFits, FetchedWhereShown, Later, HeldPast, NoData
    <2> QED BY <1>1, <1>2, <2>1, <2>3, <2>4 DEF CacheInv
  <1>5. CASE Answered
    <2>1. fetching.pc = "read" /\ held' = fetching.version /\ freshness' = "fresh" /\ fetching' = Unasked
      BY <1>5 DEF Answered
    <2>2. held' \in 0 .. fact /\ \A v \in held' + 1 .. fact : Excusable(v)
      BY <2>1 DEF CacheInv, FetchFits
    <2>3. held' # NoData /\ NoData' = NoData
      BY <2>2, <1>2 DEF NoData
    <2>4. CacheTypeOK' /\ HeldFits' /\ HeldPast'
      BY <1>1, <1>2, <1>3, <2>1, <2>2, <2>3, CacheFetches DEF CacheInv, HeldFits, HeldPast, Since, Versions
    <2>5. FetchFits' /\ FetchedWhereShown' /\ Later'
      BY <2>1, CacheFetches DEF FetchFits, FetchedWhereShown, Later, Unasked, NoData
    <2>6. held # NoData /\ held' < held => query \in {"settings", "me"}
      BY <1>2, <2>1, <2>2 DEF CacheInv, Later
    <2> QED BY <1>1, <2>4, <2>5, <2>6 DEF CacheInv
  <1>6. CASE FetchingFails \/ Reconnects
    <2>1. UNCHANGED held /\ freshness' \in {freshness, "invalid"} /\ fetching' \in {Unasked, [Unasked EXCEPT !.pc = "asked"]} /\ (fetching' # Unasked => Mounted(at))
      BY <1>6 DEF FetchingFails, Reconnects
    <2>2. fetching'.pc \in {"idle", "asked"} /\ (fetching'.pc = "idle" => fetching' = Unasked) /\ Unasked' = Unasked
      BY <2>1, CacheFetches DEF Unasked, NoData
    <2>3. CacheTypeOK' /\ HeldFits' /\ HeldPast'
      BY <1>1, <1>3, <1>0, <2>1, <2>2 DEF CacheInv, CacheTypeOK, HeldFits, HeldPast, Since, NoData, Versions
    <2>4. FetchFits' /\ FetchedWhereShown' /\ Later'
      BY <1>1, <2>1, <2>2 DEF FetchFits, FetchedWhereShown, Later
    <2> QED BY <1>1, <1>2, <2>1, <2>3, <2>4 DEF CacheInv
  <1>7. CASE Ages \/ Collected
    <2>1. UNCHANGED fetching /\ freshness' \in {"fresh", "aged"}
      BY <1>7 DEF Ages, Collected
    <2>2. \/ UNCHANGED held /\ freshness = "fresh"
          \/ held' = NoData /\ query # "me"
      BY <1>7, MeIsShown DEF Ages, Collected, Mounted, CacheInv, CacheTypeOK
    <2>3. CacheTypeOK' /\ HeldFits' /\ HeldPast' /\ Later'
      BY <1>1, <1>3, <1>0, <2>1, <2>2 DEF CacheInv, CacheTypeOK, HeldFits, HeldPast, Since, NoData, Versions, Later
    <2>4. FetchFits' /\ FetchedWhereShown'
      BY <1>1, <2>1 DEF CacheInv, FetchFits, FetchedWhereShown, Unasked, NoData
    <2> QED BY <1>1, <1>2, <2>2, <2>3, <2>4 DEF CacheInv, NoData
  <1> QED BY <1>4, <1>5, <1>6, <1>7

\* A link leads to another page.
LEMMA CacheOpens ==
  ASSUME CacheInv, NEW a \in Followed, Open(a)
  PROVE  CacheInv' /\ held' = held
  <1> USE CacheAssumption
  <1>1. UNCHANGED <<query, why, held, freshness, running>> /\ at' = a
    BY DEF Open
  <1>2. a \in Pages
    BY PagesAre DEF Followed, TwelvePages
  <1>3. PICK kept \in {fetching, Unasked} :
          /\ kept = fetching /\ kept # Unasked => query = "me" \/ (query \in LayoutReads /\ {a, at} \cap WithoutLayout = {})
          /\ fetching' = IF Mounted(a) /\ Needed /\ kept = Unasked THEN [Unasked EXCEPT !.pc = "asked"] ELSE kept
    BY Zenon DEF Open
  <1>4. fetching' # Unasked => Mounted(a)
    BY <1>2, <1>3, MeIsShown, LayoutIsShown DEF Mounted
  <1>5. fetching' \in {fetching, Unasked, [Unasked EXCEPT !.pc = "asked"]}
    BY <1>3
  <1>6. fetching'.pc \in {"idle", "asked", "read"} /\ (fetching'.pc = "idle" => fetching' = Unasked) /\ Unasked' = Unasked
    BY <1>5, CacheFetches DEF CacheInv, CacheTypeOK, FetchedWhereShown, Unasked, NoData
  <1>7. fetching'.pc = "read" => fetching' = fetching
    BY <1>5, CacheFetches
  <1>8. /\ fact' = fact /\ \A v : Excusable(v)' <=> Excusable(v)
        /\ OwnChanges' /\ CausesChange' /\ Mounted(at)' = Mounted(a)
    BY <1>1, CacheChangesSame DEF CacheInv, Mounted
  <1>9. CacheTypeOK' /\ HeldFits' /\ HeldPast'
    BY <1>1, <1>2, <1>6, <1>8 DEF CacheInv, CacheTypeOK, HeldFits, HeldPast, Since, NoData, Versions
  <1>10. FetchFits' /\ FetchedWhereShown' /\ Later'
    BY <1>1, <1>4, <1>6, <1>7, <1>8 DEF CacheInv, FetchFits, FetchedWhereShown, Later, NoData
  <1> QED BY <1>1, <1>8, <1>9, <1>10 DEF CacheInv

\* A change is made, by others or by a mutation under way
LEMMA CacheChanges ==
  ASSUME CacheInv, OthersChange \/ \E m \in DOMAIN running : Mutate(m) \/ ApiRuns(m)
  PROVE  CacheInv' /\ held' = held
  <1> USE CacheAssumption
  <1>1. UNCHANGED <<query, at, held, freshness, fetching>> /\ DOMAIN running' = DOMAIN running
    BY DEF OthersChange, Mutate, ApiRuns
  <1>2. fact \in Nat /\ fact <= MaxChanges /\ why \in Seq(Mutations \cup {"others", "lost", "overtaken"}) /\ NoData = MaxChanges + 1
    BY DEF CacheInv, CacheTypeOK, fact, NoData
  <1>3. PICK by \in Mutations \cup {"others"} :
          /\ \/ why' = why
             \/ fact < MaxChanges /\ why' = Append(why, by)
          /\ \/ UNCHANGED running /\ (why' # why => by = "others")
             \/ /\ by \in DOMAIN running /\ running[by] = 0 /\ why' = why
                /\ running' = [running EXCEPT ![by] = NotRun]
             \/ /\ by \in DOMAIN running /\ running[by] = NotRun /\ query \in Changes[by] /\ fact < MaxChanges /\ why' = Append(why, by)
                /\ running' = [running EXCEPT ![by] = fact + 1]
    BY DEF OthersChange, Mutate, ApiRuns, CacheInv, OwnChanges
  <1>4. /\ fact' \in {fact, fact + 1} /\ fact' <= MaxChanges /\ \A v \in 1 .. fact : why'[v] = why[v]
        /\ fact' = fact + 1 => why'[fact + 1] = by
        /\ why' \in Seq(Mutations \cup {"others", "lost", "overtaken"})
        /\ why' = why => fact' = fact
        /\ why' = Append(why, by) => fact' = fact + 1
    BY <1>2, <1>3 DEF fact
  <1>5. ASSUME NEW v \in 1 .. fact, Excusable(v) PROVE Excusable(v)'
    <2>1. ASSUME NEW m \in DOMAIN running, running[m] = v PROVE running'[m] = v
      BY <2>1, <1>2, <1>3 DEF NotRun
    <2> QED BY <2>1, <1>1, <1>4, <1>5, ExcusedStays
  <1>a. PICK n : n = fact + 1
    OBVIOUS
  <1>6. fact' = fact + 1 => Excusable(n)'
    <2> SUFFICES ASSUME fact' = fact + 1 PROVE Excusable(n)'
      OBVIOUS
    <2>1. CASE by = "others"
      <3>1. why'[n] \in {"others", "lost", "overtaken"}
        BY <2>1, <1>4, <1>a
      <3> QED BY <3>1, <1>1, ExcusedNow
    <2>2. CASE by # "others"
      <3>1. by \in DOMAIN running' /\ running'[by] = n
        BY <2>2, <1>1, <1>2, <1>3, <1>4, <1>a
      <3> QED BY <3>1 DEF Excusable, Telling
    <2> QED BY <2>1, <2>2
  <1>7. \A v \in 1 .. fact' : (v = fact + 1 \/ Excusable(v)) => Excusable(v)'
    <2> TAKE v \in 1 .. fact'
    <2>1. v \in 1 .. fact \/ (v = n /\ fact' = fact + 1)
      BY <1>2, <1>4, <1>a
    <2> QED BY <2>1, <1>5, <1>6, <1>a, <1>2
  <1>8. CacheTypeOK'
    BY <1>1, <1>2, <1>3, <1>4 DEF CacheInv, CacheTypeOK, fact, NotRun, NoData, Versions
  <1>9. HeldFits' /\ HeldPast'
    BY <1>1, <1>2, <1>4, <1>7 DEF CacheInv, CacheTypeOK, HeldFits, HeldPast, Since, NoData, Versions
  <1>10. FetchFits' /\ FetchedWhereShown' /\ Later'
    BY <1>1, <1>2, <1>4, <1>7 DEF CacheInv, FetchFits, FetchedWhereShown, Later, Mounted, NoData, Unasked
  <1>11. CausesChange'
    <2> SUFFICES ASSUME NEW v \in 1 .. fact'
                 PROVE  why'[v] \in {"others", "lost", "overtaken"} \/ (why'[v] \in Mutations /\ query \in Changes[why'[v]])
      BY <1>1 DEF CausesChange
    <2>1. CASE v \in 1 .. fact
      BY <2>1, <1>4 DEF CacheInv, CausesChange
    <2>2. CASE v \notin 1 .. fact
      <3>1. fact' = fact + 1 /\ why'[v] = by /\ why' # why
        BY <2>2, <1>2, <1>4
      <3> QED BY <3>1, <1>3
    <2> QED BY <2>1, <2>2
  <1>12. OwnChanges'
    <2> SUFFICES ASSUME NEW m \in DOMAIN running
                 PROVE  \/ running'[m] \in {0, NotRun}
                        \/ /\ running'[m] \in 1 .. fact' /\ why'[running'[m]] \in {m, "overtaken", "lost"}
                           /\ \A u \in running'[m] + 1 .. fact' : why'[u] # m
      BY <1>1, <1>2 DEF CacheInv, OwnChanges, NotRun, NoData
    <2>0. "others" \notin Mutations /\ m \in Mutations
      BY MutationsAre, OfferedAre DEF TwelvePages, CacheInv, OwnChanges
    <2>1. CASE running'[m] = running[m]
      <3>1. CASE running[m] \in {0, NotRun}
        BY <3>1, <2>1
      <3>2. CASE running[m] \notin {0, NotRun}
        <4>1. /\ running[m] \in 1 .. fact /\ why[running[m]] \in {m, "overtaken", "lost"}
              /\ \A u \in running[m] + 1 .. fact : why[u] # m
          BY <3>2 DEF CacheInv, OwnChanges
        <4>2. fact' = fact + 1 => by # m
          BY <4>1, <3>2, <2>0, <1>2, <1>3, <1>4
        <4>3. running[m] \in 1 .. fact' /\ why'[running[m]] \in {m, "overtaken", "lost"}
          BY <4>1, <1>2, <1>4
        <4>4. ASSUME NEW u \in running[m] + 1 .. fact' PROVE why'[u] # m
          <5>1. u \in running[m] + 1 .. fact \/ (u = fact + 1 /\ fact' = fact + 1)
            BY <1>2, <1>4, <4>1
          <5> QED BY <5>1, <4>1, <4>2, <1>2, <1>4
        <4> QED BY <4>3, <4>4, <2>1
      <3> QED BY <3>1, <3>2
    <2>2. CASE running'[m] # running[m]
      BY <2>2, <1>2, <1>3, <1>4 DEF NotRun
    <2> QED BY <2>1, <2>2
  <1> QED BY <1>1, <1>8, <1>9, <1>10, <1>11, <1>12 DEF CacheInv

\* Marks on earlier changes leave the last change of a mutation its last.
LEMMA OwnChangesKept ==
  ASSUME OwnChanges, fact' = fact, fact \in Nat, DOMAIN running' = DOMAIN running,
         \A o \in DOMAIN running : running'[o] \in {running[o], 0},
         \A v \in 1 .. fact : why'[v] \in {why[v], "lost", "overtaken"},
         "lost" \notin Mutations, "overtaken" \notin Mutations
  PROVE  OwnChanges'
  <1> SUFFICES ASSUME NEW o \in DOMAIN running
               PROVE  /\ o \in Mutations
                      /\ \/ running'[o] \in {0, NotRun}
                         \/ /\ running'[o] \in 1 .. fact /\ why'[running'[o]] \in {o, "overtaken", "lost"}
                            /\ \A u \in running'[o] + 1 .. fact : why'[u] # o
    BY DEF OwnChanges, NotRun, NoData
  <1>1. o \in Mutations
    BY DEF OwnChanges
  <1>2. CASE running'[o] = 0
    BY <1>1, <1>2
  <1>3. CASE running'[o] = running[o] /\ running[o] \in {0, NotRun}
    BY <1>1, <1>3
  <1>4. CASE running'[o] = running[o] /\ running[o] \notin {0, NotRun}
    <2>1. /\ running[o] \in 1 .. fact /\ why[running[o]] \in {o, "overtaken", "lost"}
          /\ \A u \in running[o] + 1 .. fact : why[u] # o
      BY <1>4 DEF OwnChanges
    <2>2. why'[running[o]] \in {o, "overtaken", "lost"}
      BY <2>1
    <2>3. ASSUME NEW u \in running[o] + 1 .. fact PROVE why'[u] # o
      <3>1. u \in 1 .. fact /\ why[u] # o
        BY <2>1
      <3> QED BY <3>1, <1>1
    <2> QED BY <2>1, <2>2, <2>3, <1>1, <1>4
  <1> QED BY <1>2, <1>3, <1>4

\* A mutation fails, its change made or not.
LEMMA CacheFails ==
  ASSUME CacheInv, NEW m \in DOMAIN running, MutationFails(m)
  PROVE  CacheInv' /\ held' = held
  <1> USE CacheAssumption
  <1>1. UNCHANGED <<query, at, held, freshness, fetching>> /\ running' = [running EXCEPT ![m] = 0] /\ running[m] # 0
    BY DEF MutationFails
  <1>2. fact \in Nat /\ fact <= MaxChanges /\ why \in Seq(Mutations \cup {"others", "lost", "overtaken"}) /\ NoData = MaxChanges + 1
    BY DEF CacheInv, CacheTypeOK, fact, NoData
  <1>3. running[m] = NotRun \/ running[m] \in 1 .. fact
    BY <1>1 DEF CacheInv, OwnChanges
  <1>4. PICK lost \in {"lost"} : why' = IF running[m] = NotRun THEN why ELSE [why EXCEPT ![running[m]] = lost]
    BY DEF MutationFails
  <1>5. /\ why' \in Seq(Mutations \cup {"others", "lost", "overtaken"}) /\ fact' = fact
        /\ \A v \in 1 .. fact : why'[v] = (IF v = running[m] THEN lost ELSE why[v])
    <2>1. CASE running[m] = NotRun
      BY <2>1, <1>2, <1>4 DEF fact, NotRun
    <2>2. CASE running[m] \in 1 .. fact
      <3>1. why' = [why EXCEPT ![running[m]] = lost]
        BY <2>2, <1>2, <1>4 DEF NotRun
      <3> QED BY <3>1, <2>2, <1>2 DEF fact
    <2> QED BY <2>1, <2>2, <1>3
  <1>6. ASSUME NEW v \in 1 .. fact, Excusable(v) PROVE Excusable(v)'
    <2>1. CASE v = running[m]
      <3>1. why'[v] \in {"others", "lost", "overtaken"}
        BY <2>1, <1>5
      <3> QED BY <3>1, <1>1, ExcusedNow
    <2>2. CASE v # running[m]
      <3>1. why'[v] = why[v]
        BY <2>2, <1>5
      <3>2. \A o \in DOMAIN running : running[o] = v => o \in DOMAIN running' /\ running'[o] = v
        BY <2>2, <1>1
      <3> QED BY <3>1, <3>2, <1>1, <1>6, ExcusedStays
    <2> QED BY <2>1, <2>2
  <1>7. CacheTypeOK'
    BY <1>1, <1>2, <1>5 DEF CacheInv, CacheTypeOK, fact, NoData, Versions
  <1>8. HeldFits' /\ HeldPast'
    BY <1>1, <1>2, <1>5, <1>6 DEF CacheInv, CacheTypeOK, HeldFits, HeldPast, Since, NoData, Versions
  <1>9. FetchFits' /\ FetchedWhereShown' /\ Later'
    BY <1>1, <1>2, <1>5, <1>6 DEF CacheInv, FetchFits, FetchedWhereShown, Later, Mounted, NoData, Unasked
  <1>10. CausesChange' /\ OwnChanges'
    <2>0. "lost" \notin Mutations /\ "overtaken" \notin Mutations
      BY MutationsAre, OfferedAre DEF TwelvePages
    <2>1. CausesChange'
      BY <1>1, <1>2, <1>5 DEF CacheInv, CausesChange
    <2>2. OwnChanges'
      <3>1. OwnChanges
        BY DEF CacheInv
      <3>2. DOMAIN running' = DOMAIN running /\ \A o \in DOMAIN running : running'[o] \in {running[o], 0}
        BY <1>1
      <3>3. \A v \in 1 .. fact : why'[v] \in {why[v], "lost", "overtaken"}
        BY <1>5
      <3> QED BY <3>1, <3>2, <3>3, <2>0, <1>2, <1>5, OwnChangesKept
    <2> QED BY <2>1, <2>2
  <1> QED BY <1>1, <1>7, <1>8, <1>9, <1>10 DEF CacheInv

\* A success tells of the change, writes the query's data, or is not of the query
LEMMA CacheSucceeds ==
  ASSUME CacheInv, NEW m \in DOMAIN running, MutationSucceeds(m)
  PROVE  CacheInv' /\ (held # NoData /\ held' # NoData /\ held' < held => query \in {"settings", "me"})
  <1> USE CacheAssumption
  <1>1. UNCHANGED <<query, at>> /\ running' = [running EXCEPT ![m] = 0] /\ running[m] \in 1 .. fact /\ m \in Mutations
    BY DEF MutationSucceeds, CacheInv, OwnChanges
  <1>2. fact \in Nat /\ fact <= MaxChanges /\ why \in Seq(Mutations \cup {"others", "lost", "overtaken"}) /\ NoData = MaxChanges + 1
    BY DEF CacheInv, CacheTypeOK, fact, NoData
  <1>3. PICK w : w = running[m]
    OBVIOUS
  <1>4. w \in 1 .. fact /\ why[w] \in {m, "overtaken", "lost"} /\ \A u \in w + 1 .. fact : why[u] # m
    BY <1>1, <1>2, <1>3 DEF CacheInv, OwnChanges, NotRun, NoData
  <1>5. "lost" \notin Mutations /\ "overtaken" \notin Mutations /\ "others" \notin Mutations
    BY MutationsAre, OfferedAre DEF TwelvePages
  <1>6. why[w] = m => query \in Changes[m]
    BY <1>1, <1>4, <1>5 DEF CacheInv, CausesChange
  \* What any of them does to who made the changes
  <1>7. ASSUME /\ fact' = fact /\ why' \in Seq(Mutations \cup {"others", "lost", "overtaken"})
               /\ \A v \in 1 .. fact : why'[v] = why[v] \/ why'[v] = "overtaken"
        PROVE  /\ CausesChange' /\ OwnChanges'
               /\ \A v \in 1 .. fact : v # w /\ Excusable(v) => Excusable(v)'
               /\ \A v \in 1 .. fact : why'[v] = "overtaken" => Excusable(v)'
    <2>1. CausesChange'
      BY <1>1, <1>7 DEF CacheInv, CausesChange
    <2>2. OwnChanges'
      <3>1. OwnChanges
        BY DEF CacheInv
      <3>2. DOMAIN running' = DOMAIN running /\ \A o \in DOMAIN running : running'[o] \in {running[o], 0}
        BY <1>1
      <3>3. \A v \in 1 .. fact : why'[v] \in {why[v], "lost", "overtaken"}
        BY <1>7
      <3> QED BY <3>1, <3>2, <3>3, <1>2, <1>5, <1>7, OwnChangesKept
    <2>3. ASSUME NEW v \in 1 .. fact, why'[v] = "overtaken" PROVE Excusable(v)'
      <3>1. why'[v] \in {"others", "lost", "overtaken"}
        BY <2>3
      <3> QED BY <3>1, <1>1, ExcusedNow
    <2>4. ASSUME NEW v \in 1 .. fact, v # w, Excusable(v) PROVE Excusable(v)'
      <3>1. CASE why'[v] = why[v]
        <4>1. \A o \in DOMAIN running : running[o] = v => o \in DOMAIN running' /\ running'[o] = v
          BY <2>4, <1>1, <1>3
        <4> QED BY <4>1, <3>1, <1>1, <2>4, ExcusedStays
      <3>2. CASE why'[v] # why[v]
        BY <3>2, <1>7, <2>3
      <3> QED BY <3>1, <3>2
    <2> QED BY <2>1, <2>2, <2>3, <2>4
  <1>8. running' = [running EXCEPT ![m] = 0] /\ \A o \in DOMAIN running' : running'[o] \in {0} \cup 1 .. NoData
    BY <1>1, <1>2 DEF CacheInv, CacheTypeOK
  <1>9. CASE query \in Told(m) /\ Invalidate(m)
    <2>1. /\ freshness' = "invalid" /\ held' = held
          /\ fetching' = IF Mounted(at) /\ (held # NoData \/ fetching = Unasked) THEN [Unasked EXCEPT !.pc = "asked"] ELSE fetching
      BY <1>9 DEF Invalidate
    <2>2. PICK over \in {"overtaken"} : why' = IF held = NoData /\ fetching.pc = "read" THEN [why EXCEPT ![w] = over] ELSE why
      BY <1>3, <1>9 DEF Invalidate
    <2>3. /\ fact' = fact /\ why' \in Seq(Mutations \cup {"others", "lost", "overtaken"})
          /\ \A v \in 1 .. fact : why'[v] = why[v] \/ why'[v] = "overtaken"
          /\ held = NoData /\ fetching.pc = "read" => why'[w] = "overtaken"
      BY <2>2, <1>2, <1>4 DEF fact
    <2>4. /\ CausesChange' /\ OwnChanges'
          /\ \A v \in 1 .. fact : v # w /\ Excusable(v) => Excusable(v)'
          /\ \A v \in 1 .. fact : why'[v] = "overtaken" => Excusable(v)'
      BY <2>3, <1>7
    <2>5. fetching' \in {fetching, [Unasked EXCEPT !.pc = "asked"]} /\ (fetching' # Unasked => Mounted(at))
      BY <2>1 DEF CacheInv, FetchedWhereShown
    <2>6. fetching'.pc = "read" => fetching' = fetching /\ held = NoData
      <3>1. fetching'.pc = "read" => fetching' = fetching /\ fetching # Unasked /\ fetching' # [Unasked EXCEPT !.pc = "asked"]
        BY <2>5, CacheFetches
      <3>2. fetching # Unasked => Mounted(at)
        BY DEF CacheInv, FetchedWhereShown
      <3> QED BY <3>1, <3>2, <2>1
    <2>7. fetching'.pc \in {"idle", "asked", "read"} /\ (fetching'.pc = "idle" => fetching' = Unasked) /\ Unasked' = Unasked
      BY <2>5, CacheFetches DEF CacheInv, CacheTypeOK, FetchedWhereShown, Unasked, NoData
    <2>8. CacheTypeOK' /\ HeldFits' /\ HeldPast'
      BY <1>1, <1>2, <1>8, <2>1, <2>3, <2>7 DEF CacheInv, CacheTypeOK, HeldFits, HeldPast, fact, NoData, Versions
    <2>9. FetchFits'
      <3> SUFFICES ASSUME fetching'.pc = "read" PROVE fetching'.version \in 0 .. fact /\ \A v \in fetching'.version + 1 .. fact : Excusable(v)'
        BY <2>3 DEF FetchFits
      <3>1. fetching.version \in 0 .. fact /\ \A v \in fetching.version + 1 .. fact : Excusable(v)
        BY <2>6 DEF CacheInv, FetchFits
      <3>2. why'[w] = "overtaken"
        BY <2>3, <2>6
      <3> QED BY <3>1, <3>2, <2>4, <2>6, <1>2, <1>4
    <2>10. FetchedWhereShown' /\ Later'
      BY <1>1, <2>1, <2>5, <2>6, <2>7 DEF FetchedWhereShown, Later, Mounted, NoData
    <2> QED BY <2>1, <2>4, <2>8, <2>9, <2>10, <1>2 DEF CacheInv, CacheTypeOK, Versions
  <1>10. CASE query = Sets[m] /\ SetData(m)
    <2>1. /\ held' = w /\ freshness' = "fresh" /\ fetching' = fetching
          /\ why' = [u \in DOMAIN why |->
               IF \/ u <= w /\ fetching.pc = "read" /\ fetching.version < u
                  \/ w < u /\ (freshness = "invalid" \/ (held # NoData /\ u <= held))
               THEN "overtaken" ELSE why[u]]
      BY <1>3, <1>10 DEF SetData
    <2>2. PICK over \in {"overtaken"} :
            why' = [u \in 1 .. fact |->
               IF \/ u <= w /\ fetching.pc = "read" /\ fetching.version < u
                  \/ w < u /\ (freshness = "invalid" \/ (held # NoData /\ u <= held))
               THEN over ELSE why[u]]
      BY <2>1, <1>2 DEF fact
    <2>3. why' \in Seq(Mutations \cup {"others", "lost", "overtaken"}) /\ fact' = fact
      <3>1. why' \in [1 .. fact -> Mutations \cup {"others", "lost", "overtaken"}]
        BY <2>2, <1>2 DEF fact
      <3>2. why' \in Seq(Mutations \cup {"others", "lost", "overtaken"})
        BY <3>1, <1>2
      <3> QED BY <3>1, <3>2, <1>2 DEF fact
    <2>4. \A v \in 1 .. fact : why'[v] = why[v] \/ why'[v] = "overtaken"
      BY <2>2
    <2>5. /\ CausesChange' /\ OwnChanges'
          /\ \A v \in 1 .. fact : v # w /\ Excusable(v) => Excusable(v)'
          /\ \A v \in 1 .. fact : why'[v] = "overtaken" => Excusable(v)'
      BY <2>3, <2>4, <1>7
    <2>6. query \in {"settings", "me"} /\ (query = "settings" => m = "updateSettings")
      <3>1. query \in QueryKeys /\ "none" \notin QueryKeys
        BY DEF CacheInv, CacheTypeOK, QueryKeys, AccessQueries, DatabaseQueries, GroupQueries, KeyQueries
      <3> QED BY <3>1, <1>1, <1>10, WrittenItself
    <2>7. ASSUME NEW u \in w + 1 .. fact PROVE Excusable(u)'
      <3>0. u \in 1 .. fact /\ u # w /\ w < u
        BY <1>4, <1>2
      <3>1. CASE freshness = "invalid" \/ (held # NoData /\ u <= held)
        BY <3>0, <3>1, <2>2, <2>5
      <3>2. CASE freshness # "invalid" /\ held # NoData /\ ~(u <= held)
        <4>1. u \in Since + 1 .. fact
          BY <3>2, <3>0, <1>2 DEF CacheInv, CacheTypeOK, Since, Versions
        <4> QED BY <4>1, <3>2, <3>0, <2>5 DEF CacheInv, HeldFits
      <3>3. CASE freshness # "invalid" /\ held = NoData /\ query = "me"
        <4>1. u \in Since + 1 .. fact
          BY <3>3, <3>0, <1>2 DEF Since
        <4> QED BY <4>1, <3>3, <3>0, <2>5 DEF CacheInv, HeldFits
      <3>4. CASE query = "settings"
        <4>1. why[u] \in {"others", "lost", "overtaken"} \/ (why[u] \in Mutations /\ query \in Changes[why[u]])
          BY <3>0 DEF CacheInv, CausesChange
        <4>2. why[u] # m
          BY <1>4
        <4>3. why[u] \in {"others", "lost", "overtaken"}
          BY <4>1, <4>2, <3>4, <2>6, SettingsChange
        <4>4. Excusable(u)
          BY <4>3 DEF Excusable, Unreached
        <4> QED BY <4>4, <3>0, <2>5
      <3> QED BY <3>1, <3>2, <3>3, <3>4, <2>6
    <2>8. CacheTypeOK' /\ HeldPast' /\ held' # NoData'
      BY <1>1, <1>2, <1>4, <1>8, <2>1, <2>3 DEF CacheInv, CacheTypeOK, HeldPast, fact, NoData, Versions
    <2>9. HeldFits'
      BY <2>1, <2>3, <2>7, <2>8 DEF HeldFits, Since
    <2>10. FetchFits'
      <3> SUFFICES ASSUME fetching.pc = "read" PROVE fetching.version \in 0 .. fact /\ \A v \in fetching.version + 1 .. fact : Excusable(v)'
        BY <2>1, <2>3 DEF FetchFits
      <3>1. fetching.version \in 0 .. fact /\ \A v \in fetching.version + 1 .. fact : Excusable(v)
        BY DEF CacheInv, FetchFits
      <3>2. ASSUME NEW v \in fetching.version + 1 .. fact PROVE Excusable(v)'
        <4>1. v \in 1 .. fact /\ fetching.version < v
          BY <3>1, <1>2
        <4>2. CASE v <= w
          BY <4>1, <4>2, <2>2, <2>5
        <4>3. CASE ~(v <= w)
          BY <4>1, <4>3, <3>1, <1>4, <1>2, <2>5
        <4> QED BY <4>2, <4>3
      <3> QED BY <3>1, <3>2
    <2>11. FetchedWhereShown' /\ Later'
      BY <1>1, <2>1, <2>6 DEF CacheInv, FetchedWhereShown, Later, Mounted, Unasked, NoData
    <2> QED BY <2>5, <2>6, <2>8, <2>9, <2>10, <2>11 DEF CacheInv
  <1>11. CASE query \notin Told(m) \cup {Sets[m]} /\ UNCHANGED <<why, held, freshness, fetching>>
    <2>1. UNCHANGED <<why, held, freshness, fetching>> /\ fact' = fact
      BY <1>11 DEF fact
    <2>2. /\ CausesChange' /\ OwnChanges'
          /\ \A v \in 1 .. fact : v # w /\ Excusable(v) => Excusable(v)'
      BY <2>1, <1>2, <1>7
    <2>3. Excusable(w)'
      <3>1. CASE why[w] \in {"overtaken", "lost"}
        <4>1. why'[w] \in {"others", "lost", "overtaken"}
          BY <3>1, <2>1
        <4> QED BY <4>1, <1>1, ExcusedNow
      <3>2. CASE why[w] = m
        <4>1. \/ <<m, query>> \in Untold
              \/ \A a \in Pages : m \in Offers[a] => query \notin ReadAt(a)
          BY <3>2, <1>6, <1>11, ToldOfWhatIsShown
        <4>2. why'[w] = m /\ query' = query
          BY <3>2, <1>1, <2>1
        <4>3. Unreached(m)'
          BY <4>1, <4>2 DEF Unreached, Mounted
        <4> QED BY <4>2, <4>3 DEF Excusable
      <3> QED BY <3>1, <3>2, <1>4
    <2>4. \A v \in 1 .. fact : Excusable(v) => Excusable(v)'
      BY <2>2, <2>3
    <2>5. CacheTypeOK' /\ HeldPast'
      BY <1>1, <1>2, <1>8, <2>1 DEF CacheInv, CacheTypeOK, HeldPast, NoData, Versions
    <2>6. HeldFits'
      BY <1>1, <1>2, <2>1, <2>4 DEF CacheInv, CacheTypeOK, HeldFits, Since, NoData, Versions
    <2>7. FetchFits' /\ FetchedWhereShown' /\ Later'
      BY <1>1, <1>2, <2>1, <2>4 DEF CacheInv, FetchFits, FetchedWhereShown, Later, Mounted, NoData, Unasked
    <2>8. ~(held' < held)
      BY <2>1, <1>2 DEF CacheInv, CacheTypeOK, Versions
    <2> QED BY <2>2, <2>5, <2>6, <2>7, <2>8 DEF CacheInv
  <1>12. \/ query \in Told(m) /\ Invalidate(m)
         \/ query = Sets[m] /\ SetData(m)
         \/ query \notin Told(m) \cup {Sets[m]} /\ UNCHANGED <<why, held, freshness, fetching>>
    BY DEF MutationSucceeds
  <1> QED BY <1>9, <1>10, <1>11, <1>12

\* A step of another part.
LEMMA CacheStays ==
  ASSUME CacheInv, UNCHANGED cacheVars
  PROVE  CacheInv' /\ ~(held' < held /\ held' # held)
  <1>1. UNCHANGED <<query, why, at, held, freshness, fetching, running>>
    BY DEF cacheVars
  <1>2. /\ fact' = fact /\ \A v : Excusable(v)' <=> Excusable(v)
        /\ OwnChanges' /\ CausesChange'
    BY <1>1, CacheChangesSame DEF CacheInv
  <1>3. CacheTypeOK' /\ HeldFits' /\ HeldPast'
    BY <1>1, <1>2 DEF CacheInv, CacheTypeOK, HeldFits, HeldPast, Since, NoData, Versions
  <1>4. FetchFits' /\ FetchedWhereShown' /\ Later'
    BY <1>1, <1>2 DEF CacheInv, FetchFits, FetchedWhereShown, Later, Mounted, NoData, Unasked
  <1> QED BY <1>1, <1>2, <1>3, <1>4 DEF CacheInv

\* Every step of the query, of a page or of a mutation keeps the invariant.
LEMMA CacheSteps ==
  ASSUME CacheInv, [CacheNext]_cacheVars
  PROVE  CacheInv' /\ (held # NoData /\ held' # NoData /\ held' < held => query \in {"settings", "me"})
  <1>0. held \in Nat
    BY CacheAssumption DEF CacheInv, CacheTypeOK, Versions, NoData
  <1>1. CASE UNCHANGED cacheVars
    <2>1. held' = held
      BY <1>1 DEF cacheVars
    <2> QED BY <1>0, <1>1, <2>1, CacheStays
  <1>2. CASE ApiReads \/ Answered \/ FetchingFails \/ Ages \/ Collected \/ Reconnects
    BY <1>2, CacheAnswers
  <1>3. CASE OthersChange \/ \E m \in DOMAIN running : Mutate(m) \/ ApiRuns(m)
    BY <1>0, <1>3, CacheChanges
  <1>4. CASE \E a \in Followed : Open(a)
    BY <1>0, <1>4, CacheOpens
  <1>5. CASE \E m \in DOMAIN running : MutationFails(m)
    BY <1>0, <1>5, CacheFails
  <1>6. CASE \E m \in DOMAIN running : MutationSucceeds(m)
    BY <1>6, CacheSucceeds
  <1> QED BY <1>1, <1>2, <1>3, <1>4, <1>5, <1>6 DEF CacheNext

\* The invariant shows that what a page holds for good lacks no change but an excused one.
LEMMA CacheShows == CacheInv => CacheTypeOK /\ ShowsForCause
  <1> SUFFICES ASSUME CacheInv PROVE ShowsForCause
    BY DEF CacheInv
  <1> SUFFICES ASSUME held # NoData, freshness # "invalid", NEW v \in held + 1 .. fact
               PROVE  Excusable(v)
    BY DEF ShowsForCause, Excusable, Unreached, Telling
  <1> QED BY DEF CacheInv, HeldFits, Since

\* What a page holds for good lacks no change it knows to have been made, but for what is named,
\* and what was shown is not taken back by an answer that is older.
THEOREM CacheHolds == CacheSpec => [](CacheTypeOK /\ ShowsForCause) /\ NeverBack
  <1>1. CacheInit => CacheInv
    BY CacheStarts
  <1>2. CacheInv /\ [CacheNext]_cacheVars => CacheInv'
    BY CacheSteps
  <1>3. CacheInv /\ [CacheNext]_cacheVars => [held # NoData /\ held' # NoData /\ held' < held => query \in {"settings", "me"}]_cacheVars
    BY CacheSteps
  <1>4. CacheSpec => []CacheInv
    BY <1>1, <1>2, PTL DEF CacheSpec
  <1> QED BY <1>1, <1>2, <1>3, <1>4, CacheShows, PTL DEF CacheSpec, NeverBack
-----------------------------------------------------------------------------
(* WebSession: a tab and its session *)

\* Nothing but this tab's own session has been at work
OwnSession == cause \cap {"elsewhere", "late", "overtaken"} = {}
\* A first answer that is awaited, and nothing known without a token
Asking ==
  /\ me.asked # Off /\ me.data = NoToken => me.error = "none"
  /\ ~tab.has => identity = Unread /\ (me = Unread \/ ~OwnSession)
  /\ tab.detected => identity.data # NoToken \/ me.asked = Off
Noticing == tab.has = (tab.last # NoToken) /\ (noticed => token = tab.last)

\* While only this session has been at work, what is known of the user is of its token, and who
\* signs in without a workspace is known by the token before it
OfSession ==
  OwnSession =>
    /\ me.data \in {NoToken, token}
    /\ me.asked \in {Off, token} \/ (token = NoToken /\ grade[me.asked] # "workspace")
    /\ me.error = "refused" /\ token # NoToken => grade[token] # "workspace"
    /\ \A t \in Tokens \cap {identity.data, identity.asked} : grade[t] # "workspace" /\ token \in {t, NoToken}
\* the rows that are shown, or awaited, are of it too
OfRows ==
  OwnSession /\ (rows.data # NoToken \/ rows.asked # Off) =>
    /\ token # NoToken /\ me.data = token /\ tab.page # "login"
    /\ rows.data \in {NoToken, token} /\ rows.asked \in {Off, token}
\* Once the tab has noticed the token, what it asks and knows is of that token, but for what came late
OfToken ==
  noticed /\ tab.has /\ cause \cap {"late", "overtaken"} = {} =>
    /\ me.asked \in {Off, token}
    /\ me.data # NoToken /\ me.error = "none" /\ me.asked = Off => me.data = token
    /\ me.data = NoToken /\ me.error = "refused" => grade[token] # "workspace"
    /\ identity.data \in {NoToken, token} /\ identity.asked \in {Off, token}
\* The passphrase in the storage, and the one the vault was opened with, are of the session
OfPassphrase == cause = {} => stored \in {NoToken, token} /\ tab.vault \in {NoToken, stored}
\* No other tab having been at work, the identity asked for is the one there is
OfIdentity ==
  "elsewhere" \notin cause /\ token # NoToken =>
    identity.asked \in {Off, token} /\ (identity.error = "refused" => grade[token] = "gone")
\* The profile is of the session it was begun in
OfProfile ==
  errand.profile # Off /\ OwnSession =>
    tab.has /\ me.data # NoToken /\ token # NoToken /\ tab.page # "login"
\* What every step keeps
SessInv == SessionTypeOK /\ Asking /\ Noticing /\ OfSession /\ OfRows /\ OfToken /\ OfPassphrase /\ OfIdentity /\ OfProfile

\* The values that stand for no token and for no errand are none of the tokens.
LEMMA Marks == NoToken # Off /\ NoToken \notin Tokens /\ Off \notin Tokens
  BY SessionAssumption DEF NoToken, Off, Tokens

\* The bound of the steps of other tabs is a number.
LEMMA SomeOutside == MaxOutside \in Nat
  BY SessionAssumption

\* What the fields of a reading are once it has been dropped, asked for, has failed or was answered.
LEMMA UnreadFields == Unread \in Reading /\ Unread.data = NoToken /\ Unread.error = "none" /\ Unread.asked = Off
  <1>1. PICK e \in {"none", "refused", "other"} : e = "none"
    OBVIOUS
  <1>2. PICK u : u = [data |-> NoToken, error |-> e, asked |-> Off]
    OBVIOUS
  <1>3. u \in Reading /\ u.data = NoToken /\ u.error = e /\ u.asked = Off
    BY <1>2 DEF Reading
  <1>4. u = Unread
    BY <1>1, <1>2, Zenon DEF Unread
  <1> QED BY <1>1, <1>3, <1>4

LEMMA AskFields ==
  ASSUME NEW r \in Reading, token \in Tokens \cup {NoToken}
  PROVE  /\ Ask(r) \in Reading /\ Ask(r).data = r.data /\ Ask(r).asked = token
         /\ Ask(r).error = IF r.data = NoToken THEN "none" ELSE r.error
  <1>1. PICK e \in {"none", "refused", "other"} : e = IF r.data = NoToken THEN "none" ELSE r.error
    BY DEF Reading
  <1>2. PICK n : n = [r EXCEPT !.asked = token, !.error = e]
    OBVIOUS
  <1>3. n \in Reading /\ n.data = r.data /\ n.asked = token /\ n.error = e
    BY <1>2 DEF Reading
  <1>4. n = Ask(r)
    BY <1>1, <1>2, Zenon DEF Ask
  <1> QED BY <1>1, <1>3, <1>4

LEMMA FailedFields ==
  ASSUME NEW r \in Reading, NEW e \in {"none", "refused", "other"}
  PROVE  /\ Failed(r, e) \in Reading /\ Failed(r, e).data = r.data /\ Failed(r, e).asked = Off
         /\ Failed(r, e).error = e
  BY DEF Reading, Failed

LEMMA ReadByFields ==
  ASSUME NEW r \in Reading, r.asked \in Tokens
  PROVE  /\ ReadBy(r) \in Reading /\ ReadBy(r).data = r.asked /\ ReadBy(r).asked = Off
         /\ ReadBy(r).error = "none"
  <1>1. PICK e \in {"none", "refused", "other"} : e = "none"
    OBVIOUS
  <1>2. PICK n : n = [data |-> r.asked, error |-> e, asked |-> Off]
    OBVIOUS
  <1>3. n \in Reading /\ n.data = r.asked /\ n.asked = Off /\ n.error = e
    BY <1>2 DEF Reading
  <1>4. n = ReadBy(r)
    BY <1>1, <1>2, Zenon DEF ReadBy
  <1> QED BY <1>1, <1>3, <1>4

LEMMA AnswerIs ==
  ASSUME NEW r \in Reading, r.asked # Off, NEW grades, NEW a \in Answers(r, grades)
  PROVE  /\ a \in Reading /\ a.asked = Off
         /\ \/ a.data = r.asked /\ a.error = "none" /\ r.asked \in Tokens /\ grade[r.asked] \in grades
            \/ a.data = r.data /\ a.error = "refused" /\ (r.asked = NoToken \/ grade[r.asked] \notin grades)
            \/ a.data = r.data /\ a.error = "other"
  <1>1. r.asked \in Tokens \cup {NoToken}
    BY DEF Reading
  <1>2. PICK f \in {"refused"}, o \in {"other"} :
          a = (IF r.asked # NoToken /\ grade[r.asked] \in grades THEN ReadBy(r) ELSE Failed(r, f)) \/ a = Failed(r, o)
    BY DEF Answers
  <1>3. CASE a = Failed(r, o)
    BY <1>2, <1>3, FailedFields
  <1>4. CASE a = ReadBy(r) /\ r.asked # NoToken /\ grade[r.asked] \in grades
    BY <1>1, <1>4, ReadByFields
  <1>5. CASE a = Failed(r, f) /\ ~(r.asked # NoToken /\ grade[r.asked] \in grades)
    BY <1>2, <1>5, FailedFields
  <1> QED BY <1>2, <1>3, <1>4, <1>5

\* The states of a tab
TabOf == [page : SessionPages, has : BOOLEAN, last : Tokens \cup {NoToken}, detected : BOOLEAN, vault : Tokens \cup {NoToken}]

\* What a tab is once a page has been loaded.
LEMMA LoadedFields ==
  ASSUME NEW pg \in SessionPages, NEW t \in Tokens \cup {NoToken}, NEW pp \in Tokens \cup {NoToken}
  PROVE  /\ Loaded(pg, t, pp) \in TabOf
         /\ Loaded(pg, t, pp).has = (t # NoToken) /\ Loaded(pg, t, pp).last = t /\ ~Loaded(pg, t, pp).detected
         /\ Loaded(pg, t, pp).vault = pp /\ Loaded(pg, t, pp).page = pg
  <1>1. PICK h \in BOOLEAN : h = (t # NoToken)
    OBVIOUS
  <1>2. PICK d \in BOOLEAN : d = FALSE
    OBVIOUS
  <1>3. PICK n : n = [page |-> pg, has |-> h, last |-> t, detected |-> d, vault |-> pp]
    OBVIOUS
  <1>4. n \in TabOf /\ n.has = h /\ n.last = t /\ n.detected = d /\ n.vault = pp /\ n.page = pg
    BY <1>3 DEF TabOf
  <1>5. n = Loaded(pg, t, pp)
    BY <1>1, <1>2, <1>3, Zenon DEF Loaded
  <1> QED BY <1>1, <1>2, <1>4, <1>5

\* The type of the state, by its parts.
LEMMA SessTyped == SessionTypeOK =>
  /\ token \in Tokens \cup {NoToken} /\ stored \in Tokens \cup {NoToken} /\ modal \in BOOLEAN /\ noticed \in BOOLEAN
  /\ tab \in TabOf /\ me \in Reading /\ identity \in Reading /\ rows \in Reading
  BY DEF SessionTypeOK, TabOf

\* No errand is under way in a tab that was just loaded.
LEMMA NothingAsked == NoErrands \in [Errands -> Tokens \cup {NoToken, Off}] /\ NoErrands["profile"] = Off
  BY DEF NoErrands, Errands

\* The invariant holds at the start.
LEMMA SessStarts == SessionInit => SessInv
  <1> SUFFICES ASSUME SessionInit PROVE SessInv
    OBVIOUS
  <1>1. /\ token \in Tokens \cup {NoToken} /\ stored \in {NoToken, token} /\ tab = Loaded("home", token, stored)
        /\ me = Unread /\ identity = Unread /\ rows = Unread /\ modal = FALSE /\ errand = NoErrands
        /\ outside = 0 /\ noticed = TRUE /\ cause = {}
    BY DEF SessionInit
  <1>2. grade \in [Tokens -> {"workspace", "identity", "gone"}]
    <2>1. PICK expired \in SUBSET {token} :
            grade = [t \in Tokens |-> IF t \in expired THEN "gone" ELSE IF t = Onboarding THEN "identity" ELSE "workspace"]
      BY DEF SessionInit
    <2> QED BY <2>1
  <1>3. /\ tab \in TabOf /\ tab.has = (token # NoToken) /\ tab.last = token /\ ~tab.detected /\ tab.vault = stored
    BY <1>1, LoadedFields DEF SessionPages
  <1>4. SessionTypeOK
    <2>1. {token, stored} \subseteq Tokens \cup {NoToken} /\ {modal, noticed} \subseteq BOOLEAN
      BY <1>1
    <2>2. outside \in 0 .. MaxOutside
      BY <1>1, SomeOutside
    <2>3. {me, identity, rows} \subseteq Reading /\ errand \in [Errands -> Tokens \cup {NoToken, Off}]
      BY <1>1, UnreadFields, NothingAsked
    <2> QED BY <2>1, <2>2, <2>3, <1>1, <1>2, <1>3 DEF SessionTypeOK, TabOf
  <1>5. Asking /\ Noticing
    BY <1>1, <1>3, UnreadFields DEF Asking, Noticing
  <1>6. OfSession /\ OfRows /\ OfToken
    BY <1>1, <1>3, UnreadFields, Marks DEF OfSession, OfRows, OfToken
  <1>7. OfPassphrase /\ OfIdentity
    BY <1>1, <1>3, UnreadFields, Marks DEF OfPassphrase, OfIdentity
  <1>8. OfProfile
    BY <1>1, NothingAsked DEF OfProfile
  <1> QED BY <1>4, <1>5, <1>6, <1>7, <1>8 DEF SessInv

\* Nothing is left but the storage
LEMMA LoadStays ==
  ASSUME SessInv, NEW pg \in SessionPages, NEW t \in Tokens \cup {NoToken}, NEW pp \in Tokens \cup {NoToken},
         Load(pg, t, pp), grade' \in [Tokens -> {"workspace", "identity", "gone"}],
         cause' \in {{}, {"over"}}, cause' = {} => pp \in {NoToken, t}
  PROVE  SessInv'
  <1>1. /\ token' = t /\ stored' = pp /\ tab' = Loaded(pg, t, pp)
        /\ me' = Unread /\ identity' = Unread /\ rows' = Unread /\ modal' = FALSE /\ errand' = NoErrands
        /\ noticed' = TRUE /\ outside' = outside
    BY DEF Load
  <1>2. /\ tab' \in TabOf /\ tab'.has = (t # NoToken) /\ tab'.last = t /\ ~tab'.detected /\ tab'.vault = pp
    BY <1>1, LoadedFields
  <1>3. SessionTypeOK'
    BY <1>1, <1>2, UnreadFields, NothingAsked DEF SessInv, SessionTypeOK, TabOf
  <1>4. Asking' /\ Noticing'
    BY <1>1, <1>2, UnreadFields DEF Asking, Noticing
  <1>5. OfSession' /\ OfRows' /\ OfToken'
    BY <1>1, <1>2, UnreadFields, Marks DEF OfSession, OfRows, OfToken
  <1>6. OfPassphrase' /\ OfIdentity'
    BY <1>1, <1>2, UnreadFields, Marks DEF OfPassphrase, OfIdentity
  <1>7. OfProfile'
    BY <1>1, NothingAsked DEF OfProfile
  <1> QED BY <1>3, <1>4, <1>5, <1>6, <1>7 DEF SessInv

\* A token put in place of another, with the page reloaded where it says so.
LEMMA ReplaceStays ==
  ASSUME SessInv, NEW pg \in SessionPages, NEW t \in Tokens \cup {NoToken},
         Replace(t, pg), grade' \in [Tokens -> {"workspace", "identity", "gone"}],
         modal' = modal, errand' \in [Errands -> Tokens \cup {NoToken, Off}],
         \A k \in Errands : errand'[k] \in {errand[k], Off}
  PROVE  SessInv'
  <1>1. /\ token' = t /\ stored' = NoToken /\ tab' = [tab EXCEPT !.page = pg, !.vault = NoToken]
        /\ me' = Unread /\ identity' = Unread /\ rows' = Unread
        /\ noticed' = FALSE /\ cause' \in {{}, {"late"}} /\ outside' = outside
    BY DEF Replace
  <1>2. /\ tab' \in TabOf /\ tab'.has = tab.has /\ tab'.last = tab.last /\ tab'.detected = tab.detected /\ tab'.vault = NoToken
    BY <1>1, SessTyped DEF SessInv, TabOf
  <1>3. SessionTypeOK'
    BY <1>1, <1>2, UnreadFields DEF SessInv, SessionTypeOK, TabOf
  <1>4. Asking' /\ Noticing'
    BY <1>1, <1>2, UnreadFields DEF SessInv, Asking, Noticing
  <1>5. OfSession' /\ OfRows' /\ OfToken'
    BY <1>1, <1>2, UnreadFields, Marks DEF OfSession, OfRows, OfToken
  <1>6. OfPassphrase' /\ OfIdentity'
    BY <1>1, <1>2, UnreadFields, Marks DEF OfPassphrase, OfIdentity
  <1>7. OfProfile'
    <2> SUFFICES ASSUME errand'["profile"] # Off, OwnSession' PROVE FALSE
      BY DEF OfProfile
    <2>1. errand["profile"] # Off
      BY DEF Errands
    <2>2. cause' = {"late"}
      BY <2>1 DEF Replace
    <2> QED BY <2>2 DEF OwnSession
  <1> QED BY <1>3, <1>4, <1>5, <1>6, <1>7 DEF SessInv

\* Grades only fall
Falls == \A t \in Tokens : /\ grade[t] # "workspace" => grade'[t] # "workspace"
                           /\ grade[t] = "gone" => grade'[t] = "gone"
\* The tab stays, but for the page that is shown
SameTab == tab' \in TabOf /\ tab'.has = tab.has /\ tab'.last = tab.last /\ tab'.detected = tab.detected /\ tab'.vault = tab.vault

\* Steps that leave alone who one is
LEMMA SameUser ==
  ASSUME SessInv, UNCHANGED <<token, stored, me, identity, noticed, cause>>, SameTab, Falls, SessionTypeOK', OfRows', OfProfile'
  PROVE  SessInv'
  <1>1. Asking' /\ Noticing' /\ OfPassphrase'
    BY DEF SessInv, SameTab, Asking, Noticing, OfPassphrase, OwnSession
  <1>2. OfSession'
    BY SessTyped, Marks DEF SessInv, OfSession, OwnSession, Falls, Reading
  <1>3. OfToken'
    <2> SUFFICES ASSUME OfToken, noticed, tab.has, cause \cap {"late", "overtaken"} = {}
                 PROVE  OfToken'
      BY DEF OfToken, SameTab, SessInv
    <2>1. token \in Tokens
      BY SessTyped DEF SessInv, Noticing
    <2> QED BY <2>1 DEF OfToken, Falls
  <1>4. OfIdentity'
    BY SessTyped DEF SessInv, OfIdentity, Falls
  <1> QED BY <1>1, <1>2, <1>3, <1>4 DEF SessInv

\* What a session may be good for once an errand has ended: it only falls.
LEMMA GradesOf ==
  ASSUME SessInv, NEW k \in Errands, SessionEnds(k)
  PROVE  Falls /\ grade' \in [Tokens -> {"workspace", "identity", "gone"}]
  <1>1. grade \in [Tokens -> {"workspace", "identity", "gone"}]
    BY DEF SessInv, SessionTypeOK
  <1>2. PICK g \in {"gone"} : grade' = grade \/ (grade' = [grade EXCEPT ![errand[k]] = g] /\ errand[k] \in Tokens)
    BY DEF SessionEnds, Accepts
  <1> QED BY <1>1, <1>2 DEF Falls

\* Redirect and the errands' beginnings and failures
LEMMA SessQuiet ==
  ASSUME SessInv, Redirect \/ (\E k \in Errands : BeginErrand(k) \/ ErrandFails(k)) \/ SessionDrops
  PROVE  SessInv'
  <1>1. UNCHANGED <<token, stored, me, identity, noticed, cause>>
    BY DEF Redirect, BeginErrand, ErrandFails, SessionDrops, storageVars, queryVars
  <1>2. SameTab /\ tab'.page \in SessionPages
    <2>1. PICK pg \in SessionPages : tab' = tab \/ tab' = [tab EXCEPT !.page = pg]
      BY DEF Redirect, BeginErrand, ErrandFails, SessionDrops, SessionPages
    <2> QED BY <2>1, SessTyped DEF SessInv, SameTab, TabOf
  <1>3. Falls /\ grade' \in [Tokens -> {"workspace", "identity", "gone"}]
    <2>1. grade \in [Tokens -> {"workspace", "identity", "gone"}] /\ token \in Tokens \cup {NoToken}
      BY DEF SessInv, SessionTypeOK
    <2>2. CASE grade' = grade
      BY <2>1, <2>2 DEF Falls
    <2>3. CASE SessionDrops
      <3>1. PICK g \in {"identity", "gone"} : grade[token] \notin {g, "gone"} /\ grade' = [grade EXCEPT ![token] = g] /\ token # NoToken
        BY <2>3 DEF SessionDrops
      <3> QED BY <2>1, <3>1 DEF Falls
    <2> QED BY <2>2, <2>3 DEF Redirect, BeginErrand, ErrandFails, storageVars
  <1>4. rows' \in Reading /\ rows'.data = rows.data /\ rows'.asked \in {rows.asked, Off}
    <2>1. rows' = rows \/ rows' = [rows EXCEPT !.asked = Off]
      BY DEF Redirect, BeginErrand, ErrandFails, SessionDrops, queryVars
    <2> QED BY <2>1, SessTyped DEF SessInv, Reading
  <1>5. SessionTypeOK'
    <2>1. errand' \in [Errands -> Tokens \cup {NoToken, Off}]
      <3>1. \/ errand' = errand
            \/ \E k \in Errands : errand' = [errand EXCEPT ![k] = token] \/ errand' = [errand EXCEPT ![k] = Off]
        BY DEF Redirect, BeginErrand, ErrandFails, SessionDrops, Finished
      <3> QED BY <3>1 DEF SessInv, SessionTypeOK
    <2>2. modal' \in BOOLEAN
      BY DEF Redirect, BeginErrand, ErrandFails, SessionDrops, SessInv, SessionTypeOK
    <2>3. outside' \in 0 .. MaxOutside
      BY SomeOutside DEF Redirect, BeginErrand, ErrandFails, SessionDrops, SessInv, SessionTypeOK
    <2> QED BY <1>1, <1>2, <1>3, <1>4, <2>1, <2>2, <2>3 DEF SessInv, SessionTypeOK, SameTab, TabOf
  <1>6. OfRows'
    <2>1. CASE ~Redirect
      <3>1. tab' = tab /\ rows' = rows
        BY <2>1 DEF BeginErrand, ErrandFails, SessionDrops, queryVars
      <3> QED BY <3>1, <1>1 DEF SessInv, OfRows, OwnSession
    <2>2. CASE Redirect
      <3> SUFFICES ASSUME OwnSession, rows'.data # NoToken \/ rows'.asked # Off PROVE OfRows'
        BY <1>1 DEF OfRows, OwnSession
      <3>1. rows.data # NoToken \/ rows.asked # Off
        BY <1>4
      <3>2. /\ token # NoToken /\ me.data = token /\ tab.page # "login"
            /\ rows.data \in {NoToken, token} /\ rows.asked \in {Off, token}
        BY <3>1 DEF SessInv, OfRows
      <3>3. tab.has
        <4>1. OwnSession
          BY DEF OwnSession
        <4>2. ~tab.has => me.data = NoToken
          BY <4>1, UnreadFields DEF SessInv, Asking
        <4> QED BY <4>2, <3>2
      <3>4. sessionType = "workspace"
        BY <3>2, <3>3 DEF sessionType
      <3>5. tab'.page # "login"
        <4>1. PICK pg \in SessionPages : Allowed(pg) = sessionType /\ tab' = [tab EXCEPT !.page = pg]
          BY <2>2 DEF Redirect
        <4>2. pg # "login"
          BY <3>4, <4>1 DEF Allowed
        <4> QED BY <4>1, <4>2, SessTyped DEF SessInv, TabOf
      <3> QED BY <3>2, <3>5, <1>1, <1>4 DEF OfRows
    <2> QED BY <2>1, <2>2
  <1>7. OfProfile'
    <2> SUFFICES ASSUME errand'["profile"] # Off, OwnSession PROVE OfProfile'
      BY <1>1 DEF OfProfile, OwnSession
    <2>1. tab.has /\ me.data # NoToken /\ token # NoToken /\ tab.page # "login"
      <3>1. CASE errand["profile"] # Off
        BY <3>1 DEF SessInv, OfProfile
      <3>2. CASE errand["profile"] = Off
        <4>1. BeginErrand("profile")
          <5>1. ~Redirect /\ ~SessionDrops
            BY <3>2 DEF Redirect, SessionDrops
          <5>2. PICK k \in Errands : BeginErrand(k) \/ ErrandFails(k)
            BY <5>1
          <5>3. ~ErrandFails(k)
            BY <3>2 DEF ErrandFails, Finished, SessInv, SessionTypeOK, Errands
          <5>4. k = "profile"
            BY <3>2, <5>2, <5>3 DEF BeginErrand, SessInv, SessionTypeOK, Errands
          <5> QED BY <5>2, <5>3, <5>4
        <4>2. Shown("home")
          BY <4>1 DEF BeginErrand, From
        <4>3. tab.page = "home" /\ tab.has /\ me.data # NoToken
          BY <4>2 DEF Shown, Allowed, sessionType
        <4>4. token # NoToken
          BY <4>3 DEF SessInv, OfSession
        <4> QED BY <4>3, <4>4
      <3> QED BY <3>1, <3>2
    <2>2. tab'.page # "login"
      <3>1. CASE ~Redirect
        BY <3>1, <2>1 DEF BeginErrand, ErrandFails, SessionDrops
      <3>2. CASE Redirect
        <4>1. sessionType = "workspace"
          BY <2>1 DEF sessionType
        <4>2. PICK pg \in SessionPages : Allowed(pg) = sessionType /\ tab' = [tab EXCEPT !.page = pg]
          BY <3>2 DEF Redirect
        <4>3. pg # "login"
          BY <4>1, <4>2 DEF Allowed
        <4> QED BY <4>2, <4>3, SessTyped DEF SessInv, TabOf
      <3> QED BY <3>1, <3>2
    <2> QED BY <2>1, <2>2, <1>1, <1>2 DEF OfProfile, SameTab
  <1> QED BY <1>1, <1>2, <1>3, <1>5, <1>6, <1>7, SameUser

\* The rows of a page
LEMMA SessRows ==
  ASSUME SessInv, AskRows \/ AnswerRows
  PROVE  SessInv'
  <1>1. UNCHANGED <<token, stored, grade, tab, me, identity, errand, outside, noticed, cause>>
    BY DEF AskRows, AnswerRows, storageVars
  <1>2. SameTab /\ Falls
    BY <1>1, SessTyped DEF SessInv, SameTab, Falls
  <1>3. CASE AskRows
    <2>1. /\ rows' \in Reading /\ rows'.data = rows.data /\ rows'.asked = token
          /\ tab.page = "home" /\ sessionType = "workspace" /\ modal' = modal
      BY <1>3, SessTyped, AskFields DEF SessInv, AskRows, Shown, Allowed
    <2>2. tab.has /\ me.data # NoToken
      BY <2>1 DEF sessionType
    <2>3. SessionTypeOK'
      BY <1>1, <2>1 DEF SessInv, SessionTypeOK
    <2>4. OwnSession => me.data = token
      BY <2>2 DEF SessInv, OfSession
    <2>5. OfRows'
      BY <1>1, <2>1, <2>2, <2>4 DEF SessInv, OfRows, OwnSession
    <2>6. OfProfile'
      BY <1>1 DEF SessInv, OfProfile, OwnSession
    <2> QED BY <1>1, <1>2, <2>3, <2>5, <2>6, SameUser
  <1>4. CASE AnswerRows
    <2>1. PICK answer \in Answers(rows, {"workspace"}) :
            /\ rows' = [answer EXCEPT !.error = "none"]
            /\ modal' = (modal \/ (answer.error = "refused" /\ rows.asked # NoToken))
      BY <1>4 DEF AnswerRows
    <2>2. rows.asked # Off
      BY <1>4 DEF AnswerRows
    <2>3. answer \in Reading /\ answer.asked = Off /\ answer.data \in {rows.asked, rows.data}
      BY <2>1, <2>2, SessTyped, AnswerIs DEF SessInv
    <2>4. rows' \in Reading /\ rows'.data = answer.data /\ rows'.asked = Off
      <3>1. PICK e \in {"none", "refused", "other"} : e = "none"
        OBVIOUS
      <3>2. rows' = [answer EXCEPT !.error = e]
        BY <2>1, <3>1
      <3> QED BY <2>3, <3>2 DEF Reading
    <2>5. SessionTypeOK'
      BY <1>1, <2>1, <2>4 DEF SessInv, SessionTypeOK
    <2>6. OfRows'
      BY <1>1, <2>2, <2>3, <2>4 DEF SessInv, OfRows, OwnSession
    <2>7. OfProfile'
      BY <1>1 DEF SessInv, OfProfile, OwnSession
    <2> QED BY <1>1, <1>2, <2>5, <2>6, <2>7, SameUser
  <1> QED BY <1>3, <1>4

\* The tab notices the token in the storage.
LEMMA SessRefreshes ==
  ASSUME SessInv, Refresh
  PROVE  SessInv'
  <1> DEFINE changed == token # tab.last
             awaited == me.data = NoToken /\ me.asked # Off
  <1>1. /\ UNCHANGED <<token, stored, grade, rows, modal, errand, outside>> /\ ~noticed /\ noticed' = TRUE
        /\ identity' = IF changed THEN Unread ELSE identity
        /\ me' = IF ~changed \/ (token # NoToken /\ awaited) THEN me ELSE IF token = NoToken THEN Unread ELSE Ask(me)
        /\ cause' = IF token # NoToken /\ ((awaited /\ me.asked # token) \/ ~changed) THEN cause \cup {"overtaken"} ELSE cause
    BY Zenon DEF Refresh, storageVars, Ask
  <1>2. /\ tab' \in TabOf /\ tab'.has = (token # NoToken) /\ tab'.last = token /\ tab'.detected = (tab.detected /\ ~changed)
        /\ tab'.vault = tab.vault /\ tab'.page = tab.page
    <2>1. PICK h \in BOOLEAN : h = (token # NoToken)
      OBVIOUS
    <2>2. PICK d \in BOOLEAN : d = (tab.detected /\ ~changed)
      OBVIOUS
    <2>3. tab' = [tab EXCEPT !.has = h, !.last = token, !.detected = d]
      BY <2>1, <2>2, Zenon DEF Refresh
    <2>4. /\ tab' \in TabOf /\ tab'.has = h /\ tab'.last = token /\ tab'.detected = d
          /\ tab'.vault = tab.vault /\ tab'.page = tab.page
      BY <2>3, SessTyped DEF SessInv, TabOf
    <2> QED BY <2>1, <2>2, <2>4
  <1>3. identity \in Reading /\ me \in Reading /\ token \in Tokens \cup {NoToken} /\ tab \in TabOf
    BY SessTyped DEF SessInv
  <1>4. Ask(me) \in Reading /\ Ask(me).data = me.data /\ Ask(me).asked = token
        /\ Ask(me).error = IF me.data = NoToken THEN "none" ELSE me.error
    BY <1>3, AskFields
  <1>5. identity' \in {identity, Unread} /\ me' \in {me, Unread, Ask(me)} /\ cause \subseteq cause' /\ cause' \subseteq cause \cup {"overtaken"}
    BY <1>1
  <1>6. SessionTypeOK'
    BY <1>1, <1>2, <1>3, <1>4, <1>5, UnreadFields DEF SessInv, SessionTypeOK, TabOf
  <1>7. Asking' /\ Noticing'
    <2>1. me'.asked # Off /\ me'.data = NoToken => me'.error = "none"
      BY <1>4, <1>5, UnreadFields DEF SessInv, Asking
    <2>2. ~tab'.has => identity' = Unread /\ (me' = Unread \/ ~OwnSession')
      BY <1>1, <1>2, <1>5 DEF SessInv, Asking, Noticing, OwnSession
    <2>3. tab'.detected => identity'.data # NoToken \/ me'.asked = Off
      BY <1>1, <1>2 DEF SessInv, Asking
    <2> QED BY <1>1, <1>2, <2>1, <2>2, <2>3 DEF Asking, Noticing
  <1>8. OfSession'
    <2> SUFFICES ASSUME OwnSession' PROVE OfSession'
      BY DEF OfSession
    <2>1. OwnSession
      BY <1>5 DEF OwnSession
    <2> QED BY <1>1, <1>3, <1>4, <1>5, <2>1, UnreadFields, Marks DEF SessInv, OfSession
  <1>9. OfRows'
    <2> SUFFICES ASSUME OwnSession', rows.data # NoToken \/ rows.asked # Off PROVE OfRows'
      BY <1>1 DEF OfRows
    <2>1. OwnSession
      BY <1>5 DEF OwnSession
    <2>2. /\ token # NoToken /\ me.data = token /\ tab.page # "login"
          /\ rows.data \in {NoToken, token} /\ rows.asked \in {Off, token}
      BY <2>1 DEF SessInv, OfRows
    <2>3. me'.data = me.data
      BY <1>1, <1>4, <2>2
    <2> QED BY <1>1, <1>2, <2>2, <2>3 DEF OfRows
  <1>10. OfToken'
    <2> SUFFICES ASSUME token # NoToken, cause' \cap {"late", "overtaken"} = {}
                 PROVE  OfToken'
      BY <1>1, <1>2 DEF OfToken
    <2>1. "overtaken" \notin cause'
      OBVIOUS
    <2>2. changed /\ (awaited => me.asked = token)
      BY <1>1, <2>1
    <2>3. identity' = Unread /\ me' = IF awaited THEN me ELSE Ask(me)
      BY <1>1, <2>2
    <2>4. me'.asked = token /\ (me'.data = NoToken => me'.error = "none")
      BY <1>4, <2>2, <2>3, Marks DEF SessInv, Asking
    <2>5. token # Off
      BY <1>3, Marks
    <2> QED BY <1>1, <2>3, <2>4, <2>5, UnreadFields DEF OfToken
  <1>11. OfPassphrase' /\ OfIdentity'
    BY <1>1, <1>2, <1>5, UnreadFields DEF SessInv, OfPassphrase, OfIdentity
  <1>12. OfProfile'
    BY <1>1, <1>2, <1>4, <1>5 DEF SessInv, OfProfile, OwnSession
  <1> QED BY <1>6, <1>7, <1>8, <1>9, <1>10, <1>11, <1>12 DEF SessInv

\* me is asked for, and answered.
LEMMA SessAsksMe ==
  ASSUME SessInv, AskMe \/ AnswerMe
  PROVE  SessInv'
  <1>1. UNCHANGED <<token, stored, grade, tab, identity, rows, modal, errand, outside, noticed, cause>>
    BY DEF AskMe, AnswerMe, storageVars
  <1>2. me \in Reading /\ token \in Tokens \cup {NoToken} /\ rows \in Reading
    BY SessTyped DEF SessInv
  <1>3. CASE AskMe
    <2>1. me' = Ask(me) /\ tab.has /\ ~tab.detected /\ me.asked = Off
      BY <1>3 DEF AskMe, MeEnabled
    <2>2. /\ me' \in Reading /\ me'.data = me.data /\ me'.asked = token
          /\ me'.error = IF me.data = NoToken THEN "none" ELSE me.error
      BY <1>2, <2>1, AskFields
    <2>3. SessionTypeOK'
      BY <1>1, <2>2 DEF SessInv, SessionTypeOK
    <2>4. Asking' /\ Noticing' /\ OfPassphrase' /\ OfIdentity'
      BY <1>1, <2>1, <2>2 DEF SessInv, Asking, Noticing, OfPassphrase, OfIdentity
    <2>5. OfSession' /\ OfRows'
      BY <1>1, <2>2 DEF SessInv, OfSession, OfRows, OwnSession
    <2>6. OfToken'
      BY <1>1, <1>2, <2>2, Marks DEF SessInv, OfToken
    <2>7. OfProfile'
      BY <1>1, <2>2 DEF SessInv, OfProfile, OwnSession
    <2> QED BY <2>3, <2>4, <2>5, <2>6, <2>7 DEF SessInv
  <1>4. CASE AnswerMe
    <2>1. me' \in Answers(me, {"workspace"}) /\ me.asked # Off
      BY <1>4 DEF AnswerMe
    <2>2. /\ me' \in Reading /\ me'.asked = Off
          /\ \/ me'.data = me.asked /\ me'.error = "none" /\ me.asked \in Tokens /\ grade[me.asked] = "workspace"
             \/ me'.data = me.data /\ me'.error = "refused" /\ (me.asked = NoToken \/ grade[me.asked] # "workspace")
             \/ me'.data = me.data /\ me'.error = "other"
      BY <1>2, <2>1, AnswerIs
    <2>3. SessionTypeOK'
      BY <1>1, <2>2 DEF SessInv, SessionTypeOK
    <2>4. Noticing' /\ OfPassphrase' /\ OfIdentity'
      BY <1>1 DEF SessInv, Noticing, OfPassphrase, OfIdentity
    <2>5. Asking'
      <3>1. ~tab.has => identity = Unread /\ ~OwnSession
        BY <2>1, UnreadFields DEF SessInv, Asking
      <3> QED BY <1>1, <2>2, <3>1 DEF Asking, OwnSession
    <2>6. OfSession' /\ OfRows'
      <3> SUFFICES ASSUME OwnSession PROVE OfSession' /\ OfRows'
        BY <1>1 DEF OfSession, OfRows, OwnSession
      <3>1. /\ me.data \in {NoToken, token}
            /\ me.asked = token \/ (token = NoToken /\ grade[me.asked] # "workspace")
            /\ me.error = "refused" /\ token # NoToken => grade[token] # "workspace"
            /\ \A t \in Tokens \cap {identity.data, identity.asked} : grade[t] # "workspace" /\ token \in {t, NoToken}
        BY <2>1 DEF SessInv, OfSession
      <3>2. me'.data \in {NoToken, token} /\ (me.data = token => me'.data = token)
        BY <2>2, <3>1, Marks
      <3>3. OfRows'
        BY <1>1, <3>2 DEF SessInv, OfRows, OwnSession
      <3>4. me'.error = "refused" /\ token # NoToken => grade[token] # "workspace"
        <4> SUFFICES ASSUME me'.error = "refused", token # NoToken PROVE grade[token] # "workspace"
          OBVIOUS
        <4>1. me.asked = NoToken \/ grade[me.asked] # "workspace"
          BY <2>2
        <4> QED BY <3>1, <4>1
      <3> QED BY <1>1, <2>2, <3>1, <3>2, <3>3, <3>4 DEF OfSession
    <2>7. OfToken'
      <3> SUFFICES ASSUME noticed, tab.has, cause \cap {"late", "overtaken"} = {}
                   PROVE  OfToken'
        BY <1>1 DEF OfToken
      <3>1. me.asked = token /\ token # NoToken
        BY <2>1 DEF SessInv, OfToken, Noticing
      <3> QED BY <1>1, <2>2, <3>1 DEF SessInv, OfToken
    <2>8. OfProfile'
      BY <1>1, <2>2, Marks DEF SessInv, OfProfile, OwnSession
    <2> QED BY <2>3, <2>4, <2>5, <2>6, <2>7, <2>8 DEF SessInv
  <1> QED BY <1>3, <1>4

\* The identity of who signs in is asked for.
LEMMA SessAsksIdentity ==
  ASSUME SessInv, AskIdentity
  PROVE  SessInv'
  <1>1. UNCHANGED <<token, stored, grade, tab, me, rows, modal, errand, outside, noticed, cause>>
    BY DEF AskIdentity, storageVars
  <1>2. identity \in Reading /\ token \in Tokens \cup {NoToken}
    BY SessTyped DEF SessInv
  <1>3. identity' = Ask(identity) /\ tab.has /\ me.error = "refused" /\ identity.data = NoToken
    BY DEF AskIdentity, shouldCheckIdentity, IsLoading
  <1>4. identity' \in Reading /\ identity'.data = NoToken /\ identity'.asked = token /\ identity'.error = "none"
    BY <1>2, <1>3, AskFields
  <1>5. SessionTypeOK'
    BY <1>1, <1>4 DEF SessInv, SessionTypeOK
  <1>6. Asking' /\ Noticing' /\ OfRows' /\ OfPassphrase' /\ OfProfile'
    BY <1>1, <1>3, <1>4 DEF SessInv, Asking, Noticing, OfRows, OfPassphrase, OfProfile, OwnSession
  <1>7. OfSession' /\ OfToken' /\ OfIdentity'
    BY <1>1, <1>2, <1>3, <1>4, Marks DEF SessInv, OfSession, OfToken, OfIdentity, OwnSession
  <1> QED BY <1>5, <1>6, <1>7 DEF SessInv

\* The identity is answered.
LEMMA SessAnswersIdentity ==
  ASSUME SessInv, AnswerIdentity
  PROVE  SessInv'
  <1>1. UNCHANGED <<token, stored, grade, me, rows, modal, errand, outside, noticed, cause>>
    BY DEF AnswerIdentity, storageVars
  <1>2. identity \in Reading /\ token \in Tokens \cup {NoToken} /\ tab \in TabOf /\ grade \in [Tokens -> {"workspace", "identity", "gone"}]
    BY SessTyped DEF SessInv, SessionTypeOK
  <1>3. identity' \in Answers(identity, {"workspace", "identity"}) /\ identity.asked # Off
    BY DEF AnswerIdentity
  <1>4. /\ identity' \in Reading /\ identity'.asked = Off
        /\ \/ identity'.data = identity.asked /\ identity'.error = "none" /\ identity.asked \in Tokens
           \/ identity'.data = identity.data /\ identity'.error = "refused" /\ (identity.asked = NoToken \/ grade[identity.asked] \notin {"workspace", "identity"})
           \/ identity'.data = identity.data /\ identity'.error = "other"
    BY <1>2, <1>3, AnswerIs
  <1>5. /\ tab' \in TabOf /\ tab'.has = tab.has /\ tab'.last = tab.last /\ tab'.vault = tab.vault /\ tab'.page = tab.page
        /\ tab'.detected = (identity'.data # NoToken)
    <2>1. PICK d \in BOOLEAN : d = (identity'.data # NoToken)
      OBVIOUS
    <2>2. tab' = [tab EXCEPT !.detected = d]
      BY <2>1, Zenon DEF AnswerIdentity
    <2> QED BY <1>2, <2>1, <2>2 DEF TabOf
  <1>6. SessionTypeOK'
    BY <1>1, <1>4, <1>5 DEF SessInv, SessionTypeOK, TabOf
  <1>7. tab.has
    BY <1>3, UnreadFields DEF SessInv, Asking
  <1>8. Asking' /\ Noticing' /\ OfRows' /\ OfPassphrase' /\ OfProfile'
    BY <1>1, <1>5, <1>7 DEF SessInv, Asking, Noticing, OfRows, OfPassphrase, OfProfile, OwnSession
  <1>9. OfSession'
    BY <1>1, <1>2, <1>4, Marks DEF SessInv, OfSession, OwnSession
  <1>10. OfToken'
    BY <1>1, <1>3, <1>4, <1>5, Marks DEF SessInv, OfToken
  <1>11. OfIdentity'
    <2> SUFFICES ASSUME "elsewhere" \notin cause, token # NoToken, identity'.error = "refused"
                 PROVE  grade[token] = "gone"
      BY <1>1, <1>4 DEF OfIdentity
    <2>1. identity.asked = token
      BY <1>3 DEF SessInv, OfIdentity
    <2> QED BY <1>2, <1>4, <2>1
  <1> QED BY <1>6, <1>8, <1>9, <1>10, <1>11 DEF SessInv

\* A refused call opens the dialog or sends the tab to the login page.
LEMMA SessFails ==
  ASSUME SessInv, FailAuth
  PROVE  SessInv'
  <1>1. grade' = grade /\ grade \in [Tokens -> {"workspace", "identity", "gone"}] /\ tab.has
    BY DEF FailAuth, SessInv, SessionTypeOK
  <1>2. CASE Load("login", NoToken, NoToken) /\ cause' = {}
    <2>1. "login" \in SessionPages
      BY DEF SessionPages
    <2> QED BY <1>1, <1>2, <2>1, LoadStays
  <1>3. CASE ~(Load("login", NoToken, NoToken) /\ cause' = {})
    <2>1. /\ tab.page = "login" /\ token' = NoToken /\ stored' = NoToken
          /\ tab' = [tab EXCEPT !.has = FALSE, !.last = NoToken, !.detected = FALSE]
          /\ me' = Unread /\ identity' = Unread /\ noticed' = FALSE /\ cause' = cause \cup {"refused"}
          /\ UNCHANGED <<rows, modal, errand, outside>>
      BY <1>3, Zenon DEF FailAuth
    <2>2. /\ tab' \in TabOf /\ tab'.has = FALSE /\ tab'.last = NoToken /\ tab'.detected = FALSE /\ tab'.page = "login"
      <3>1. PICK f \in BOOLEAN : f = FALSE
        OBVIOUS
      <3>2. tab' = [tab EXCEPT !.has = f, !.last = NoToken, !.detected = f]
        BY <2>1, <3>1
      <3> QED BY <2>1, <3>1, <3>2, SessTyped DEF SessInv, TabOf
    <2>3. SessionTypeOK'
      BY <1>1, <2>1, <2>2, UnreadFields DEF SessInv, SessionTypeOK, TabOf
    <2>4. Asking' /\ Noticing'
      BY <2>1, <2>2, UnreadFields DEF Asking, Noticing
    <2>5. OwnSession' => OwnSession
      BY <2>1 DEF OwnSession
    <2>6. OfSession' /\ OfToken' /\ OfPassphrase' /\ OfIdentity'
      BY <2>1, <2>2, UnreadFields, Marks DEF OfSession, OfToken, OfPassphrase, OfIdentity
    <2>7. OfRows' /\ OfProfile'
      BY <2>1, <2>5 DEF SessInv, OfRows, OfProfile
    <2> QED BY <2>3, <2>4, <2>6, <2>7 DEF SessInv
  <1> QED BY <1>2, <1>3

\* A sign-in clears what an earlier session left.
LEMMA SessForgets ==
  ASSUME SessInv, BeginDevLogin
  PROVE  SessInv'
  <1>1. /\ Shown("login") /\ \A o \in Errands : errand[o] = Off
        /\ errand' = [errand EXCEPT !.login = token] /\ token' = NoToken /\ noticed' = FALSE
        /\ cause' = IF stored # NoToken THEN cause \cup {"over"} ELSE cause
        /\ UNCHANGED <<stored, grade, tab, me, identity, rows, modal, outside>>
    BY DEF BeginDevLogin, queryVars
  <1>2. token \in Tokens \cup {NoToken} /\ me \in Reading /\ identity \in Reading
    BY SessTyped DEF SessInv
  <1>3. errand' \in [Errands -> Tokens \cup {NoToken, Off}] /\ errand'.profile = Off
    BY <1>1, <1>2 DEF SessInv, SessionTypeOK, Errands
  <1>4. tab.page = "login" /\ ~isAuthLoading /\ sessionType = "none"
    BY <1>1 DEF Shown, Allowed
  <1>5. SessionTypeOK'
    BY <1>1, <1>3 DEF SessInv, SessionTypeOK
  <1>6. (OwnSession' <=> OwnSession) /\ cause \subseteq cause'
    BY <1>1 DEF OwnSession
  <1>7. Asking' /\ Noticing' /\ OfProfile'
    BY <1>1, <1>3, <1>6 DEF SessInv, Asking, Noticing, OfProfile
  <1>8. OfPassphrase'
    <2>1. cause' = {} => cause = {} /\ stored = NoToken
      BY <1>1
    <2> QED BY <1>1, <2>1 DEF SessInv, OfPassphrase
  <1>9. OfToken' /\ OfIdentity'
    BY <1>1 DEF OfToken, OfIdentity
  <1>10. OfRows'
    BY <1>1, <1>4, <1>6 DEF SessInv, OfRows
  <1>11. OfSession'
    <2> SUFFICES ASSUME OwnSession PROVE OfSession'
      BY <1>6 DEF OfSession
    <2>1. ~tab.has => me = Unread
      BY DEF SessInv, Asking
    <2>2. me.data = NoToken
      BY <1>4, <2>1, UnreadFields DEF sessionType
    <2>3. me.asked \in {Off, NoToken} \/ grade[me.asked] # "workspace"
      <3> SUFFICES ASSUME me.asked \in Tokens PROVE grade[me.asked] # "workspace"
        BY <1>2 DEF Reading
      <3>1. tab.has /\ me.error = "none" /\ me.asked # Off
        BY <2>1, <2>2, UnreadFields, Marks DEF SessInv, Asking
      <3>2. tab.detected
        BY <1>4, <2>2, <3>1 DEF isAuthLoading, MeEnabled, IsLoading
      <3>3. identity.data \in Tokens
        BY <1>2, <3>1, <3>2 DEF SessInv, Asking, Reading
      <3>4. me.asked = token \/ grade[me.asked] # "workspace"
        BY <3>1 DEF SessInv, OfSession
      <3>5. grade[identity.data] # "workspace" /\ token \in {identity.data, NoToken}
        BY <3>3 DEF SessInv, OfSession
      <3> QED BY <3>4, <3>5, Marks
    <2>4. \A t \in Tokens \cap {identity.data, identity.asked} : grade[t] # "workspace"
      BY DEF SessInv, OfSession
    <2> QED BY <1>1, <2>2, <2>3, <2>4 DEF OfSession
  <1> QED BY <1>5, <1>7, <1>8, <1>9, <1>10, <1>11 DEF SessInv

\* The profile is saved, and what is known of the user is asked for anew.
LEMMA SessSaves ==
  ASSUME SessInv, ProfileSaved
  PROVE  SessInv'
  <1>1. /\ UNCHANGED <<token, stored, grade, tab, identity, rows, modal, outside, noticed>>
        /\ errand' = [errand EXCEPT !["profile"] = Off] /\ errand.profile \in Tokens
        /\ cause' = IF errand.profile # token THEN cause \cup {"late"} ELSE cause
    BY DEF ProfileSaved, storageVars, Finished, Late, Accepts
  <1>2. me' \in Reading /\ me'.data = errand.profile /\ me'.error = "none" /\ me'.asked = me.asked
    <2>1. PICK e \in {"none", "refused", "other"} : e = "none"
      OBVIOUS
    <2>2. me' = [me EXCEPT !.data = errand.profile, !.error = e]
      BY <2>1 DEF ProfileSaved
    <2> QED BY <1>1, <2>1, <2>2, SessTyped DEF SessInv, Reading
  <1>3. errand' \in [Errands -> Tokens \cup {NoToken, Off}] /\ errand'.profile = Off
    BY <1>1 DEF SessInv, SessionTypeOK, Errands
  <1>4. SessionTypeOK'
    BY <1>1, <1>2, <1>3 DEF SessInv, SessionTypeOK
  <1>5. OwnSession' => OwnSession /\ errand.profile = token
    BY <1>1 DEF OwnSession
  <1>6. OwnSession' => tab.has
    BY <1>1, <1>5, Marks DEF SessInv, OfProfile
  <1>7. Asking' /\ Noticing' /\ OfProfile'
    <2>1. me'.data # NoToken
      BY <1>1, <1>2, Marks
    <2> QED BY <1>1, <1>2, <1>3, <1>6, <2>1 DEF SessInv, Asking, Noticing, OfProfile
  <1>8. OfSession'
    BY <1>1, <1>2, <1>5 DEF SessInv, OfSession
  <1>9. OfRows'
    BY <1>1, <1>2, <1>5 DEF SessInv, OfRows
  <1>10. OfToken'
    <2> SUFFICES ASSUME noticed, tab.has, cause' \cap {"late", "overtaken"} = {} PROVE OfToken'
      BY <1>1 DEF OfToken
    <2>1. errand.profile = token /\ cause' = cause
      BY <1>1
    <2> QED BY <1>1, <1>2, <2>1, Marks DEF SessInv, OfToken
  <1>11. OfPassphrase' /\ OfIdentity'
    BY <1>1 DEF SessInv, OfPassphrase, OfIdentity
  <1> QED BY <1>4, <1>7, <1>8, <1>9, <1>10, <1>11 DEF SessInv

\* The vault is opened, and its passphrase stored.
LEMMA SessUnlocks ==
  ASSUME SessInv, Unlocked
  PROVE  SessInv'
  <1>1. /\ UNCHANGED <<token, grade, me, identity, rows, modal, outside, noticed>>
        /\ errand' = [errand EXCEPT !["unlock"] = Off] /\ errand.unlock \in Tokens
        /\ stored' = errand.unlock /\ tab' = [tab EXCEPT !.vault = errand.unlock]
        /\ cause' = IF errand.unlock # token THEN cause \cup {"late"} ELSE cause
    BY DEF Unlocked, queryVars, Finished, Late, Accepts
  <1>2. /\ tab' \in TabOf /\ tab'.has = tab.has /\ tab'.last = tab.last /\ tab'.detected = tab.detected /\ tab'.page = tab.page
        /\ tab'.vault = errand.unlock
    BY <1>1, SessTyped DEF SessInv, TabOf
  <1>3. errand' \in [Errands -> Tokens \cup {NoToken, Off}] /\ errand'.profile = errand.profile
    BY <1>1 DEF SessInv, SessionTypeOK, Errands
  <1>4. SessionTypeOK'
    BY <1>1, <1>2, <1>3 DEF SessInv, SessionTypeOK, TabOf
  <1>5. OwnSession' => OwnSession
    BY <1>1 DEF OwnSession
  <1>6. Asking' /\ Noticing' /\ OfProfile'
    BY <1>1, <1>2, <1>3, <1>5 DEF SessInv, Asking, Noticing, OfProfile
  <1>7. OfSession' /\ OfRows'
    BY <1>1, <1>2, <1>5 DEF SessInv, OfSession, OfRows
  <1>8. OfToken'
    <2>1. cause \subseteq cause'
      BY <1>1
    <2> QED BY <1>1, <1>2, <2>1 DEF SessInv, OfToken
  <1>9. OfPassphrase' /\ OfIdentity'
    BY <1>1, <1>2 DEF SessInv, OfPassphrase, OfIdentity
  <1> QED BY <1>4, <1>6, <1>7, <1>8, <1>9 DEF SessInv

\* Another tab changes the storage.
LEMMA SessElsewhere ==
  ASSUME SessInv, OtherTab
  PROVE  SessInv'
  <1>1. /\ UNCHANGED <<grade, tab, me, identity, rows, modal, errand>> /\ outside < MaxOutside /\ outside' = outside + 1
        /\ token' \in Tokens \cup {NoToken} /\ stored' \in {NoToken, stored} /\ noticed' = FALSE
        /\ cause' = cause \cup {"elsewhere"}
    BY DEF OtherTab, queryVars
  <1>2. outside' \in 0 .. MaxOutside
    BY <1>1, SomeOutside DEF SessInv, SessionTypeOK
  <1>3. SessionTypeOK'
    <2>1. {token', stored'} \subseteq Tokens \cup {NoToken}
      BY <1>1, SessTyped DEF SessInv
    <2>2. {modal', noticed'} \subseteq BOOLEAN
      BY <1>1, SessTyped DEF SessInv
    <2>3. cause' \subseteq {"elsewhere", "late", "over", "overtaken", "refused"}
      BY <1>1 DEF SessInv, SessionTypeOK
    <2> QED BY <1>1, <1>2, <2>1, <2>2, <2>3 DEF SessInv, SessionTypeOK
  <1>4. ~OwnSession'
    BY <1>1 DEF OwnSession
  <1>5. Asking' /\ Noticing' /\ OfProfile'
    BY <1>1, <1>4 DEF SessInv, Asking, Noticing, OfProfile
  <1>6. OfSession' /\ OfRows' /\ OfToken' /\ OfPassphrase' /\ OfIdentity'
    BY <1>1, <1>4 DEF OfSession, OfRows, OfToken, OfPassphrase, OfIdentity
  <1> QED BY <1>3, <1>5, <1>6 DEF SessInv

\* The steps that load a page anew.
LEMMA SessLoads ==
  ASSUME SessInv, ModalLogout \/ Left \/ (\E t \in Tokens : LoggedIn(t)) \/ (\E t \in Memberships : Joined(t))
  PROVE  SessInv'
  <1>1. grade \in [Tokens -> {"workspace", "identity", "gone"}] /\ stored \in Tokens \cup {NoToken}
        /\ {"login", "home", "onboarding"} \subseteq SessionPages
    BY DEF SessInv, SessionTypeOK, SessionPages
  <1>2. CASE ModalLogout \/ Left
    <2>1. Load("login", NoToken, NoToken) /\ cause' = {}
      BY <1>2 DEF ModalLogout, Left
    <2>2. grade' \in [Tokens -> {"workspace", "identity", "gone"}]
      BY <1>1, <1>2, GradesOf DEF ModalLogout, Left, Errands
    <2> QED BY <1>1, <2>1, <2>2, LoadStays
  <1>3. ASSUME NEW t \in Tokens, NEW pg \in {"home", "onboarding"}, Load(pg, t, stored), Begun(t), grade' = grade
        PROVE  SessInv'
    <2>1. cause' \in {{}, {"over"}} /\ (cause' = {} => stored \in {NoToken, t})
      BY <1>3 DEF Begun
    <2>2. grade' \in [Tokens -> {"workspace", "identity", "gone"}] /\ pg \in SessionPages /\ t \in Tokens \cup {NoToken}
      BY <1>1, <1>3
    <2> QED BY <1>1, <1>3, <2>1, <2>2, LoadStays
  <1>4. ASSUME NEW t \in Tokens, LoggedIn(t) PROVE SessInv'
    <2>1. PICK pg \in {"home", "onboarding"} : pg = IF grade[t] = "workspace" THEN "home" ELSE "onboarding"
      OBVIOUS
    <2> QED BY <1>3, <1>4, <2>1 DEF LoggedIn
  <1>5. ASSUME NEW t \in Memberships, Joined(t) PROVE SessInv'
    <2>1. PICK pg \in {"home", "onboarding"} : pg = "home"
      OBVIOUS
    <2> QED BY <1>3, <1>5, <2>1 DEF Joined, Tokens
  <1> QED BY <1>2, <1>4, <1>5

\* The steps that put another token in the storage, or take it away.
LEMMA SessReplaces ==
  ASSUME SessInv, LoggedOut \/ (\E t \in Memberships : Switched(t))
  PROVE  SessInv'
  <1>1. grade \in [Tokens -> {"workspace", "identity", "gone"}] /\ {"login", "home"} \subseteq SessionPages
    BY DEF SessInv, SessionTypeOK, SessionPages
  <1>2. \E k \in Errands : errand' = [errand EXCEPT ![k] = Off]
    BY DEF LoggedOut, Switched, Finished, Errands
  <1>3. errand' \in [Errands -> Tokens \cup {NoToken, Off}] /\ \A k \in Errands : errand'[k] \in {errand[k], Off}
    BY <1>2 DEF SessInv, SessionTypeOK
  <1>4. modal' = modal /\ grade' \in [Tokens -> {"workspace", "identity", "gone"}]
    BY <1>1, GradesOf DEF LoggedOut, Switched, Errands
  <1>5. CASE LoggedOut
    <2>1. Replace(NoToken, "login")
      BY <1>5 DEF LoggedOut
    <2> QED BY <1>1, <1>3, <1>4, <2>1, ReplaceStays
  <1>6. CASE \E t \in Memberships : Switched(t)
    <2>1. PICK t \in Memberships : Replace(t, "home")
      BY <1>6 DEF Switched, Enter
    <2>2. t \in Tokens \cup {NoToken}
      BY DEF Tokens
    <2> QED BY <1>1, <1>3, <1>4, <2>1, <2>2, ReplaceStays
  <1> QED BY <1>5, <1>6

\* A step of another part.
LEMMA SessStays ==
  ASSUME SessInv, UNCHANGED sessionVars
  PROVE  SessInv'
  <1>1. UNCHANGED <<token, stored, grade, tab, me, identity, rows, modal, errand, outside, noticed, cause>>
    BY DEF sessionVars, storageVars, queryVars
  <1>2. SessionTypeOK'
    BY <1>1 DEF SessInv, SessionTypeOK
  <1>3. Asking' /\ Noticing'
    BY <1>1 DEF SessInv, Asking, Noticing, OwnSession
  <1>4. OfSession' /\ OfRows' /\ OfProfile'
    BY <1>1 DEF SessInv, OfSession, OfRows, OfProfile, OwnSession
  <1>5. OfToken' /\ OfPassphrase' /\ OfIdentity'
    BY <1>1 DEF SessInv, OfToken, OfPassphrase, OfIdentity
  <1> QED BY <1>2, <1>3, <1>4, <1>5 DEF SessInv

\* Every step of a tab keeps the invariant.
LEMMA SessSteps ==
  ASSUME SessInv, [SessionNext]_sessionVars
  PROVE  SessInv'
  <1>1. CASE Redirect \/ (\E k \in Errands : BeginErrand(k) \/ ErrandFails(k)) \/ SessionDrops
    BY <1>1, SessQuiet
  <1>2. CASE Refresh
    BY <1>2, SessRefreshes
  <1>3. CASE AskMe \/ AnswerMe
    BY <1>3, SessAsksMe
  <1>4. CASE AskIdentity \/ AnswerIdentity
    BY <1>4, SessAsksIdentity, SessAnswersIdentity
  <1>5. CASE FailAuth \/ BeginDevLogin
    BY <1>5, SessFails, SessForgets
  <1>6. CASE AskRows \/ AnswerRows
    BY <1>6, SessRows
  <1>7. CASE ModalLogout \/ Left \/ (\E t \in Tokens : LoggedIn(t)) \/ (\E t \in Memberships : Joined(t))
    BY <1>7, SessLoads
  <1>8. CASE LoggedOut \/ (\E t \in Memberships : Switched(t))
    BY <1>8, SessReplaces
  <1>9. CASE ProfileSaved \/ Unlocked \/ OtherTab
    BY <1>9, SessSaves, SessUnlocks, SessElsewhere
  <1>10. CASE UNCHANGED sessionVars
    BY <1>10, SessStays
  <1> QED BY <1>1, <1>2, <1>3, <1>4, <1>5, <1>6, <1>7, <1>8, <1>9, <1>10 DEF SessionNext

\* What the invariant shows of a tab.
LEMMA SessShows == SessInv => RowsFit /\ NameFits /\ PassphraseFits /\ NothingLeft
  <1> SUFFICES ASSUME SessInv PROVE RowsFit /\ NameFits /\ PassphraseFits /\ NothingLeft
    OBVIOUS
  <1>1. me \in Reading /\ identity \in Reading /\ rows \in Reading /\ token \in Tokens \cup {NoToken}
    BY SessTyped DEF SessInv
  <1>2. Shown("home") => tab.has /\ me.data # NoToken
    BY DEF Shown, Allowed, sessionType
  <1>3. RowsFit
    BY <1>2 DEF RowsFit, SessInv, OfRows, OwnSession
  <1>4. NameFits
    <2> SUFFICES ASSUME noticed, me.asked = Off, cause \cap {"late", "overtaken"} = {}
                 PROVE  /\ sessionType = "workspace" /\ me.error = "none" => me.data = token
                        /\ sessionType = "identity" => identity.data = token /\ grade[token] # "workspace"
      BY DEF NameFits
    <2>1. sessionType \in {"workspace", "identity"} => tab.has
      BY DEF sessionType
    <2>2. sessionType = "workspace" => me.data # NoToken
      BY DEF sessionType
    <2>3. sessionType = "identity" => me.data = NoToken /\ me.error = "refused" /\ identity.data # NoToken
      BY DEF sessionType, shouldCheckIdentity
    <2> QED BY <2>1, <2>2, <2>3 DEF SessInv, OfToken
  <1>5. PassphraseFits
    <2> SUFFICES ASSUME Shown("home"), cause = {} PROVE tab.vault \in {NoToken, me.data}
      BY DEF PassphraseFits
    <2>1. OwnSession
      BY DEF OwnSession
    <2>2. me.data = token
      BY <1>2, <2>1 DEF SessInv, OfSession
    <2> QED BY <2>2 DEF SessInv, OfPassphrase
  <1>6. NothingLeft
    <2> SUFFICES ASSUME token = NoToken, noticed, cause = {}
                 PROVE  stored = NoToken /\ tab.vault = NoToken /\ me.data = NoToken /\ identity.data = NoToken /\ rows.data = NoToken
      BY DEF NothingLeft
    <2>1. OwnSession
      BY DEF OwnSession
    <2>2. stored = NoToken /\ tab.vault = NoToken
      BY DEF SessInv, OfPassphrase
    <2>3. me.data = NoToken /\ rows.data = NoToken
      BY <2>1 DEF SessInv, OfSession, OfRows
    <2>4. ~tab.has
      BY DEF SessInv, Noticing
    <2>5. identity.data = NoToken
      BY <2>4, UnreadFields DEF SessInv, Asking
    <2> QED BY <2>2, <2>3, <2>5
  <1> QED BY <1>3, <1>4, <1>5, <1>6

\* A token that still serves goes by an errand, by the dialog, or after another tab has been at work.
LEMMA SessKeeps ==
  ASSUME SessInv, [SessionNext]_sessionVars, token' # token, token # NoToken, grade[token] # "gone", outside' = outside
  PROVE  (\E k \in Errands : errand[k] # errand'[k]) \/ modal \/ "elsewhere" \in cause
  <1>0. /\ token \in Tokens /\ identity \in Reading /\ errand \in [Errands -> Tokens \cup {NoToken, Off}]
        /\ outside \in Nat
    BY SessTyped DEF SessInv, SessionTypeOK
  <1>1. \A k \in Errands : NoErrands[k] = Off
    BY DEF NoErrands
  <1>2. token' = token
        \/ FailAuth \/ ModalLogout \/ BeginDevLogin \/ Left \/ LoggedOut
        \/ (\E t \in Tokens : LoggedIn(t)) \/ (\E t \in Memberships : Joined(t) \/ Switched(t)) \/ outside' = outside + 1
    BY DEF SessionNext, sessionVars, storageVars, Redirect, Refresh, AskMe, AnswerMe, AskIdentity, AnswerIdentity,
           AskRows, AnswerRows, ProfileSaved, Unlocked, OtherTab, SessionDrops, BeginErrand, ErrandFails
  <1>3. CASE FailAuth
    <2>1. identity.error = "refused"
      BY <1>3 DEF FailAuth, Refused
    <2> QED BY <2>1 DEF SessInv, OfIdentity
  <1>4. CASE ModalLogout
    BY <1>4 DEF ModalLogout
  <1>5. CASE BeginDevLogin
    <2>1. errand["login"] = Off /\ errand' = [errand EXCEPT !["login"] = token] /\ "login" \in Errands
      BY <1>5 DEF BeginDevLogin, Errands
    <2>2. errand'["login"] = token
      BY <1>0, <2>1
    <2> QED BY <1>0, <2>1, <2>2, Marks
  <1>6. CASE Left \/ \E t \in Tokens : LoggedIn(t)
    <2>1. errand' = NoErrands
      BY <1>6 DEF Left, LoggedIn, Load
    <2>2. errand["leave"] # Off \/ errand["login"] # Off
      BY <1>6 DEF Left, LoggedIn
    <2>3. "leave" \in Errands /\ "login" \in Errands
      BY DEF Errands
    <2> QED BY <1>1, <2>1, <2>2, <2>3
  <1>7. CASE \E t \in Memberships : Joined(t)
    <2>1. errand' = NoErrands /\ errand["join"] \in Tokens /\ "join" \in Errands
      BY <1>7 DEF Joined, Load, Accepts, Errands
    <2> QED BY <1>1, <2>1, Marks
  <1>8. CASE LoggedOut
    <2>1. errand["logout"] # Off /\ errand' = [errand EXCEPT !["logout"] = Off] /\ "logout" \in Errands
      BY <1>8 DEF LoggedOut, Finished, Errands
    <2>2. errand'["logout"] = Off
      BY <1>0, <2>1
    <2> QED BY <2>1, <2>2
  <1>9. CASE \E t \in Memberships : Switched(t)
    <2>1. errand["switch"] \in Tokens /\ errand' = [errand EXCEPT !["switch"] = Off] /\ "switch" \in Errands
      BY <1>9 DEF Switched, Finished, Accepts, Errands
    <2>2. errand'["switch"] = Off
      BY <1>0, <2>1
    <2> QED BY <2>1, <2>2, Marks
  <1>10. ~(outside' = outside + 1)
    BY <1>0
  <1> QED BY <1>2, <1>3, <1>4, <1>5, <1>6, <1>7, <1>8, <1>9, <1>10

\* A tab shows what belongs to its session, what it stores and opens the vault with is of the
\* session, nothing of an earlier one is left, and a token that serves is not lost without an errand.
THEOREM SessionHolds ==
  SessionSpec => [](SessionTypeOK /\ RowsFit /\ NameFits /\ PassphraseFits /\ NothingLeft) /\ TokenKept
  <1>1. SessionInit => SessInv
    BY SessStarts
  <1>2. SessInv /\ [SessionNext]_sessionVars => SessInv'
    BY SessSteps
  <1>3. SessInv /\ [SessionNext]_sessionVars =>
          [token' # token /\ token # NoToken /\ grade[token] # "gone" /\ outside' = outside =>
             (\E k \in Errands : errand[k] # errand'[k]) \/ modal \/ "elsewhere" \in cause]_sessionVars
    BY SessKeeps
  <1>4. SessInv => SessionTypeOK
    BY DEF SessInv
  <1> QED BY <1>1, <1>2, <1>3, <1>4, SessShows, PTL DEF SessionSpec, TokenKept
-----------------------------------------------------------------------------
(* VaultGate: the gate of the vault in one tab *)

\* The last of some numbers up to n is one of them, and none is after it.
LEMMA LastIsMember ==
  ASSUME NEW n \in Nat, NEW S \in SUBSET (0 .. n), S # {}
  PROVE  Max(S) \in S /\ \A y \in S : y <= Max(S)
<1> DEFINE B == {n - x : x \in S}
<1>1. B \in SUBSET Nat /\ B # {}
  <2>1. PICK x \in S : TRUE
    OBVIOUS
  <2>2. n - x \in B
    OBVIOUS
  <2> QED BY <2>2
<1>2. PICK m \in B : \A y \in B : <<y, m>> \notin OpToRel(<, Nat)
  BY <1>1, NatLessThanWellFounded, WFMin
<1>3. ASSUME NEW y \in B, y < m PROVE FALSE
  <2> HIDE DEF B
  <2>1. <<y, m>> \in Nat \X Nat
    BY <1>1
  <2>2. <<y, m>>[1] < <<y, m>>[2]
    BY <1>3
  <2>3. <<y, m>> \in OpToRel(<, Nat)
    BY <2>1, <2>2, Zenon DEF OpToRel
  <2> QED BY <1>2, <2>3
<1>4. PICK x \in S : m = n - x
  OBVIOUS
<1>5. ASSUME NEW y \in S PROVE x >= y
  <2>1. n - y \in B /\ ~(n - y < m)
    BY <1>3
  <2> QED BY <1>4, <2>1
<1> QED BY <1>5 DEF Max

\* In force, and confirmed at some time
InForce(k) == status[k] \in {"pending", "active"}
WasInForce(k) == status[k] \notin {"none", "created"}

\* Key l was confirmed after k, or is k
NotAfter(k, l) == \E i, j \in DOMAIN order : i <= j /\ order[i] = k /\ order[j] = l

\* The user has at most one key in force, but for the only admin, whose keys are in force at once
KeysFit ==
  /\ \A i, j \in DOMAIN order : order[i] = order[j] => i = j
  /\ \A k \in Slots : InForce(k) => \E i \in DOMAIN order : order[i] = k
  /\ \A i \in DOMAIN order : WasInForce(order[i])
  /\ solo => \A k \in Slots : status[k] \notin {"created", "pending"}
  /\ ~solo => \A k, l \in Slots : InForce(k) /\ InForce(l) => k = l
  /\ managed => \A k \in Slots : status[k] = "none"

\* What is confirmed was shown; nothing is shown where a key is still being created
CallFits(c) ==
  /\ c.op = "confirm" => c.key # None0 /\ c.key \in saved
  /\ c.op = "confirm" /\ c.pc = "ok" => status[c.key] # "created"
  /\ c.op = "create" => (c.pc = "sent" <=> c.key = None0)
  /\ c.key # None0 => status[c.key] # "none"

CallsFit ==
  /\ \A c \in requests : CallFits(c)
  /\ \A c, d \in requests : c.op = "create" /\ d.op = "create" /\ c.here /\ d.here => c = d
  /\ Pending("create") => shown = None0
  /\ shown # None0 => status[shown] # "none"
  /\ managed => requests = {}

\* The gate that is shown has come to what it shows, and one that is not there has come to nothing
ScreenFits ==
  /\ page # "gated" => gate = "loading" /\ testing = NoTest /\ ~typed.here
  /\ page = "gated" /\ shown # None0 => gate \in {"needs_create", "needs_approval"}
  /\ page = "reset" /\ step = 1 => shown = None0
  /\ gate = "needs_create" => known.key = None0 \/ inProgress

\* A passphrase that is kept, tested or answered was of a key in force
PassFits ==
  /\ pass # None0 => WasInForce(pass)
  /\ testing.pc # "idle" => testing.pass # None0 /\ WasInForce(testing.pass)
  /\ typed.pc = "yes" => typed.pass # None0 /\ WasInForce(typed.pass)

\* What the server has said of a passphrase still stands, or it is excused
SaidFits ==
  /\ testing.pc = "yes" /\ ~excused => testing.pass = TestedKey
  /\ testing.pc # "idle" /\ testing.pass = TestedKey /\ ~excused => pass = testing.pass
  /\ typed.pc = "yes" /\ typed.here /\ ~excused => typed.pass = TestedKey
  /\ typed.pc = "yes" /\ pass # None0 /\ InForce(pass) /\ InForce(typed.pass) => NotAfter(pass, typed.pass)

\* Where the user has a key and me has none, or is about to say so, there is a reason
MeFits ==
  /\ CurrentKey # None0 /\ known.key = None0 => fetch # NoFetch \/ behind # {}
  /\ CurrentKey # None0 /\ fetch.pc = "answered" /\ fetch.answer.key = None0 => behind # {}

\* What every step keeps
GateInv ==
  /\ VaultGateTypeOK /\ KeysFit /\ CallsFit /\ ScreenFits /\ PassFits /\ SaidFits /\ MeFits
  /\ OpenFits /\ RetiredForgotten
-----------------------------------------------------------------------------
(* The keys in force *)

\* The keys are numbers, and none of them stands for no key.
LEMMA SlotsAre == MaxKeys \in Nat /\ MaxKeys # 0 /\ Slots \subseteq Nat \ {0} /\ None0 \notin Slots
BY GateAssumption DEF Slots, None0

\* The last key whose status is in S, if there is one.
LEMMA LastInIs ==
  ASSUME order \in Seq(Slots), NEW S
  PROVE  \/ LastIn(S) = None0 /\ \A i \in DOMAIN order : status[order[i]] \notin S
         \/ \E j \in DOMAIN order :
              /\ LastIn(S) = order[j] /\ status[order[j]] \in S /\ order[j] \in Slots
              /\ \A i \in DOMAIN order : status[order[i]] \in S => i <= j
<1> DEFINE of == {i \in DOMAIN order : status[order[i]] \in S}
<1>1. CASE of = {}
  BY <1>1 DEF LastIn
<1>2. CASE of # {}
  <2>1. DOMAIN order = 1 .. Len(order) /\ Len(order) \in Nat
    OBVIOUS
  <2>2. of \in SUBSET (0 .. Len(order))
    BY <2>1
  <2> DEFINE j == Max(of)
  <2>3. j \in of /\ \A y \in of : y <= j
    BY <1>2, <2>1, <2>2, LastIsMember
  <2>4. LastIn(S) = order[j]
    BY <1>2 DEF LastIn
  <2>5. j \in DOMAIN order /\ status[order[j]] \in S /\ order[j] \in Slots
    BY <2>3
  <2>6. \A i \in DOMAIN order : status[order[i]] \in S => i <= j
    BY <2>3
  <2> QED BY <2>4, <2>5, <2>6
<1> QED BY <1>1, <1>2

\* The key a passphrase is tried with is the last of those in force.
LEMMA TestedIs ==
  ASSUME VaultGateTypeOK, KeysFit
  PROVE  /\ TestedKey = None0 => \A k \in Slots : ~InForce(k)
         /\ TestedKey # None0 => TestedKey \in Slots /\ InForce(TestedKey)
         /\ \A k \in Slots : InForce(k) => NotAfter(k, TestedKey)
<1>0. order \in Seq(Slots) /\ \A k \in Slots : status[k] \in {"none", "created", "pending", "active", "revoked"}
  BY DEF VaultGateTypeOK
<1>1. \/ LastIn({"active"}) = None0 /\ \A i \in DOMAIN order : status[order[i]] # "active"
      \/ \E j \in DOMAIN order :
           /\ LastIn({"active"}) = order[j] /\ status[order[j]] = "active" /\ order[j] \in Slots
           /\ \A i \in DOMAIN order : status[order[i]] = "active" => i <= j
  BY <1>0, LastInIs
<1>2. \/ LastIn({"pending"}) = None0 /\ \A i \in DOMAIN order : status[order[i]] # "pending"
      \/ \E j \in DOMAIN order :
           /\ LastIn({"pending"}) = order[j] /\ status[order[j]] = "pending" /\ order[j] \in Slots
           /\ \A i \in DOMAIN order : status[order[i]] = "pending" => i <= j
  BY <1>0, LastInIs
<1>3. DOMAIN order \subseteq Int /\ \A i \in DOMAIN order : order[i] \in Slots
  BY <1>0
<1>4. CASE solo
  <2>1. \A k \in Slots : InForce(k) <=> status[k] = "active"
    BY <1>4 DEF KeysFit, InForce
  <2>2. ~\E j \in DOMAIN order : status[order[j]] = "pending"
    BY <1>4, <1>3 DEF KeysFit
  <2>3. TestedKey = LastIn({"active"})
    BY <1>2, <2>2 DEF TestedKey
  <2>4. \A k \in Slots : InForce(k) => \E i \in DOMAIN order : order[i] = k
    BY DEF KeysFit
  <2>5. CASE TestedKey = None0 /\ \A i \in DOMAIN order : status[order[i]] # "active"
    BY <2>1, <2>4, <2>5
  <2>6. CASE \E j \in DOMAIN order :
               /\ TestedKey = order[j] /\ status[order[j]] = "active" /\ order[j] \in Slots
               /\ \A i \in DOMAIN order : status[order[i]] = "active" => i <= j
    <3>1. PICK j \in DOMAIN order :
               /\ TestedKey = order[j] /\ status[order[j]] = "active" /\ order[j] \in Slots
               /\ \A i \in DOMAIN order : status[order[i]] = "active" => i <= j
      BY <2>6
    <3>2. \A k \in Slots : InForce(k) => NotAfter(k, TestedKey)
      BY <2>1, <2>4, <3>1 DEF NotAfter
    <3> QED BY <2>1, <3>1, <3>2, SlotsAre
  <2> QED BY <1>1, <2>3, <2>5, <2>6
<1>5. CASE ~solo
  <2>0. ASSUME NEW j \in DOMAIN order, TestedKey = order[j], InForce(order[j])
        PROVE  /\ TestedKey # None0 /\ TestedKey \in Slots /\ InForce(TestedKey)
               /\ \A k \in Slots : InForce(k) => NotAfter(k, TestedKey)
    <3>1. order[j] \in Slots /\ j <= j
      BY <1>3
    <3>2. NotAfter(order[j], order[j])
      BY <3>1 DEF NotAfter
    <3>3. \A k \in Slots : InForce(k) => k = order[j]
      BY <1>5, <2>0, <3>1 DEF KeysFit
    <3> QED BY <2>0, <3>1, <3>2, <3>3, SlotsAre
  <2>1. CASE LastIn({"active"}) # None0
    <3>1. PICK j \in DOMAIN order : LastIn({"active"}) = order[j] /\ status[order[j]] = "active" /\ order[j] \in Slots
      BY <1>1, <2>1
    <3>2. TestedKey = order[j]
      BY <2>1, <3>1 DEF TestedKey
    <3> QED BY <2>0, <3>1, <3>2 DEF InForce
  <2>2. CASE LastIn({"active"}) = None0 /\ LastIn({"pending"}) # None0
    <3>1. PICK j \in DOMAIN order : LastIn({"pending"}) = order[j] /\ status[order[j]] = "pending" /\ order[j] \in Slots
      BY <1>2, <2>2
    <3>2. TestedKey = order[j]
      BY <2>2, <3>1 DEF TestedKey
    <3> QED BY <2>0, <3>1, <3>2 DEF InForce
  <2>3. CASE LastIn({"active"}) = None0 /\ LastIn({"pending"}) = None0
    <3>0. \A i \in DOMAIN order : status[order[i]] # "active" /\ status[order[i]] # "pending"
      BY <1>1, <1>2, <2>3, SlotsAre
    <3>1. \A k \in Slots : ~InForce(k)
      BY <3>0 DEF KeysFit, InForce
    <3>2. TestedKey = None0
      BY <2>3 DEF TestedKey
    <3> QED BY <3>1, <3>2
  <2> QED BY <2>1, <2>2, <2>3
<1> QED BY <1>4, <1>5

\* The current key is one in force, if there is any.
LEMMA CurrentIs ==
  ASSUME VaultGateTypeOK, KeysFit
  PROVE  /\ CurrentKey \in {None0} \cup Slots
         /\ CurrentKey # None0 <=> \E k \in Slots : InForce(k)
<1>0. order \in Seq(Slots)
  BY DEF VaultGateTypeOK
<1>1. \/ CurrentKey = None0 /\ \A i \in DOMAIN order : ~InForce(order[i])
      \/ \E j \in DOMAIN order : CurrentKey = order[j] /\ InForce(order[j]) /\ order[j] \in Slots
  BY <1>0, LastInIs DEF CurrentKey, InForce
<1>2. \A k \in Slots : InForce(k) => \E i \in DOMAIN order : order[i] = k
  BY DEF KeysFit
<1>3. CASE CurrentKey = None0 /\ \A i \in DOMAIN order : ~InForce(order[i])
  BY <1>2, <1>3
<1>4. CASE \E j \in DOMAIN order : CurrentKey = order[j] /\ InForce(order[j]) /\ order[j] \in Slots
  BY <1>4, SlotsAre
<1> QED BY <1>1, <1>3, <1>4

\* What the server says of the user now.
LEMMA MeNowIs ==
  ASSUME VaultGateTypeOK, KeysFit
  PROVE  MeNow \in Known /\ MeNow.key = CurrentKey
<1>1. PICK b \in BOOLEAN : b = (CurrentKey # None0 /\ status[CurrentKey] = "active")
  OBVIOUS
<1>2. MeNow = [key |-> CurrentKey, approved |-> b]
  BY <1>1 DEF MeNow
<1> QED BY <1>2, CurrentIs DEF Known

\* Of two keys each not after the other, and of two confirmed at one place, there is one.
LEMMA OnePlace ==
  ASSUME VaultGateTypeOK, KeysFit, NEW k, NEW l, NotAfter(k, l), NotAfter(l, k)
  PROVE  k = l
<1>0. order \in Seq(Slots) /\ DOMAIN order \subseteq Int
  BY DEF VaultGateTypeOK
<1>1. PICK i, j \in DOMAIN order : i <= j /\ order[i] = k /\ order[j] = l
  BY DEF NotAfter
<1>2. PICK ii, jj \in DOMAIN order : jj <= ii /\ order[ii] = k /\ order[jj] = l
  BY DEF NotAfter
<1>3. i = ii /\ j = jj
  BY <1>1, <1>2 DEF KeysFit
<1> QED BY <1>0, <1>1, <1>2, <1>3

\* A key that is the last in force is the one tried.
LEMMA TestedWhen ==
  ASSUME VaultGateTypeOK, KeysFit, NEW k \in Slots, InForce(k), \A l \in Slots : InForce(l) => NotAfter(l, k)
  PROVE  TestedKey = k
<1>1. TestedKey \in Slots /\ InForce(TestedKey) /\ NotAfter(k, TestedKey)
  BY TestedIs
<1> QED BY <1>1, OnePlace
-----------------------------------------------------------------------------
(* The same, of this state and the next *)

KeyFacts ==
  /\ TestedKey = None0 => \A k \in Slots : ~InForce(k)
  /\ TestedKey # None0 => TestedKey \in Slots /\ InForce(TestedKey)
  /\ \A k \in Slots : InForce(k) => NotAfter(k, TestedKey)
  /\ \A k \in Slots : InForce(k) /\ (\A l \in Slots : InForce(l) => NotAfter(l, k)) => TestedKey = k
  /\ CurrentKey \in {None0} \cup Slots
  /\ CurrentKey # None0 <=> \E k \in Slots : InForce(k)
  /\ MeNow \in Known /\ MeNow.key = CurrentKey

\* All of these, before a step and after it.
LEMMA KeyFactsHold == VaultGateTypeOK /\ KeysFit => KeyFacts
BY TestedIs, CurrentIs, MeNowIs, TestedWhen DEF KeyFacts

LEMMA KeyFactsNext == (VaultGateTypeOK /\ KeysFit => KeyFacts)'
BY KeyFactsHold, PTL

\* The keys in force being the same, so is the one that is tried.
LEMMA TestedSame ==
  ASSUME VaultGateTypeOK, KeysFit, VaultGateTypeOK', KeysFit', order' = order,
         \A k \in Slots : InForce(k)' <=> InForce(k)
  PROVE  TestedKey' = TestedKey /\ (CurrentKey' # None0 <=> CurrentKey # None0)
<1>1. KeyFacts /\ KeyFacts'
  BY KeyFactsHold, KeyFactsNext
<1>2. PICK u : u = TestedKey'
  OBVIOUS
<1>3. /\ u = None0 => \A k \in Slots : ~InForce(k)
      /\ u # None0 => u \in Slots /\ InForce(u)
      /\ \A k \in Slots : InForce(k) => NotAfter(k, u)
  BY <1>1, <1>2 DEF KeyFacts, NotAfter
<1>4. CASE u = None0
  BY <1>1, <1>2, <1>3, <1>4, SlotsAre DEF KeyFacts
<1>5. CASE u # None0
  BY <1>1, <1>2, <1>3, <1>5 DEF KeyFacts
<1>6. CurrentKey' # None0 <=> \E k \in Slots : InForce(k)
  BY <1>1 DEF KeyFacts
<1>7. CurrentKey # None0 <=> \E k \in Slots : InForce(k)
  BY <1>1 DEF KeyFacts
<1> QED BY <1>2, <1>4, <1>5, <1>6, <1>7
-----------------------------------------------------------------------------
(* The gate's effects *)

\* What a gate may show, and on which of its screens a key is shown
Shows == {"loading", "needs_create", "needs_approval", "needs_unlock", "unlocked"}
Screens == {"needs_create", "needs_approval"}
\* The tests of a passphrase
TestOf == [pass : {None0} \cup Slots, pc : {"idle", "sent", "yes", "no"}, here : BOOLEAN]

\* A test that was not begun, and one that was.
LEMMA TestsAre ==
  /\ NoTest \in TestOf /\ NoTest.pc = "idle" /\ NoTest.pass = None0 /\ NoTest.here = FALSE
  /\ \A k \in {None0} \cup Slots : Testing(k) \in TestOf /\ Testing(k).pc = "sent" /\ Testing(k).pass = k /\ Testing(k).here = TRUE
BY DEF NoTest, Testing, TestOf

\* What the effects of a render come to.
LEMMA SettledIs ==
  ASSUME VaultGateTypeOK, NEW to \in {"gated", "reset"}, NEW g \in Shows, NEW m \in Known, NEW w \in {None0} \cup Slots,
         NEW d \in BOOLEAN, NEW i \in BOOLEAN, NEW t \in TestOf, NEW sh \in {None0} \cup Slots,
         Settled(to, g, m, w, d, i, t, sh)
  PROVE  /\ page' = to /\ known' = m /\ pass' = w
         /\ gate' \in Shows /\ complete' \in BOOLEAN /\ inProgress' \in BOOLEAN /\ testing' \in TestOf
         /\ shown' \in {None0, sh}
         /\ to # "gated" => gate' = "loading" /\ testing' = NoTest /\ shown' = sh
         /\ to = "gated" /\ shown' # None0 => gate' \in Screens
         /\ to = "gated" /\ shown' # sh => gate' \notin Screens
         /\ gate' = "unlocked" => to = "gated" /\ (g = "unlocked" \/ managed)
         /\ to = "gated" /\ g = "unlocked" => gate' = "unlocked"
         /\ gate' = "loading" => to # "gated" \/ g = "loading"
         /\ gate' = "needs_create" => m.key = None0 \/ inProgress'
         /\ testing' \in {NoTest, t, Testing(w)}
         /\ testing' # t /\ testing' # NoTest => w # None0
<1>0. /\ page' = to /\ known' = m /\ pass' = w
  BY DEF Settled
<1>1. PICK done \in BOOLEAN : done = (d /\ (w # None0 \/ w = pass))
  OBVIOUS
<1>2. PICK going \in BOOLEAN : going = (i /\ (w # None0 \/ w = pass))
  OBVIOUS
<1>3. CASE to # "gated"
  <2>1. gate' = "loading" /\ complete' = FALSE /\ inProgress' = FALSE /\ testing' = NoTest /\ shown' = sh
    BY <1>3 DEF Settled
  <2> QED BY <1>0, <1>3, <2>1, TestsAre DEF Shows, Screens
<1>4. CASE to = "gated"
  <2>1. /\ gate' = Judged(g, m, w, done, going)
        /\ complete' = done
        /\ inProgress' = (going \/ Tests(g, m, w, done, going))
        /\ testing' = IF Tests(g, m, w, done, going) THEN Testing(w) ELSE t
        /\ shown' = IF gate' \in Screens THEN sh ELSE None0
    BY <1>1, <1>2, <1>4 DEF Settled, Screens
  <2>2. gate' \in Shows /\ (gate' = "unlocked" => g = "unlocked" \/ managed) /\ (g = "unlocked" => gate' = "unlocked")
        /\ (gate' = "loading" => g = "loading")
    BY <2>1 DEF Judged, Shows
  <2>3. gate' = "needs_create" => m.key = None0 \/ inProgress'
    BY <2>1, <1>2 DEF Judged, Tests
  <2>4. testing' \in TestOf /\ testing' \in {NoTest, t, Testing(w)} /\ (testing' # t => w # None0)
    BY <2>1, TestsAre DEF Tests
  <2>5. complete' \in BOOLEAN /\ inProgress' \in BOOLEAN
    <3>1. PICK b \in BOOLEAN : b = (going \/ Tests(g, m, w, done, going))
      OBVIOUS
    <3> QED BY <2>1, <3>1
  <2>6. shown' \in {None0, sh} /\ (shown' # None0 => gate' \in Screens) /\ (shown' # sh => gate' \notin Screens)
    BY <2>1
  <2> QED BY <1>0, <1>4, <2>2, <2>3, <2>4, <2>5, <2>6
<1> QED BY <1>3, <1>4
-----------------------------------------------------------------------------
(* The type of the state *)

\* The keys not made yet.
LEMMA FreshIs ==
  ASSUME Fresh # {}
  PROVE  Fresh \subseteq Slots /\ Min(Fresh) \in Fresh /\ Max(Fresh) \in Fresh
<1>1. Fresh \subseteq Slots /\ Slots = 1 .. MaxKeys /\ MaxKeys \in Nat
  BY SlotsAre DEF Fresh, Slots
<1>2. Fresh \in SUBSET Nat /\ Fresh \in SUBSET (0 .. MaxKeys)
  BY <1>1
<1>3. Min(Fresh) \in Fresh
  BY <1>2, FirstIsMember
<1>4. Max(Fresh) \in Fresh
  BY <1>1, <1>2, LastIsMember
<1> QED BY <1>1, <1>3, <1>4

\* The fetches of me
FetchOf == [pc : {"idle", "sent", "answered"}, answer : Known]

\* The fetches that a step begins or ends.
LEMMA FetchesAre ==
  /\ NoFetch \in FetchOf /\ NoFetch.pc = "idle"
  /\ Fetch \in FetchOf /\ Fetch.pc = "sent"
  /\ \A m \in Known : [pc |-> "answered", answer |-> m] \in FetchOf
<1>1. PICK no \in BOOLEAN : no = FALSE
  OBVIOUS
<1>2. [key |-> None0, approved |-> no] \in Known
  BY DEF Known
<1>3. NoUser \in Known
  BY <1>1, <1>2, Zenon DEF NoUser
<1>4. NoFetch = [pc |-> "idle", answer |-> NoUser]
  BY DEF NoFetch
<1>5. Fetch = [pc |-> "sent", answer |-> NoUser]
  BY <1>4 DEF Fetch
<1> QED BY <1>3, <1>4, <1>5 DEF FetchOf

\* What becomes of a key
StatusOf == {"none", "created", "pending", "active", "revoked"}

\* The parts of the type, each by itself
Typed ==
  /\ status \in [Slots -> StatusOf] /\ order \in Seq(Slots)
  /\ solo \in BOOLEAN /\ managed \in BOOLEAN /\ complete \in BOOLEAN /\ inProgress \in BOOLEAN
  /\ excused \in BOOLEAN
  /\ known \in Known /\ fetch \in FetchOf
  /\ page \in {"gated", "reset"} /\ pass \in {None0} \cup Slots
  /\ gate \in Shows /\ testing \in TestOf /\ typed \in TestOf
  /\ step \in 1..3 /\ shown \in {None0} \cup Slots /\ requests \subseteq KeyCall
  /\ saved \subseteq Slots /\ behind \subseteq {"missed", "unanswered"} /\ untold \subseteq Slots
  /\ changes \in 0..MaxChangesOfKeys

\* It is the same type, before a step and after it.
LEMMA TypedIs == VaultGateTypeOK <=> Typed
BY DEF VaultGateTypeOK, Typed, FetchOf, StatusOf, Shows, TestOf

LEMMA TypedNext == (VaultGateTypeOK <=> Typed)'
BY TypedIs, PTL

\* A call that is sent.
LEMMA CallsAre ==
  ASSUME NEW op \in {"create", "confirm"}, NEW k \in {None0} \cup Slots, page \in {"gated", "reset"}
  PROVE  /\ Call(op, k) \in KeyCall /\ Call(op, k).op = op /\ Call(op, k).key = k
         /\ Call(op, k).here = TRUE /\ Call(op, k).pc = "sent"
<1>1. PICK b \in BOOLEAN : b = TRUE
  OBVIOUS
<1>2. PICK n : n = [op |-> op, key |-> k, from |-> page, here |-> b, pc |-> "sent"]
  OBVIOUS
<1>3. n \in KeyCall /\ n.op = op /\ n.key = k /\ n.here = b /\ n.pc = "sent"
  BY <1>2 DEF KeyCall
<1>4. n = Call(op, k)
  BY <1>1, <1>2, Zenon DEF Call
<1> QED BY <1>1, <1>3, <1>4

\* The page that sent a call is left
LEMMA LeftBehind ==
  ASSUME NEW c \in KeyCall
  PROVE  /\ [c EXCEPT !.here = FALSE] \in KeyCall /\ [c EXCEPT !.here = FALSE].here = FALSE
         /\ [c EXCEPT !.here = FALSE].op = c.op /\ [c EXCEPT !.here = FALSE].key = c.key
         /\ [c EXCEPT !.here = FALSE].pc = c.pc
<1>1. PICK b \in BOOLEAN : b = FALSE
  OBVIOUS
<1>2. PICK n : n = [c EXCEPT !.here = b]
  OBVIOUS
<1>3. n \in KeyCall /\ n.op = c.op /\ n.key = c.key /\ n.here = b /\ n.pc = c.pc
  BY <1>2 DEF KeyCall
<1>4. n = [c EXCEPT !.here = FALSE]
  BY <1>1, <1>2, Zenon
<1> QED BY <1>1, <1>3, <1>4

\* The page that sent a test is left.
LEMMA LeftTest ==
  ASSUME NEW t \in TestOf
  PROVE  /\ [t EXCEPT !.here = FALSE] \in TestOf /\ [t EXCEPT !.here = FALSE].here = FALSE
         /\ [t EXCEPT !.here = FALSE].pass = t.pass /\ [t EXCEPT !.here = FALSE].pc = t.pc
<1>1. PICK b \in BOOLEAN : b = FALSE
  OBVIOUS
<1>2. PICK n : n = [t EXCEPT !.here = b]
  OBVIOUS
<1>3. n \in TestOf /\ n.pass = t.pass /\ n.here = b /\ n.pc = t.pc
  BY <1>2 DEF TestOf
<1>4. n = [t EXCEPT !.here = FALSE]
  BY <1>1, <1>2, Zenon
<1> QED BY <1>1, <1>3, <1>4

\* A test that is answered.
LEMMA AnswersOnce ==
  ASSUME NEW t \in TestOf, NEW a \in {"yes", "no"}
  PROVE  /\ [t EXCEPT !.pc = a] \in TestOf /\ [t EXCEPT !.pc = a].pc = a
         /\ [t EXCEPT !.pc = a].pass = t.pass /\ [t EXCEPT !.pc = a].here = t.here
BY DEF TestOf

\* A call that is served.
LEMMA Served ==
  ASSUME NEW c \in KeyCall, NEW k \in {None0} \cup Slots, NEW a \in {"ok", "failed"}
  PROVE  /\ [c EXCEPT !.key = k, !.pc = a] \in KeyCall
         /\ [c EXCEPT !.key = k, !.pc = a].op = c.op /\ [c EXCEPT !.key = k, !.pc = a].key = k
         /\ [c EXCEPT !.key = k, !.pc = a].here = c.here /\ [c EXCEPT !.key = k, !.pc = a].pc = a
         /\ [c EXCEPT !.pc = a] \in KeyCall
         /\ [c EXCEPT !.pc = a].op = c.op /\ [c EXCEPT !.pc = a].key = c.key
         /\ [c EXCEPT !.pc = a].here = c.here /\ [c EXCEPT !.pc = a].pc = a
BY DEF KeyCall

\* Whoever is at the gate is excused.
LEMMA ExcusedIs == Excused \in BOOLEAN /\ (Excused <=> excused \/ page = "gated")
BY DEF Excused
-----------------------------------------------------------------------------
(* The steps that leave the keys alone *)

\* All else that is said of the keys stays too.
SameKeys ==
  /\ status' = status /\ order' = order /\ solo' = solo /\ managed' = managed
  /\ TestedKey' = TestedKey /\ CurrentKey' = CurrentKey

\* Steps of the tab leave the keys in the database alone.
LEMMA ServerStays ==
  ASSUME KeysFit, UNCHANGED serverVars
  PROVE  KeysFit' /\ SameKeys
<1>1. status' = status /\ order' = order /\ solo' = solo /\ managed' = managed
  BY DEF serverVars
<1>2. TestedKey' = TestedKey /\ CurrentKey' = CurrentKey
  BY <1>1 DEF TestedKey, CurrentKey, LastIn
<1>3. KeysFit'
  BY <1>1 DEF KeysFit, InForce, WasInForce
<1> QED BY <1>1, <1>2, <1>3 DEF SameKeys

\* me is asked for, and the server answers or fails.
LEMMA UserStep ==
  ASSUME GateInv, AskUser \/ ServeUser \/ FailUser
  PROVE  GateInv'
<1>1. UNCHANGED serverVars
  BY DEF AskUser, ServeUser, FailUser
<1>2. KeysFit' /\ SameKeys
  BY <1>1, ServerStays DEF GateInv
<1>3. /\ known' = known /\ page' = page /\ pass' = pass /\ gate' = gate /\ complete' = complete
      /\ inProgress' = inProgress /\ testing' = testing /\ typed' = typed /\ step' = step /\ shown' = shown
      /\ requests' = requests /\ saved' = saved /\ excused' = excused /\ untold' = untold /\ changes' = changes
  BY DEF AskUser, ServeUser, FailUser, gateVars, gateHistory, meVars
<1>4. Typed /\ KeyFacts
  BY TypedIs, KeyFactsHold DEF GateInv
<1>5. fetch' \in FetchOf /\ behind' \subseteq {"missed", "unanswered"}
  BY <1>4, FetchesAre DEF AskUser, ServeUser, FailUser, gateHistory, Typed, KeyFacts
<1>6. Typed'
  BY <1>2, <1>3, <1>4, <1>5 DEF Typed, SameKeys
<1>7. CallsFit' /\ ScreenFits' /\ PassFits' /\ SaidFits' /\ OpenFits' /\ RetiredForgotten'
  BY <1>2, <1>3 DEF GateInv, SameKeys, CallsFit, CallFits, Pending, ScreenFits, PassFits, WasInForce, SaidFits, InForce,
       NotAfter, OpenFits, RetiredForgotten
<1>8. MeFits'
  <2>1. CASE AskUser
    BY <2>1, <1>2, <1>3, FetchesAre DEF AskUser, MeFits, GateInv, SameKeys, gateHistory
  <2>2. CASE ServeUser
    <3>1. fetch' # NoFetch
      BY <2>2, FetchesAre DEF ServeUser
    <3>2. fetch'.answer.key = CurrentKey
      BY <2>2, <1>4 DEF ServeUser, KeyFacts
    <3> QED BY <3>1, <3>2, <1>2 DEF MeFits, SameKeys
  <2>3. CASE FailUser
    BY <2>3 DEF FailUser, MeFits
  <2> QED BY <2>1, <2>2, <2>3
<1> QED BY <1>2, <1>6, <1>7, <1>8, TypedNext DEF GateInv

\* A passphrase is sent, and the server says whether it opens the key.
LEMMA AskedStep ==
  ASSUME GateInv, Unlock \/ ServeTest \/ ServeUnlock
  PROVE  GateInv'
<1>1. UNCHANGED serverVars
  BY DEF Unlock, ServeTest, ServeUnlock
<1>2. KeysFit' /\ SameKeys
  BY <1>1, ServerStays DEF GateInv
<1>3. /\ known' = known /\ fetch' = fetch /\ page' = page /\ pass' = pass /\ gate' = gate /\ complete' = complete
      /\ inProgress' = inProgress /\ step' = step /\ shown' = shown
      /\ requests' = requests /\ saved' = saved /\ excused' = excused /\ untold' = untold /\ changes' = changes
      /\ behind' = behind
  BY DEF Unlock, ServeTest, ServeUnlock, gateVars, gateHistory, meVars
<1>4. Typed /\ KeyFacts
  BY TypedIs, KeyFactsHold DEF GateInv
<1>5. CallsFit' /\ OpenFits' /\ RetiredForgotten' /\ MeFits'
  BY <1>2, <1>3 DEF GateInv, SameKeys, CallsFit, CallFits, Pending, OpenFits, RetiredForgotten, MeFits
<1>6. ASSUME typed' \in TestOf, testing' \in TestOf PROVE Typed'
  BY <1>2, <1>3, <1>4, <1>6 DEF Typed, SameKeys
<1>7. CASE Unlock
  <2>1. PICK k \in saved \cup {None0} : typed' = Testing(k)
    BY <1>7 DEF Unlock
  <2>2. typed' \in TestOf /\ typed'.pc = "sent" /\ page = "gated" /\ testing' = testing
    BY <1>7, <2>1, <1>4, TestsAre DEF Unlock, Typed, gateVars
  <2>3. ScreenFits' /\ PassFits' /\ SaidFits'
    BY <2>2, <1>2, <1>3 DEF GateInv, SameKeys, ScreenFits, PassFits, WasInForce, SaidFits, InForce, NotAfter
  <2> QED BY <2>2, <2>3, <1>2, <1>4, <1>5, <1>6, TypedNext DEF GateInv, Typed
<1>8. CASE ServeTest
  <2>1. testing.pc = "sent" /\ testing' = [testing EXCEPT !.pc = Says(testing.pass)] /\ typed' = typed
    BY <1>8 DEF ServeTest
  <2>2. PICK a \in {"yes", "no"} : a = Says(testing.pass)
    BY DEF Says
  <2>3. /\ testing' \in TestOf /\ testing'.pc = a /\ testing'.pass = testing.pass
        /\ testing'.here = testing.here
    <3>1. PICK x \in TestOf : x = testing BY <1>4 DEF Typed
    <3>2. testing' = [x EXCEPT !.pc = a] BY <2>1, <2>2, <3>1
    <3> QED BY <3>1, <3>2, AnswersOnce
  <2>4. a = "yes" => TestedKey = testing.pass
    BY <2>2 DEF Says
  <2>5. page = "gated"
    BY <2>1, TestsAre DEF GateInv, ScreenFits
  <2>6. ScreenFits' /\ PassFits'
    BY <2>1, <2>3, <2>5, <1>2, <1>3 DEF GateInv, SameKeys, ScreenFits, PassFits, WasInForce
  <2>7. SaidFits'
    BY <2>1, <2>3, <2>4, <1>2, <1>3 DEF GateInv, SameKeys, SaidFits, InForce, NotAfter
  <2> QED BY <2>1, <2>3, <2>6, <2>7, <1>2, <1>4, <1>5, <1>6, TypedNext DEF GateInv, Typed
<1>9. CASE ServeUnlock
  <2>1. PICK a \in {"yes", "no"} : a = IF typed.pass = None0 THEN "no" ELSE Says(typed.pass)
    BY DEF Says
  <2>2. typed.pc = "sent" /\ typed' = [typed EXCEPT !.pc = a] /\ testing' = testing
    BY <1>9, <2>1 DEF ServeUnlock, gateVars
  <2>3. /\ typed' \in TestOf /\ typed'.pc = a /\ typed'.pass = typed.pass /\ typed'.here = typed.here
    <3>1. PICK x \in TestOf : x = typed BY <1>4 DEF Typed
    <3>2. typed' = [x EXCEPT !.pc = a] BY <2>2, <3>1
    <3> QED BY <3>1, <3>2, AnswersOnce
  <2>4. a = "yes" => typed.pass # None0 /\ TestedKey = typed.pass
    BY <2>1 DEF Says
  <2>5. a = "yes" => typed.pass \in Slots /\ InForce(typed.pass) /\ (pass # None0 /\ InForce(pass) => NotAfter(pass, typed.pass))
    BY <2>4, <1>4 DEF KeyFacts, Typed
  <2>6. ScreenFits' /\ PassFits'
    BY <2>2, <2>3, <2>5, <2>4, <1>2, <1>3 DEF GateInv, SameKeys, ScreenFits, PassFits, WasInForce, InForce
  <2>7. SaidFits'
    BY <2>2, <2>3, <2>4, <2>5, <1>2, <1>3 DEF GateInv, SameKeys, SaidFits, InForce, NotAfter
  <2> QED BY <2>2, <2>3, <2>6, <2>7, <1>2, <1>4, <1>5, <1>6, TypedNext DEF GateInv, Typed
<1> QED BY <1>7, <1>8, <1>9
-----------------------------------------------------------------------------
(* A key is created and confirmed: the tab's side *)

\* Of the tab, what these steps leave alone
SameGate ==
  /\ known' = known /\ page' = page /\ pass' = pass /\ gate' = gate /\ complete' = complete
  /\ inProgress' = inProgress /\ testing' = testing /\ typed' = typed

\* A key is asked for.
LEMMA SendStep ==
  ASSUME GateInv, CallCreate
  PROVE  GateInv'
<1>1. KeysFit' /\ SameKeys /\ SameGate
  BY ServerStays DEF GateInv, CallCreate, meVars, gateVars, SameGate
<1>2. Typed
  BY TypedIs DEF GateInv
<1>3. PICK c : c = Call("create", None0)
  OBVIOUS
<1>4. c \in KeyCall /\ c.op = "create" /\ c.key = None0 /\ c.here = TRUE /\ c.pc = "sent"
  BY <1>2, <1>3, CallsAre DEF Typed
<1>5. requests' = requests \cup {c} /\ ~Pending("create") /\ ~managed
  BY <1>3 DEF CallCreate, Send
<1>6. /\ fetch' = fetch /\ step' = step /\ shown' = shown /\ saved' = saved /\ excused' = excused
      /\ behind' = behind /\ untold' = untold /\ changes' = changes
  BY DEF CallCreate, meVars, gateHistory
<1>7. shown = None0
  BY DEF CallCreate, OfferedByGate, OfferedByReset, EmptyStep, GateInv, ScreenFits
<1>8. Typed'
  BY <1>1, <1>2, <1>4, <1>5, <1>6 DEF Typed, SameKeys, SameGate
<1>9. CallsFit'
  <2>1. \A d \in requests' : CallFits(d)'
    BY <1>1, <1>4, <1>5, <1>6 DEF GateInv, CallsFit, CallFits, SameKeys
  <2>2. \A d, e \in requests' : d.op = "create" /\ e.op = "create" /\ d.here /\ e.here => d = e
    BY <1>4, <1>5 DEF GateInv, CallsFit, Pending
  <2> QED BY <2>1, <2>2, <1>1, <1>5, <1>6, <1>7 DEF CallsFit, SameKeys
<1>10. ScreenFits' /\ PassFits' /\ SaidFits' /\ OpenFits' /\ MeFits'
  BY <1>1, <1>6 DEF GateInv, SameKeys, SameGate, ScreenFits, PassFits, WasInForce, SaidFits, InForce,
       NotAfter, OpenFits, MeFits
<1>11. RetiredForgotten'
  BY <1>1, <1>5, <1>6 DEF GateInv, SameKeys, SameGate, RetiredForgotten
<1> QED BY <1>1, <1>8, <1>9, <1>10, <1>11, TypedNext DEF GateInv

\* The user has saved the key, and confirms it.
LEMMA ConfirmStep ==
  ASSUME GateInv, Continue \/ CompleteReset
  PROVE  GateInv'
<1>1. KeysFit' /\ SameKeys /\ SameGate
  BY ServerStays DEF GateInv, Continue, CompleteReset, CallConfirm, meVars, gateVars, SameGate
<1>2. Typed
  BY TypedIs DEF GateInv
<1>3. PICK c : c = Call("confirm", shown)
  OBVIOUS
<1>4. c \in KeyCall /\ c.op = "confirm" /\ c.key = shown /\ c.here = TRUE /\ c.pc = "sent"
  BY <1>2, <1>3, CallsAre DEF Typed
<1>5. requests' = requests \cup {c} /\ saved' = saved \cup {shown}
  BY <1>3 DEF Continue, CompleteReset, CallConfirm, Send
<1>6. /\ fetch' = fetch /\ step' = step /\ shown' = shown /\ excused' = excused
      /\ behind' = behind /\ untold' = untold /\ changes' = changes
  BY DEF Continue, CompleteReset, CallConfirm, meVars
<1>7. shown # None0 /\ shown \in Slots
  BY <1>2, <1>6 DEF Continue, CompleteReset, EmptyStep, Typed
<1>8. Typed'
  BY <1>1, <1>2, <1>4, <1>5, <1>6, <1>7 DEF Typed, SameKeys, SameGate
<1>9. CallsFit'
  <2>1. \A d \in requests' : CallFits(d)'
    BY <1>1, <1>4, <1>5, <1>6, <1>7 DEF GateInv, CallsFit, CallFits, SameKeys
  <2>2. \A d, e \in requests' : d.op = "create" /\ e.op = "create" /\ d.here /\ e.here => d = e
    BY <1>4, <1>5 DEF GateInv, CallsFit
  <2>3. Pending("create")' => Pending("create")
    BY <1>4, <1>5 DEF Pending
  <2>4. ~managed'
    BY <1>1, <1>7 DEF SameKeys, GateInv, KeysFit, CallsFit
  <2> QED BY <2>1, <2>2, <2>3, <2>4, <1>1, <1>6 DEF CallsFit, SameKeys, GateInv
<1>10. ScreenFits' /\ PassFits' /\ SaidFits' /\ OpenFits' /\ MeFits'
  BY <1>1, <1>6 DEF GateInv, SameKeys, SameGate, ScreenFits, PassFits, WasInForce, SaidFits, InForce,
       NotAfter, OpenFits, MeFits
<1>11. RetiredForgotten'
  BY <1>1, <1>5, <1>6 DEF GateInv, SameKeys, SameGate, RetiredForgotten
<1> QED BY <1>1, <1>8, <1>9, <1>10, <1>11, TypedNext DEF GateInv

\* A key that was made is shown, or a call has failed.
LEMMA ShowStep ==
  ASSUME GateInv, NEW c \in requests, AnswerCreate(c) \/ FailCall(c)
  PROVE  GateInv'
<1>1. KeysFit' /\ SameKeys /\ SameGate
  BY ServerStays DEF GateInv, AnswerCreate, FailCall, meVars, gateVars, SameGate
<1>2. Typed /\ c \in KeyCall
  BY TypedIs DEF GateInv, Typed
<1>3. requests' = requests \ {c}
  BY DEF AnswerCreate, FailCall
<1>4. /\ fetch' = fetch /\ saved' = saved /\ excused' = excused /\ behind' = behind /\ changes' = changes
  BY DEF AnswerCreate, FailCall, meVars, gateHistory
<1>5. untold' = untold \/ untold' = untold \cup ({pass} \cap Slots)
  BY DEF AnswerCreate, FailCall, gateHistory
<1>6. \/ shown' = shown /\ step' = step
      \/ /\ c.op = "create" /\ c.pc = "ok" /\ c.here /\ (page = "gated" => gate \in Screens)
         /\ shown' = c.key /\ step' = (IF page = "reset" THEN 2 ELSE 1)
  BY DEF AnswerCreate, FailCall, Screens
<1>7. shown' \in {None0} \cup Slots /\ step' \in 1 .. 3
  BY <1>2, <1>6 DEF Typed, KeyCall
<1>8. Typed'
  BY <1>1, <1>2, <1>3, <1>4, <1>5, <1>7 DEF Typed, SameKeys, SameGate
<1>9. CallsFit'
  <2>1. \A d \in requests' : CallFits(d)'
    BY <1>1, <1>3, <1>4 DEF GateInv, CallsFit, CallFits, SameKeys
  <2>2. \A d, e \in requests' : d.op = "create" /\ e.op = "create" /\ d.here /\ e.here => d = e
    BY <1>3 DEF GateInv, CallsFit
  <2>3. Pending("create")' => shown' = None0
    BY <1>3, <1>6 DEF GateInv, CallsFit, Pending
  <2>4. shown' # None0 => status'[shown'] # "none"
    BY <1>1, <1>6 DEF GateInv, CallsFit, CallFits, SameKeys
  <2>5. managed' => requests' = {}
    BY <1>1 DEF GateInv, CallsFit, SameKeys
  <2> QED BY <2>1, <2>2, <2>3, <2>4, <2>5 DEF CallsFit
<1>10. ScreenFits'
  BY <1>1, <1>4, <1>6 DEF GateInv, ScreenFits, SameGate, Screens
<1>11. PassFits' /\ SaidFits' /\ OpenFits' /\ MeFits'
  BY <1>1, <1>4 DEF GateInv, SameKeys, SameGate, PassFits, WasInForce, SaidFits, InForce,
       NotAfter, OpenFits, MeFits
<1>12. RetiredForgotten'
  <2> SUFFICES ASSUME pass # None0, status[pass] = "revoked"
               PROVE  pass \in untold' \/ \E d \in requests' : d.op = "confirm" /\ d.pc = "ok"
    BY <1>1 DEF RetiredForgotten, SameKeys, SameGate
  <2>1. CASE pass \in untold
    BY <2>1, <1>5
  <2>2. CASE \E d \in requests \ {c} : d.op = "confirm" /\ d.pc = "ok"
    BY <2>2, <1>3
  <2>3. CASE c.op = "confirm" /\ c.pc = "ok"
    BY <2>3, <1>2 DEF AnswerCreate, FailCall, Typed
  <2> QED BY <2>1, <2>2, <2>3 DEF GateInv, RetiredForgotten
<1> QED BY <1>1, <1>8, <1>9, <1>10, <1>11, <1>12, TypedNext DEF GateInv
-----------------------------------------------------------------------------
(* The steps after which the gate's effects run *)

\* What the effects keep: to is the page, g the gate, w the passphrase, t the test and sh the key
\* shown before they run.
LEMMA SettledKeeps ==
  ASSUME GateInv, UNCHANGED serverVars,
         NEW to \in {"gated", "reset"}, NEW g \in Shows, NEW m \in Known, NEW w \in {None0} \cup Slots,
         NEW d \in BOOLEAN, NEW i \in BOOLEAN, NEW t \in TestOf, NEW sh \in {None0} \cup Slots,
         Settled(to, g, m, w, d, i, t, sh),
         w # None0 => WasInForce(w),
         t \in {NoTest, testing},
         typed'.pc = "yes" => typed.pc = "yes" /\ typed'.pass = typed.pass /\ w \in {None0, pass},
         typed'.here => typed.here /\ to = "gated" /\ (excused => excused'),
         to = "reset" /\ step' = 1 => sh = None0,
         t.pc # "idle" /\ to = "gated" /\ ~excused' => ~excused /\ (t.pass = TestedKey => w = t.pass),
         g = "unlocked" /\ ~managed /\ to = "gated" /\ ~excused' => w # None0 /\ w = TestedKey
  PROVE  /\ ScreenFits' /\ PassFits' /\ SaidFits' /\ OpenFits'
         /\ page' = to /\ known' = m /\ pass' = w
         /\ gate' \in Shows /\ complete' \in BOOLEAN /\ inProgress' \in BOOLEAN /\ testing' \in TestOf
         /\ shown' \in {None0, sh}
<1>1. KeysFit' /\ SameKeys
  BY ServerStays DEF GateInv
<1>2. /\ page' = to /\ known' = m /\ pass' = w
      /\ gate' \in Shows /\ complete' \in BOOLEAN /\ inProgress' \in BOOLEAN /\ testing' \in TestOf
      /\ shown' \in {None0, sh}
      /\ to # "gated" => gate' = "loading" /\ testing' = NoTest /\ shown' = sh
      /\ to = "gated" /\ shown' # None0 => gate' \in Screens
      /\ gate' = "unlocked" => to = "gated" /\ (g = "unlocked" \/ managed)
      /\ gate' = "needs_create" => m.key = None0 \/ inProgress'
      /\ testing' \in {NoTest, t, Testing(w)}
      /\ testing' # t /\ testing' # NoTest => w # None0
  BY SettledIs DEF GateInv
<1>3. ScreenFits'
  BY <1>2 DEF ScreenFits, Screens
<1>4. PassFits'
  <2>1. testing'.pc # "idle" => testing'.pass # None0 /\ WasInForce(testing'.pass)
    BY <1>2, TestsAre DEF GateInv, PassFits
  <2>2. typed'.pc = "yes" => typed'.pass # None0 /\ WasInForce(typed'.pass)
    BY DEF GateInv, PassFits
  <2> QED BY <1>1, <1>2, <2>1, <2>2 DEF PassFits, WasInForce, SameKeys
<1>5. SaidFits'
  <2>1. testing'.pc = "yes" /\ ~excused' => testing'.pass = TestedKey
    BY <1>2, TestsAre DEF GateInv, SaidFits
  <2>2. testing'.pc # "idle" /\ testing'.pass = TestedKey /\ ~excused' => pass' = testing'.pass
    BY <1>2, TestsAre
  <2>3. typed'.pc = "yes" /\ typed'.here /\ ~excused' => typed'.pass = TestedKey
    BY DEF GateInv, SaidFits
  <2>4. typed'.pc = "yes" /\ pass' # None0 /\ InForce(pass') /\ InForce(typed'.pass) => NotAfter(pass', typed'.pass)
    BY <1>2 DEF GateInv, SaidFits
  <2>5. /\ TestedKey' = TestedKey /\ (\A k : InForce(k)' <=> InForce(k))
        /\ \A k, l : NotAfter(k, l)' <=> NotAfter(k, l)
    BY <1>1 DEF SameKeys, InForce, NotAfter
  <2>6. typed'.pc = "yes" /\ pass' # None0 /\ InForce(pass)' /\ InForce(typed.pass)' => NotAfter(pass, typed.pass)'
    BY <1>1, <2>4 DEF SameKeys, InForce, NotAfter
  <2> QED BY <2>1, <2>2, <2>3, <2>5, <2>6 DEF SaidFits
<1>6. OpenFits'
  BY <1>1, <1>2 DEF OpenFits, SameKeys
<1> QED BY <1>2, <1>3, <1>4, <1>5, <1>6

\* Calls that end, and less that is shown
LEMMA CallsLess ==
  ASSUME GateInv, UNCHANGED serverVars, requests' \subseteq requests, saved' = saved, shown' \in {None0, shown}
  PROVE  CallsFit'
<1>1. KeysFit' /\ SameKeys
  BY ServerStays DEF GateInv
<1>2. \A c \in requests' : CallFits(c)'
  BY <1>1 DEF GateInv, CallsFit, CallFits, SameKeys
<1>3. \A c, d \in requests' : c.op = "create" /\ d.op = "create" /\ c.here /\ d.here => c = d
  BY DEF GateInv, CallsFit
<1>4. Pending("create")' => shown' = None0
  BY DEF GateInv, CallsFit, Pending
<1>5. (shown' # None0 => status'[shown'] # "none") /\ (managed' => requests' = {})
  BY <1>1 DEF GateInv, CallsFit, SameKeys
<1> QED BY <1>2, <1>3, <1>4, <1>5 DEF CallsFit

\* The user goes to the other page.
LEMMA GoStep ==
  ASSUME GateInv, NEW to \in {"gated", "reset"}, Go(to)
  PROVE  GateInv'
<1>1. /\ UNCHANGED serverVars /\ fetch' = fetch /\ saved' = saved /\ behind' = behind /\ untold' = untold
      /\ changes' = changes /\ step' = 1 /\ excused' = FALSE
      /\ requests' = {[c EXCEPT !.here = FALSE] : c \in requests}
      /\ typed' = [typed EXCEPT !.here = FALSE]
  BY DEF Go
<1>2. KeysFit' /\ SameKeys
  BY <1>1, ServerStays DEF GateInv
<1>3. Typed
  BY TypedIs DEF GateInv
<1>4. typed' \in TestOf /\ typed'.here = FALSE /\ typed'.pass = typed.pass /\ typed'.pc = typed.pc
  BY <1>1, <1>3, LeftTest DEF Typed
<1>5. PICK no \in BOOLEAN : no = FALSE
  OBVIOUS
<1>6. Settled(to, "loading", known, pass, no, no, NoTest, None0)
  BY <1>5, Zenon DEF Go
<1>7. "loading" \in Shows /\ known \in Known /\ pass \in {None0} \cup Slots /\ NoTest \in TestOf /\ NoTest.pc = "idle"
  BY <1>3, TestsAre DEF Shows, Typed
<1>8. pass # None0 => WasInForce(pass)
  BY DEF GateInv, PassFits
<1>9. ScreenFits' /\ PassFits' /\ SaidFits' /\ OpenFits'
  BY <1>1, <1>4, <1>6, <1>7, <1>8, SettledKeeps
<1>10. /\ page' = to /\ known' = known /\ pass' = pass
       /\ gate' \in Shows /\ complete' \in BOOLEAN /\ inProgress' \in BOOLEAN /\ testing' \in TestOf
       /\ shown' \in {None0, None0}
  BY <1>6, <1>7, SettledIs DEF GateInv
<1>11. requests' \subseteq KeyCall
  BY <1>1, <1>3, LeftBehind DEF Typed
<1>12. Typed'
  <2>1. excused' \in BOOLEAN
    BY <1>1, <1>5
  <2>2. step' \in 1 .. 3
    BY <1>1
  <2> QED BY <1>1, <1>2, <1>3, <1>4, <1>10, <1>11, <2>1, <2>2 DEF Typed, SameKeys
<1>13. CallsFit'
  <2>1. ASSUME NEW d \in requests' PROVE CallFits(d)' /\ d.here = FALSE
    <3>1. PICK c \in requests : d = [c EXCEPT !.here = FALSE]
      BY <1>1
    <3>2. d.here = FALSE /\ d.op = c.op /\ d.key = c.key /\ d.pc = c.pc
      BY <3>1, <1>3, LeftBehind DEF Typed
    <3>3. CallFits(c)
      BY DEF GateInv, CallsFit
    <3> QED BY <3>2, <3>3, <1>1, <1>2 DEF CallFits, SameKeys
  <2>2. managed' => requests' = {}
    BY <1>1, <1>2 DEF GateInv, CallsFit, SameKeys
  <2>3. ~Pending("create")'
    BY <2>1 DEF Pending
  <2> QED BY <2>1, <2>2, <2>3, <1>10 DEF CallsFit
<1>14. MeFits'
  BY <1>1, <1>2, <1>10 DEF GateInv, MeFits, SameKeys
<1>15. RetiredForgotten'
  <2> SUFFICES ASSUME pass # None0, status[pass] = "revoked", pass \notin untold
               PROVE  \E d \in requests' : d.op = "confirm" /\ d.pc = "ok"
    BY <1>1, <1>2, <1>10 DEF RetiredForgotten, SameKeys
  <2>1. PICK c \in requests : c.op = "confirm" /\ c.pc = "ok"
    BY DEF GateInv, RetiredForgotten
  <2>2. [c EXCEPT !.here = FALSE] \in requests'
    BY <1>1
  <2>3. [c EXCEPT !.here = FALSE].op = "confirm" /\ [c EXCEPT !.here = FALSE].pc = "ok"
    BY <2>1, <1>3, LeftBehind DEF Typed
  <2> QED BY <2>2, <2>3
<1> QED BY <1>2, <1>9, <1>12, <1>13, <1>14, <1>15, TypedNext DEF GateInv

\* What is known of the gate before a render
LEMMA GateIs ==
  ASSUME GateInv
  PROVE  /\ Typed /\ KeyFacts /\ page \in {"gated", "reset"} /\ gate \in Shows /\ known \in Known
         /\ pass \in {None0} \cup Slots /\ complete \in BOOLEAN /\ inProgress \in BOOLEAN
         /\ testing \in TestOf /\ typed \in TestOf /\ shown \in {None0} \cup Slots
         /\ (pass # None0 => WasInForce(pass))
         /\ (page = "gated" => (Excused <=> TRUE)) /\ (excused => Excused) /\ Excused \in BOOLEAN
         /\ (gate = "unlocked" => page = "gated") /\ (typed.here => page = "gated")
         /\ (testing.pc # "idle" => page = "gated")
BY TypedIs, KeyFactsHold, TestsAre, ExcusedIs DEF GateInv, Typed, PassFits, ScreenFits

\* The page and its gate stay, and the gate goes by m, w and sh
LEMMA RenderKeeps ==
  ASSUME GateInv, UNCHANGED serverVars,
         NEW m \in Known, NEW w \in {None0} \cup Slots, NEW sh \in {None0, shown}, Rendered(m, w, sh),
         w # None0 => WasInForce(w),
         typed'.pc = "yes" => typed.pc = "yes" /\ typed'.pass = typed.pass /\ w \in {None0, pass},
         typed'.here => typed.here /\ (excused => excused'),
         step' = step \/ step' = 3,
         excused => excused' \/ page # "gated",
         w = pass \/ (page = "gated" => excused') \/ (w # None0 /\ (pass = TestedKey => w = TestedKey))
  PROVE  /\ ScreenFits' /\ PassFits' /\ SaidFits' /\ OpenFits'
         /\ page' = page /\ known' = m /\ pass' = w
         /\ gate' \in Shows /\ complete' \in BOOLEAN /\ inProgress' \in BOOLEAN /\ testing' \in TestOf
         /\ shown' \in {None0, shown}
<1>0. sh \in {None0} \cup Slots
  BY GateIs
<1>1. Settled(page, gate, m, w, complete, inProgress, testing, sh)
  BY DEF Rendered
<1>2. PICK to \in {"gated", "reset"} : to = page
  BY GateIs
<1>3. PICK g \in Shows : g = gate
  BY GateIs
<1>4. PICK d \in BOOLEAN : d = complete
  BY GateIs
<1>5. PICK i \in BOOLEAN : i = inProgress
  BY GateIs
<1>6. PICK t \in TestOf : t = testing
  BY GateIs
<1>7. Settled(to, g, m, w, d, i, t, sh)
  BY <1>1, <1>2, <1>3, <1>4, <1>5, <1>6
<1>8. t \in {NoTest, testing}
  BY <1>6
<1>9. typed'.here => typed.here /\ to = "gated" /\ (excused => excused')
  BY <1>2, GateIs
<1>10. to = "reset" /\ step' = 1 => sh = None0
  BY <1>2 DEF GateInv, ScreenFits
<1>11. t.pc # "idle" /\ to = "gated" /\ ~excused' => ~excused /\ (t.pass = TestedKey => w = t.pass)
  BY <1>2, <1>6 DEF GateInv, SaidFits
<1>12. g = "unlocked" /\ ~managed /\ to = "gated" /\ ~excused' => w # None0 /\ w = TestedKey
  BY <1>2, <1>3 DEF GateInv, OpenFits
<1>13. /\ ScreenFits' /\ PassFits' /\ SaidFits' /\ OpenFits'
       /\ page' = to /\ known' = m /\ pass' = w
       /\ gate' \in Shows /\ complete' \in BOOLEAN /\ inProgress' \in BOOLEAN /\ testing' \in TestOf
       /\ shown' \in {None0, sh}
  BY <1>0, <1>7, <1>8, <1>9, <1>10, <1>11, <1>12, SettledKeeps
<1> QED BY <1>2, <1>13

\* The answer of me arrives.
LEMMA AnswerUserStep ==
  ASSUME GateInv, AnswerUser
  PROVE  GateInv'
<1>1. /\ UNCHANGED serverVars /\ fetch' = NoFetch /\ saved' = saved /\ untold' = untold /\ excused' = excused
      /\ changes' = changes /\ step' = step /\ requests' = requests /\ typed' = typed
      /\ behind' = (IF fetch.answer = MeNow THEN {} ELSE behind) /\ fetch.pc = "answered"
      /\ Settled(page, gate, fetch.answer, pass, complete, inProgress, testing, shown)
  BY DEF AnswerUser, Rendered
<1>2. KeysFit' /\ SameKeys
  BY <1>1, ServerStays DEF GateInv
<1>3. Typed /\ KeyFacts /\ fetch.answer \in Known
  BY GateIs DEF Typed, FetchOf
<1>4. Rendered(fetch.answer, pass, shown) /\ (pass # None0 => WasInForce(pass))
  BY GateIs DEF AnswerUser
<1>8. /\ ScreenFits' /\ PassFits' /\ SaidFits' /\ OpenFits'
      /\ page' = page /\ known' = fetch.answer /\ pass' = pass
      /\ gate' \in Shows /\ complete' \in BOOLEAN /\ inProgress' \in BOOLEAN /\ testing' \in TestOf
      /\ shown' \in {None0, shown}
  BY <1>1, <1>3, <1>4, GateIs, RenderKeeps
<1>9. Typed'
  BY <1>1, <1>2, <1>3, <1>8, FetchesAre DEF Typed, SameKeys
<1>10. CallsFit'
  BY <1>1, <1>8, CallsLess
<1>11. MeFits'
  BY <1>1, <1>2, <1>3, <1>8, FetchesAre DEF GateInv, MeFits, SameKeys, KeyFacts
<1>12. RetiredForgotten'
  BY <1>1, <1>2, <1>8 DEF GateInv, RetiredForgotten, SameKeys
<1> QED BY <1>2, <1>8, <1>9, <1>10, <1>11, <1>12, TypedNext DEF GateInv

\* The user locks the vault.
LEMMA LockStep ==
  ASSUME GateInv, Lock
  PROVE  GateInv'
<1>1. /\ UNCHANGED serverVars /\ fetch' = fetch /\ saved' = saved /\ untold' = untold /\ excused' = Excused
      /\ changes' = changes /\ step' = step /\ requests' = requests /\ typed' = typed
      /\ behind' = behind /\ page = "gated"
      /\ Rendered(known, None0, shown)
  BY DEF Lock
<1>2. KeysFit' /\ SameKeys
  BY <1>1, ServerStays DEF GateInv
<1>3. Typed /\ excused'
  BY <1>1, GateIs
<1>4. None0 \in {None0} \cup Slots
  OBVIOUS
<1>5. PICK m \in Known : m = known
  BY GateIs
<1>6. /\ ScreenFits' /\ PassFits' /\ SaidFits' /\ OpenFits'
      /\ page' = page /\ known' = known /\ pass' = None0
      /\ gate' \in Shows /\ complete' \in BOOLEAN /\ inProgress' \in BOOLEAN /\ testing' \in TestOf
      /\ shown' \in {None0, shown}
  <2>1. PICK w \in {None0} \cup Slots : w = None0
    BY <1>4
  <2>2. PICK sh \in {None0, shown} : sh = shown
    OBVIOUS
  <2>3. Rendered(m, w, sh)
    BY <1>1, <1>5, <2>1, <2>2
  <2>4. /\ w # None0 => WasInForce(w)
        /\ typed'.pc = "yes" => typed.pc = "yes" /\ typed'.pass = typed.pass /\ w \in {None0, pass}
        /\ typed'.here => typed.here /\ (excused => excused')
        /\ step' = step \/ step' = 3
        /\ excused => excused' \/ page # "gated"
        /\ w = pass \/ (page = "gated" => excused') \/ (w # None0 /\ (pass = TestedKey => w = TestedKey))
    BY <1>1, <1>3, <2>1
  <2>5. UNCHANGED serverVars
    BY <1>1
  <2>6. /\ ScreenFits' /\ PassFits' /\ SaidFits' /\ OpenFits'
        /\ page' = page /\ known' = m /\ pass' = w
        /\ gate' \in Shows /\ complete' \in BOOLEAN /\ inProgress' \in BOOLEAN /\ testing' \in TestOf
        /\ shown' \in {None0, shown}
    BY <2>3, <2>4, <2>5, RenderKeeps
  <2> QED BY <1>5, <2>1, <2>6
<1>8. Typed'
  BY <1>1, <1>2, <1>3, <1>6, GateIs DEF Typed, SameKeys
<1>9. CallsFit'
  BY <1>1, <1>6, CallsLess
<1>10. MeFits' /\ RetiredForgotten'
  BY <1>1, <1>2, <1>6 DEF GateInv, MeFits, SameKeys, RetiredForgotten
<1> QED BY <1>2, <1>6, <1>8, <1>9, <1>10, TypedNext DEF GateInv

\* What the server says of a typed passphrase arrives.
LEMMA AnswerUnlockStep ==
  ASSUME GateInv, AnswerUnlock
  PROVE  GateInv'
<1>1. /\ UNCHANGED serverVars /\ fetch' = fetch /\ saved' = saved /\ behind' = behind
      /\ changes' = changes /\ step' = step /\ requests' = requests /\ typed' = NoTest
  BY DEF AnswerUnlock
<1>2. KeysFit' /\ SameKeys
  BY <1>1, ServerStays DEF GateInv
<1>3. /\ untold' \subseteq Slots /\ excused' \in BOOLEAN /\ (excused => excused')
      /\ (pass' # pass /\ pass' # None0 /\ status[pass'] = "revoked" => pass' \in untold')
      /\ untold \subseteq untold'
      /\ \/ UNCHANGED <<known, page, pass, gateVars, shown, untold, excused>>
         \/ /\ typed.pc = "yes" /\ pass' = typed.pass
            /\ (page = "gated" /\ status[typed.pass] = "revoked" => excused')
            /\ (status[typed.pass] # "revoked" => excused' = excused)
            /\ \/ typed.here /\ Settled(page, "unlocked", known, typed.pass, TRUE, inProgress, testing, shown)
               \/ ~typed.here /\ Rendered(known, typed.pass, shown)
  <2>1. CASE UNCHANGED <<known, page, pass, gateVars, shown, untold, excused>>
    BY <2>1, GateIs DEF Typed
  <2>2. CASE /\ typed.pc = "yes"
             /\ IF typed.here THEN Settled(page, "unlocked", known, typed.pass, TRUE, inProgress, testing, shown)
                ELSE Rendered(known, typed.pass, shown)
             /\ IF status[typed.pass] = "revoked"
                THEN untold' = untold \cup {typed.pass} /\ excused' = Excused
                ELSE UNCHANGED <<untold, excused>>
    <3>1. typed.pass \in Slots
      BY <2>2, GateIs DEF GateInv, PassFits, TestOf
    <3>2. pass' = typed.pass
      BY <2>2 DEF Rendered, Settled
    <3>3. excused' \in BOOLEAN /\ (excused => excused')
      BY <2>2, GateIs DEF Typed
    <3>4. untold' \subseteq Slots /\ untold \subseteq untold'
      BY <2>2, <3>1, GateIs DEF Typed
    <3>5. page = "gated" /\ status[typed.pass] = "revoked" => excused'
      BY <2>2, GateIs
    <3> QED BY <2>2, <3>1, <3>2, <3>3, <3>4, <3>5
  <2> QED BY <2>1, <2>2 DEF AnswerUnlock
<1>4. CASE UNCHANGED <<known, page, pass, gateVars, shown, untold, excused>>
  <2>1. /\ known' = known /\ page' = page /\ pass' = pass /\ gate' = gate /\ complete' = complete
        /\ inProgress' = inProgress /\ testing' = testing /\ shown' = shown /\ untold' = untold /\ excused' = excused
    BY <1>4 DEF gateVars
  <2>2. Typed'
    BY <1>1, <1>2, <2>1, GateIs, TestsAre DEF Typed, SameKeys
  <2>3. CallsFit'
    BY <1>1, <2>1, CallsLess
  <2>4. ScreenFits' /\ PassFits' /\ SaidFits' /\ OpenFits' /\ MeFits' /\ RetiredForgotten'
    BY <1>1, <1>2, <2>1, TestsAre DEF GateInv, SameKeys, ScreenFits, PassFits, WasInForce, SaidFits, InForce,
       NotAfter, OpenFits, MeFits, RetiredForgotten
  <2> QED BY <1>2, <2>2, <2>3, <2>4, TypedNext DEF GateInv
<1>5. CASE /\ typed.pc = "yes" /\ pass' = typed.pass
           /\ (page = "gated" /\ status[typed.pass] = "revoked" => excused')
           /\ (status[typed.pass] # "revoked" => excused' = excused)
           /\ \/ typed.here /\ Settled(page, "unlocked", known, typed.pass, TRUE, inProgress, testing, shown)
              \/ ~typed.here /\ Rendered(known, typed.pass, shown)
  <2>1. typed.pass \in {None0} \cup Slots /\ typed.pass \in Slots /\ typed.pass # None0 /\ WasInForce(typed.pass)
    BY <1>5, GateIs DEF GateInv, PassFits, TestOf
  <2>2. typed'.pc # "yes" /\ ~typed'.here
    BY <1>1, TestsAre
  <2>3. /\ ScreenFits' /\ PassFits' /\ SaidFits' /\ OpenFits'
        /\ page' = page /\ known' = known /\ pass' = typed.pass
        /\ gate' \in Shows /\ complete' \in BOOLEAN /\ inProgress' \in BOOLEAN /\ testing' \in TestOf
        /\ shown' \in {None0, shown}
    <3>1. CASE typed.here
      <4>1. PICK to \in {"gated", "reset"} : to = page /\ to = "gated"
        BY <3>1, GateIs
      <4>2. PICK g \in Shows : g = "unlocked"
        BY DEF Shows
      <4>3. PICK d \in BOOLEAN : d = TRUE
        OBVIOUS
      <4>4. Settled(page, "unlocked", known, typed.pass, TRUE, inProgress, testing, shown)
        BY <1>5, <3>1
      <4>5. Settled(to, g, known, typed.pass, d, inProgress, testing, shown)
        BY <4>1, <4>2, <4>3, <4>4
      <4>6. ~excused' => typed.pass = TestedKey /\ ~excused
        BY <1>3, <1>5, <3>1 DEF GateInv, SaidFits
      <4>7. testing.pc # "idle" /\ to = "gated" /\ ~excused' => ~excused /\ (testing.pass = TestedKey => typed.pass = testing.pass)
        BY <4>6
      <4>8. /\ ScreenFits' /\ PassFits' /\ SaidFits' /\ OpenFits'
            /\ page' = to /\ known' = known /\ pass' = typed.pass
            /\ gate' \in Shows /\ complete' \in BOOLEAN /\ inProgress' \in BOOLEAN /\ testing' \in TestOf
            /\ shown' \in {None0, shown}
        BY <1>1, <2>1, <2>2, <4>1, <4>5, <4>6, <4>7, GateIs, SettledKeeps
      <4> QED BY <4>1, <4>8
    <3>2. CASE ~typed.here
      <4>1. Rendered(known, typed.pass, shown)
        BY <1>5, <3>2
      <4>2. CASE status[typed.pass] = "revoked"
        <5>1. page = "gated" => excused'
          BY <4>2, <1>5
        <5> QED BY <1>1, <1>3, <2>1, <2>2, <4>1, <5>1, GateIs, RenderKeeps
      <4>3. CASE status[typed.pass] # "revoked"
        <5>1. InForce(typed.pass)
          BY <4>3, <2>1, GateIs DEF InForce, WasInForce, Typed, StatusOf
        <5>2. pass = TestedKey => typed.pass = TestedKey
          <6> SUFFICES ASSUME pass = TestedKey PROVE typed.pass = pass
            OBVIOUS
          <6>1. NotAfter(typed.pass, pass) /\ pass # None0 /\ InForce(pass)
            BY <5>1, <2>1, GateIs DEF KeyFacts
          <6>2. NotAfter(pass, typed.pass)
            BY <6>1, <5>1, <1>5 DEF GateInv, SaidFits
          <6> QED BY <6>1, <6>2, OnePlace DEF GateInv
        <5> QED BY <1>1, <1>3, <2>1, <2>2, <4>1, <5>2, GateIs, RenderKeeps
      <4> QED BY <4>2, <4>3
    <3> QED BY <1>5, <3>1, <3>2
  <2>4. Typed'
    BY <1>1, <1>2, <1>3, <2>1, <2>3, GateIs, TestsAre DEF Typed, SameKeys
  <2>5. CallsFit'
    BY <1>1, <2>3, CallsLess
  <2>6. MeFits'
    BY <1>1, <1>2, <2>3 DEF GateInv, MeFits, SameKeys
  <2>7. RetiredForgotten'
    BY <1>1, <1>2, <1>3, <2>3 DEF GateInv, SameKeys, RetiredForgotten
  <2> QED BY <1>2, <2>3, <2>4, <2>5, <2>6, <2>7, TypedNext DEF GateInv
<1> QED BY <1>3, <1>4, <1>5

\* The answer to a confirmed key arrives, at the gate or on the page of a reset.
LEMMA ConfirmedStep ==
  ASSUME GateInv, NEW c \in requests, AnswerContinue(c) \/ AnswerReset(c)
  PROVE  GateInv'
<1>1. /\ UNCHANGED serverVars /\ fetch' = Fetch /\ saved' = saved /\ behind' = behind \ {"unanswered"}
      /\ changes' = changes /\ requests' = requests \ {c} /\ typed' = typed
      /\ c.op = "confirm" /\ c.pc = "ok"
  BY DEF AnswerContinue, AnswerReset, Confirmed
<1>2. KeysFit' /\ SameKeys
  BY <1>1, ServerStays DEF GateInv
<1>3. PICK sh \in {None0, shown} : sh = IF c.here THEN None0 ELSE shown
  OBVIOUS
<1>4. PICK w \in {None0, pass} : /\ Rendered(known, w, sh) /\ (step' = step \/ step' = 3)
                                 /\ \/ w = pass /\ untold' = untold \cup ({pass} \cap Slots) /\ excused' = excused
                                    \/ w = None0 /\ untold' = untold /\ excused' = Excused
  <2>1. CASE AnswerContinue(c)
    BY <2>1, <1>3 DEF AnswerContinue
  <2>2. CASE AnswerReset(c)
    BY <2>2, <1>3 DEF AnswerReset
  <2> QED BY <2>1, <2>2
<1>5. w \in {None0} \cup Slots /\ (w # None0 => WasInForce(w)) /\ excused' \in BOOLEAN /\ untold' \subseteq Slots
  BY <1>4, GateIs DEF Typed
<1>6. (excused => excused') /\ (w = pass \/ (page = "gated" => excused'))
  BY <1>4, GateIs
<1>7. /\ ScreenFits' /\ PassFits' /\ SaidFits' /\ OpenFits'
      /\ page' = page /\ known' = known /\ pass' = w
      /\ gate' \in Shows /\ complete' \in BOOLEAN /\ inProgress' \in BOOLEAN /\ testing' \in TestOf
      /\ shown' \in {None0, shown}
  BY <1>1, <1>4, <1>5, <1>6, GateIs, RenderKeeps
<1>8. step' \in 1 .. 3
  BY <1>4, GateIs DEF Typed
<1>9. Typed'
  BY <1>1, <1>2, <1>5, <1>7, <1>8, GateIs, FetchesAre DEF Typed, SameKeys
<1>10. CallsFit'
  BY <1>1, <1>7, CallsLess
<1>11. MeFits'
  BY <1>1, FetchesAre DEF MeFits
<1>12. RetiredForgotten'
  BY <1>2, <1>4, <1>7, GateIs DEF RetiredForgotten
<1> QED BY <1>2, <1>7, <1>9, <1>10, <1>11, <1>12, TypedNext DEF GateInv

\* What the server says of a kept passphrase arrives.
LEMMA AnswerTestStep ==
  ASSUME GateInv, AnswerTest
  PROVE  GateInv'
<1>1. /\ UNCHANGED serverVars /\ fetch' = fetch /\ saved' = saved /\ behind' = behind /\ untold' = untold
      /\ changes' = changes /\ requests' = requests /\ typed' = typed /\ step' = step /\ excused' = excused
      /\ page' = page /\ known' = known /\ pass' = pass
      /\ complete' = TRUE /\ inProgress' = FALSE /\ testing' = NoTest /\ testing.pc # "idle"
  BY DEF AnswerTest, gateHistory
<1>2. KeysFit' /\ SameKeys
  BY <1>1, ServerStays DEF GateInv
<1>3. PICK said \in {testing.pc, "no"} :
        /\ said # "sent"
        /\ gate' = Judged(IF said = "yes" THEN "unlocked" ELSE "needs_unlock", known, pass, TRUE, FALSE)
        /\ shown' = IF gate' \in {"needs_create", "needs_approval"} THEN shown ELSE None0
  BY DEF AnswerTest
<1>4. /\ gate' \in Shows /\ shown' \in {None0, shown}
      /\ (gate' = "needs_create" => known.key = None0) /\ (shown' # None0 => gate' \in {"needs_create", "needs_approval"})
      /\ (gate' = "unlocked" => managed \/ testing.pc = "yes")
  BY <1>3 DEF Judged, Shows
<1>5. page = "gated"
  BY <1>1, GateIs
<1>6. shown' \in {None0} \cup Slots
  BY <1>4, GateIs
<1>7. ScreenFits'
  BY <1>1, <1>4, <1>5 DEF ScreenFits
<1>8. PassFits' /\ SaidFits' /\ MeFits' /\ RetiredForgotten'
  BY <1>1, <1>2, TestsAre DEF GateInv, SameKeys, PassFits, WasInForce, SaidFits, InForce, NotAfter, MeFits, RetiredForgotten
<1>9. OpenFits'
  BY <1>1, <1>2, <1>4 DEF GateInv, SameKeys, OpenFits, SaidFits, PassFits
<1>10. CallsFit'
  BY <1>1, <1>4, CallsLess
<1>11. complete' \in BOOLEAN /\ inProgress' \in BOOLEAN
  BY <1>1
<1>12. Typed'
  BY <1>1, <1>2, <1>4, <1>6, <1>11, GateIs, TestsAre DEF Typed, SameKeys
<1> QED BY <1>2, <1>7, <1>8, <1>9, <1>10, <1>12, TypedNext DEF GateInv
-----------------------------------------------------------------------------
(* The steps that change the keys *)

\* The gate stays, and what it shows
SameShown == SameGate /\ shown' = shown /\ step' = step /\ fetch' = fetch

\* What has been said of a passphrase stands while the key that is tried is the same, and where it
\* is not, who had relied on it is excused.
LEMMA KeysChange ==
  ASSUME GateInv, VaultGateTypeOK', KeysFit', SameShown, managed' = managed,
         \A k \in Slots : WasInForce(k) => WasInForce(k)' /\ (InForce(k)' => InForce(k)),
         \A k, l \in Slots : NotAfter(k, l) => NotAfter(k, l)',
         excused => excused',
         Relied /\ page = "gated" /\ TestedKey' # TestedKey => excused',
         page = "gated" /\ TestedKey' # TestedKey => excused' \/ \E k \in Slots : k = TestedKey' /\ ~WasInForce(k)
  PROVE  ScreenFits' /\ PassFits' /\ SaidFits' /\ OpenFits'
<1>1. /\ known' = known /\ page' = page /\ pass' = pass /\ gate' = gate /\ complete' = complete
      /\ inProgress' = inProgress /\ testing' = testing /\ typed' = typed /\ shown' = shown /\ step' = step
  BY DEF SameShown, SameGate
<1>2. ScreenFits'
  BY <1>1 DEF GateInv, ScreenFits
<1>3. pass \in {None0} \cup Slots /\ testing.pass \in {None0} \cup Slots /\ typed.pass \in {None0} \cup Slots
  BY GateIs DEF TestOf
<1>4. PassFits'
  <2>1. pass # None0 => WasInForce(pass) /\ pass \in Slots
    BY <1>3 DEF GateInv, PassFits
  <2>2. testing.pc # "idle" => testing.pass # None0 /\ WasInForce(testing.pass) /\ testing.pass \in Slots
    BY <1>3 DEF GateInv, PassFits
  <2>3. typed.pc = "yes" => typed.pass # None0 /\ WasInForce(typed.pass) /\ typed.pass \in Slots
    BY <1>3 DEF GateInv, PassFits
  <2>4. PICK a, b, e : a = testing.pass /\ b = typed.pass /\ e = pass
    OBVIOUS
  <2>5. (testing.pc # "idle" => WasInForce(a)') /\ (typed.pc = "yes" => WasInForce(b)') /\ (pass # None0 => WasInForce(e)')
    BY <2>1, <2>2, <2>3, <2>4
  <2>6. (testing.pc # "idle" => status'[testing.pass] \notin {"none", "created"})
        /\ (typed.pc = "yes" => status'[typed.pass] \notin {"none", "created"})
    BY <2>4, <2>5 DEF WasInForce
  <2>7. pass # None0 => status'[pass] \notin {"none", "created"}
    BY <2>4, <2>5 DEF WasInForce
  <2> QED BY <1>1, <2>2, <2>3, <2>6, <2>7 DEF PassFits, WasInForce
<1>5. SaidFits'
  <2>1. testing.pc = "yes" /\ ~excused' => testing.pass = TestedKey'
    BY GateIs DEF GateInv, SaidFits, Relied
  <2>2. testing.pc # "idle" /\ testing.pass = TestedKey' /\ ~excused' => pass = testing.pass
    <3> SUFFICES ASSUME testing.pc # "idle", testing.pass = TestedKey', ~excused' PROVE pass = testing.pass
      OBVIOUS
    <3>1. WasInForce(testing.pass) /\ page = "gated" /\ ~excused
      BY GateIs DEF GateInv, PassFits
    <3>2. CASE TestedKey' = TestedKey
      BY <3>1, <3>2 DEF GateInv, SaidFits
    <3>3. CASE TestedKey' # TestedKey
      BY <3>1, <3>3
    <3> QED BY <3>2, <3>3
  <2>3. typed.pc = "yes" /\ typed.here /\ ~excused' => typed.pass = TestedKey'
    BY GateIs DEF GateInv, SaidFits, Relied
  <2>4. PICK a, b : a = pass /\ b = typed.pass
    OBVIOUS
  <2>5. typed.pc = "yes" /\ pass # None0 /\ InForce(a)' /\ InForce(b)' => NotAfter(a, b)'
    <3>1. ASSUME typed.pc = "yes", pass # None0 PROVE a \in Slots /\ b \in Slots /\ WasInForce(a) /\ WasInForce(b)
      BY <3>1, <2>4, <1>3 DEF GateInv, PassFits
    <3>2. typed.pc = "yes" /\ pass # None0 /\ InForce(a) /\ InForce(b) => NotAfter(a, b)
      BY <2>4 DEF GateInv, SaidFits
    <3> QED BY <3>1, <3>2
  <2>6. typed'.pc = "yes" /\ pass' # None0 /\ status'[pass'] \in {"pending", "active"}
          /\ status'[typed'.pass] \in {"pending", "active"} =>
            \E i, j \in DOMAIN order' : i <= j /\ order'[i] = pass' /\ order'[j] = typed'.pass
    BY <1>1, <2>4, <2>5 DEF InForce, NotAfter
  <2> QED BY <1>1, <2>1, <2>2, <2>3, <2>6 DEF SaidFits, InForce, NotAfter
<1>6. OpenFits'
  BY <1>1, GateIs DEF GateInv, OpenFits, Relied
<1> QED BY <1>2, <1>4, <1>5, <1>6

\* A key comes into force: it is the last of them.
LEMMA KeyAdded ==
  ASSUME Typed, KeysFit, ~managed, NEW k \in Slots, ~WasInForce(k), order' = Append(order, k),
         status' \in [Slots -> StatusOf], InForce(k)', solo' = solo, managed' = managed,
         \A o \in Slots \ {k} : WasInForce(o) => WasInForce(o)',
         \A o \in Slots \ {k} : InForce(o)' => InForce(o),
         solo => \A o \in Slots : status'[o] \notin {"created", "pending"},
         ~solo => \A o \in Slots \ {k} : ~InForce(o)'
  PROVE  /\ order' \in Seq(Slots) /\ KeysFit'
         /\ \A a, b : NotAfter(a, b) => NotAfter(a, b)'
         /\ \A l \in Slots : InForce(l)' => NotAfter(l, k)'
<1>1. order \in Seq(Slots) /\ order' \in Seq(Slots) /\ Len(order) \in Nat
  BY DEF Typed
<1>2. /\ DOMAIN order = 1 .. Len(order) /\ DOMAIN order' = 1 .. (Len(order) + 1)
      /\ order'[Len(order) + 1] = k /\ \A i \in 1 .. Len(order) : order'[i] = order[i] /\ order[i] \in Slots
  BY <1>1
<1>3. \A i \in 1 .. Len(order) : order[i] # k /\ WasInForce(order[i])
  BY <1>2 DEF KeysFit
<1>4. \A i \in DOMAIN order' : i \in 1 .. Len(order) \/ i = Len(order) + 1
  BY <1>1, <1>2
<1>5. \A i, j \in DOMAIN order' : order'[i] = order'[j] => i = j
  BY <1>2, <1>3, <1>4 DEF KeysFit
<1>6. \A o \in Slots : InForce(o)' => \E i \in DOMAIN order' : order'[i] = o
  <2> SUFFICES ASSUME NEW o \in Slots, InForce(o)' PROVE \E i \in DOMAIN order' : order'[i] = o
    OBVIOUS
  <2>1. CASE o = k
    BY <2>1, <1>1, <1>2
  <2>2. CASE o # k
    <3>1. PICK i \in DOMAIN order : order[i] = o
      BY <2>2 DEF KeysFit
    <3> QED BY <3>1, <1>1, <1>2
  <2> QED BY <2>1, <2>2
<1>7. WasInForce(k)'
  BY DEF InForce, WasInForce
<1>8. \A i \in DOMAIN order' : status'[order'[i]] \notin {"none", "created"}
  <2>1. ASSUME NEW i \in 1 .. Len(order) PROVE status'[order'[i]] \notin {"none", "created"}
    <3>1. PICK o : o = order[i]
      OBVIOUS
    <3>2. o \in Slots \ {k} /\ WasInForce(o)
      BY <3>1, <1>2, <1>3
    <3>3. WasInForce(o)'
      BY <3>2
    <3> QED BY <3>1, <3>3, <1>2 DEF WasInForce
  <2> QED BY <2>1, <1>2, <1>4, <1>7 DEF WasInForce
<1>9. ~solo' => \A a, b \in Slots : InForce(a)' /\ InForce(b)' => a = b
  OBVIOUS
<1>10. KeysFit'
  BY <1>5, <1>6, <1>8, <1>9 DEF KeysFit, InForce, WasInForce
<1>11. \A a, b : NotAfter(a, b) => NotAfter(a, b)'
  BY <1>1, <1>2 DEF NotAfter
<1>12. ASSUME NEW l \in Slots, InForce(l)' PROVE NotAfter(l, k)'
  <2>1. PICK i \in DOMAIN order' : order'[i] = l
    BY <1>6, <1>12
  <2>2. i <= Len(order) + 1 /\ Len(order) + 1 \in DOMAIN order'
    BY <1>1, <1>2
  <2> QED BY <2>1, <2>2, <1>2 DEF NotAfter
<1> QED BY <1>1, <1>10, <1>11, <1>12

\* A key that comes into force keeps what has been said of a passphrase, or excuses it.
LEMMA KeyForced ==
  ASSUME GateInv, VaultGateTypeOK', SameShown, ~managed, NEW k \in Slots, ~WasInForce(k), order' = Append(order, k),
         status' \in [Slots -> StatusOf], InForce(k)', solo' = solo, managed' = managed,
         \A o \in Slots \ {k} : WasInForce(o) => WasInForce(o)',
         \A o \in Slots \ {k} : InForce(o)' => InForce(o),
         solo => \A o \in Slots : status'[o] \notin {"created", "pending"},
         ~solo => \A o \in Slots \ {k} : ~InForce(o)',
         excused => excused', Relied /\ page = "gated" => excused'
  PROVE  KeysFit' /\ ScreenFits' /\ PassFits' /\ SaidFits' /\ OpenFits'
<1>1. Typed /\ KeysFit
  BY GateIs DEF GateInv
<1>2. /\ KeysFit'
      /\ \A a, b : NotAfter(a, b) => NotAfter(a, b)'
      /\ \A l \in Slots : InForce(l)' => NotAfter(l, k)'
  BY <1>1, KeyAdded
<1>3. TestedKey' = k
  BY <1>2, KeyFactsNext DEF KeyFacts
<1>4. \A o \in Slots : WasInForce(o) => WasInForce(o)' /\ (InForce(o)' => InForce(o))
  OBVIOUS
<1>5. ScreenFits' /\ PassFits' /\ SaidFits' /\ OpenFits'
  BY <1>2, <1>3, <1>4, KeysChange
<1> QED BY <1>2, <1>5

\* Keys that stay as they are, or are no longer in force
LEMMA KeysLess ==
  ASSUME GateInv, VaultGateTypeOK', SameShown, order' = order, solo' = solo, managed' = managed,
         \A k \in Slots : WasInForce(k) => WasInForce(k)',
         \A k \in Slots : InForce(k)' => InForce(k),
         solo => \A k \in Slots : status'[k] \notin {"created", "pending"},
         managed => \A k \in Slots : status'[k] = "none",
         excused => excused',
         (\A k \in Slots : InForce(k) => InForce(k)') \/ (page = "gated" => excused')
  PROVE  KeysFit' /\ ScreenFits' /\ PassFits' /\ SaidFits' /\ OpenFits'
<1>1. Typed /\ KeysFit /\ VaultGateTypeOK /\ order \in Seq(Slots)
  BY GateIs DEF GateInv, Typed
<1>2. \A i \in DOMAIN order : status'[order[i]] \notin {"none", "created"}
  <2> SUFFICES ASSUME NEW i \in DOMAIN order PROVE status'[order[i]] \notin {"none", "created"}
    OBVIOUS
  <2>1. PICK o : o = order[i]
    OBVIOUS
  <2>2. o \in Slots /\ WasInForce(o)
    BY <2>1, <1>1 DEF KeysFit
  <2>3. WasInForce(o)'
    BY <2>2
  <2> QED BY <2>1, <2>3 DEF WasInForce
<1>3. \A k \in Slots : InForce(k)' => \E i \in DOMAIN order : order[i] = k
  BY <1>1 DEF KeysFit
<1>4. ~solo => \A k, l \in Slots : InForce(k)' /\ InForce(l)' => k = l
  BY <1>1 DEF KeysFit
<1>5. KeysFit'
  BY <1>1, <1>2, <1>3, <1>4 DEF KeysFit, WasInForce, InForce
<1>6. \A k, l \in Slots : NotAfter(k, l) => NotAfter(k, l)'
  BY DEF NotAfter
<1>7. (\A k \in Slots : InForce(k) => InForce(k)') => TestedKey' = TestedKey
  <2> SUFFICES ASSUME \A k \in Slots : InForce(k) => InForce(k)' PROVE TestedKey' = TestedKey
    OBVIOUS
  <2>1. \A k \in Slots : InForce(k)' <=> InForce(k)
    OBVIOUS
  <2> QED BY <1>1, <1>5, <2>1, TestedSame
<1>8. ScreenFits' /\ PassFits' /\ SaidFits' /\ OpenFits'
  BY <1>5, <1>6, <1>7, KeysChange
<1> QED BY <1>5, <1>8

\* Where no key was made, or there is a reason, the tab knows as much as before.
LEMMA MeStays ==
  ASSUME GateInv, SameShown, behind \subseteq behind', (CurrentKey' # None0 => CurrentKey # None0) \/ behind' # {}
  PROVE  MeFits'
<1>1. known' = known /\ fetch' = fetch /\ (behind # {} => behind' # {})
  BY DEF SameShown, SameGate
<1> QED BY <1>1 DEF GateInv, MeFits

\* A call is served: the others stay, and so does what is shown
LEMMA CallServed ==
  ASSUME GateInv, SameShown, managed' = managed, saved' = saved, NEW c \in requests, NEW e \in KeyCall,
         requests' = (requests \ {c}) \cup {e}, e.op = c.op, e.here = c.here, CallFits(e)',
         \A k \in Slots : status[k] # "none" => status'[k] # "none",
         \A k \in Slots : status[k] # "created" /\ status[k] # "none" => status'[k] # "created"
  PROVE  CallsFit'
<1>1. Typed /\ shown' = shown
  BY GateIs DEF SameShown
<1>2. \A b \in requests' : CallFits(b)'
  <2> SUFFICES ASSUME NEW b \in requests, b # c PROVE CallFits(b)'
    OBVIOUS
  <2>1. CallFits(b) /\ b \in KeyCall
    BY <1>1 DEF GateInv, CallsFit, Typed
  <2> QED BY <2>1 DEF CallFits, KeyCall
<1>3. \A a, b \in requests' : a.op = "create" /\ b.op = "create" /\ a.here /\ b.here => a = b
  BY DEF GateInv, CallsFit
<1>4. Pending("create")' => Pending("create")
  BY DEF Pending
<1>5. shown' # None0 => status'[shown'] # "none"
  BY <1>1 DEF GateInv, CallsFit, Typed
<1>6. managed' => requests' = {}
  BY DEF GateInv, CallsFit
<1> QED BY <1>1, <1>2, <1>3, <1>4, <1>5, <1>6 DEF CallsFit, GateInv

\* The server makes a key.
LEMMA ServeCreateStep ==
  ASSUME GateInv, NEW c \in requests, ServeCreate(c)
  PROVE  GateInv'
<1>1. /\ SameShown /\ solo' = solo /\ managed' = managed /\ saved' = saved /\ untold' = untold /\ changes' = changes
      /\ c.op = "create" /\ c.pc = "sent" /\ Fresh # {}
  BY DEF ServeCreate, SameShown, SameGate, meVars, gateVars
<1>2. PICK k \in Slots : k = Min(Fresh) /\ status[k] = "none"
  BY <1>1, FreshIs DEF Fresh
<1>3. /\ status' = [status EXCEPT ![k] = IF solo THEN "active" ELSE "created"]
      /\ order' = (IF solo THEN Append(order, k) ELSE order)
      /\ behind' = (IF solo THEN behind \cup {"unanswered"} ELSE behind)
      /\ excused' = (IF solo /\ Relied THEN Excused ELSE excused)
      /\ requests' = (requests \ {c}) \cup {[c EXCEPT !.key = k, !.pc = "ok"]}
  BY <1>2 DEF ServeCreate, Becomes
<1>4. Typed /\ KeysFit /\ ~managed /\ c \in KeyCall /\ order \in Seq(Slots) /\ status \in [Slots -> StatusOf]
  BY GateIs DEF GateInv, CallsFit, Typed
<1>5. PICK e : e = [c EXCEPT !.key = k, !.pc = "ok"]
  OBVIOUS
<1>6. e \in KeyCall /\ e.op = c.op /\ e.key = k /\ e.here = c.here /\ e.pc = "ok"
  BY <1>4, <1>5 DEF KeyCall
<1>7. /\ status' \in [Slots -> StatusOf] /\ status'[k] = (IF solo THEN "active" ELSE "created")
      /\ \A o \in Slots \ {k} : status'[o] = status[o]
  BY <1>3, <1>4 DEF StatusOf
<1>8. excused' \in BOOLEAN /\ (excused => excused') /\ (solo /\ Relied /\ page = "gated" => excused')
  BY <1>3, <1>4, GateIs DEF Typed
<1>9. Typed'
  <2>1. order' \in Seq(Slots)
    BY <1>3, <1>4
  <2>2. requests' \subseteq KeyCall /\ behind' \subseteq {"missed", "unanswered"}
    BY <1>3, <1>4, <1>5, <1>6 DEF Typed
  <2> QED BY <1>1, <1>4, <1>7, <1>8, <2>1, <2>2 DEF Typed, SameShown, SameGate
<1>10. VaultGateTypeOK'
  BY <1>9, TypedNext
<1>11. CallsFit'
  <2>1. CallFits(e)'
    BY <1>1, <1>6, <1>7, SlotsAre DEF CallFits
  <2>2. /\ \A o \in Slots : status[o] # "none" => status'[o] # "none"
        /\ \A o \in Slots : status[o] # "created" /\ status[o] # "none" => status'[o] # "created"
    BY <1>2, <1>7
  <2>3. requests' = (requests \ {c}) \cup {e}
    BY <1>3, <1>5
  <2> QED BY <1>1, <1>6, <2>1, <2>2, <2>3, CallServed
<1>12. /\ ~WasInForce(k) /\ \A o \in Slots : WasInForce(o) => WasInForce(o)'
       /\ \A o \in Slots \ {k} : InForce(o)' => InForce(o)
  BY <1>2, <1>7 DEF WasInForce, InForce
<1>13. KeysFit' /\ ScreenFits' /\ PassFits' /\ SaidFits' /\ OpenFits'
  <2>1. CASE solo
    <3>1. InForce(k)' /\ order' = Append(order, k)
      BY <2>1, <1>3, <1>7 DEF InForce
    <3>2. \A o \in Slots : status'[o] \notin {"created", "pending"}
      BY <2>1, <1>4, <1>7 DEF KeysFit
    <3>3. Relied /\ page = "gated" => excused'
      BY <2>1, <1>8
    <3> QED BY <2>1, <3>1, <3>2, <3>3, <1>1, <1>4, <1>7, <1>8, <1>10, <1>12, KeyForced
  <2>2. CASE ~solo
    <3>1. order' = order
      BY <2>2, <1>3
    <3>2. \A o \in Slots : InForce(o)' <=> InForce(o)
      BY <2>2, <1>2, <1>7 DEF InForce
    <3> QED BY <2>2, <3>1, <3>2, <1>1, <1>4, <1>8, <1>10, <1>12, KeysLess
  <2> QED BY <2>1, <2>2
<1>14. MeFits'
  <2>1. behind \subseteq behind' /\ (solo => behind' # {})
    BY <1>3
  <2>2. ASSUME ~solo PROVE CurrentKey' # None0 => CurrentKey # None0
    <3>1. order' = order
      BY <2>2, <1>3
    <3>2. \A o \in Slots : InForce(o)' <=> InForce(o)
      BY <2>2, <1>2, <1>7 DEF InForce
    <3> QED BY <3>1, <3>2, <1>10, <1>13, TestedSame DEF GateInv
  <2> QED BY <2>1, <2>2, <1>1, MeStays
<1>15. RetiredForgotten'
  <2> SUFFICES ASSUME pass # None0, status'[pass] = "revoked", pass \notin untold
               PROVE  \E d \in requests' : d.op = "confirm" /\ d.pc = "ok"
    BY <1>1 DEF RetiredForgotten, SameShown, SameGate
  <2>1. pass # k /\ pass \in Slots
    BY <1>7, <1>4 DEF Typed
  <2>2. PICK d \in requests : d.op = "confirm" /\ d.pc = "ok"
    BY <2>1, <1>7 DEF GateInv, RetiredForgotten
  <2> QED BY <2>2, <1>1, <1>3
<1> QED BY <1>10, <1>11, <1>13, <1>14, <1>15 DEF GateInv

\* Confirmed, a key replaces those in force
LEMMA ReplacedIs ==
  ASSUME Typed, NEW k \in Slots,
         status' = [o \in Slots |-> IF o = k THEN "pending" ELSE IF status[o] = "none" THEN "none" ELSE "revoked"]
  PROVE  /\ status' \in [Slots -> StatusOf] /\ status'[k] = "pending" /\ InForce(k)'
         /\ \A o \in Slots \ {k} : ~InForce(o)' /\ (WasInForce(o) => WasInForce(o)') /\ status'[o] # "created"
         /\ \A o \in Slots \ {k} : status[o] # "none" => status'[o] # "none"
BY DEF InForce, WasInForce, StatusOf

\* The server confirms a key.
LEMMA ServeConfirmStep ==
  ASSUME GateInv, NEW c \in requests, ServeConfirm(c)
  PROVE  GateInv'
<1>1. /\ SameShown /\ solo' = solo /\ managed' = managed /\ saved' = saved /\ untold' = untold /\ changes' = changes
      /\ c.op = "confirm" /\ c.pc = "sent"
  BY DEF ServeConfirm, SameShown, SameGate, meVars, gateVars
<1>2. Typed /\ KeysFit /\ KeysFit /\ ~managed /\ c \in KeyCall /\ order \in Seq(Slots) /\ status \in [Slots -> StatusOf]
  BY GateIs DEF GateInv, CallsFit, Typed
<1>3. PICK k \in Slots : k = c.key /\ status[k] # "none"
  BY <1>1, <1>2 DEF GateInv, CallsFit, CallFits, KeyCall
<1>4. PICK a \in {"ok", "failed"} : a = IF status[k] = "revoked" THEN "failed" ELSE "ok"
  OBVIOUS
<1>5. PICK e : e = [c EXCEPT !.pc = a]
  OBVIOUS
<1>6. e \in KeyCall /\ e.op = c.op /\ e.key = k /\ e.here = c.here /\ e.pc = a
  BY <1>2, <1>3, <1>5 DEF KeyCall
<1>7. requests' = (requests \ {c}) \cup {e}
  BY <1>3, <1>4, <1>5 DEF ServeConfirm, Becomes
<1>8. /\ behind' = (IF order' # order THEN behind \cup {"unanswered"} ELSE behind)
      /\ excused' = (IF order' # order /\ Relied THEN Excused ELSE excused)
  BY DEF ServeConfirm
<1>9. \/ status[k] = "created" /\ order' = Append(order, k)
         /\ status' = [o \in Slots |-> IF o = k THEN "pending" ELSE IF status[o] = "none" THEN "none" ELSE "revoked"]
      \/ status[k] # "created" /\ status' = status /\ order' = order
  BY <1>3 DEF ServeConfirm, ConfirmAt
<1>10. status' \in [Slots -> StatusOf] /\ order' \in Seq(Slots)
  <2>1. order \in Seq(Slots) /\ status \in [Slots -> StatusOf] BY <1>2
  <2>2. order' \in Seq(Slots) BY <1>9, <2>1
  <2>3. status' \in [Slots -> StatusOf]
    <3>1. CASE status' = status BY <2>1, <3>1
    <3>2. CASE status' = [o \in Slots |-> IF o = k THEN "pending" ELSE IF status[o] = "none" THEN "none" ELSE "revoked"]
      BY <1>2, <3>2, ReplacedIs
    <3> QED BY <1>9, <3>1, <3>2
  <2> QED BY <2>2, <2>3
<1>11. excused' \in BOOLEAN /\ (excused => excused') /\ (order' # order /\ Relied /\ page = "gated" => excused')
  BY <1>2, <1>8, GateIs DEF Typed
<1>12. behind \subseteq behind' /\ behind' \subseteq {"missed", "unanswered"} /\ (order' # order => behind' # {})
  BY <1>2, <1>8 DEF Typed
<1>13. Typed'
  BY <1>1, <1>2, <1>6, <1>7, <1>10, <1>11, <1>12 DEF Typed, SameShown, SameGate
<1>14. VaultGateTypeOK'
  BY <1>13, TypedNext
<1>15. /\ \A o \in Slots : status[o] # "none" => status'[o] # "none"
       /\ \A o \in Slots : status[o] # "created" /\ status[o] # "none" => status'[o] # "created"
       /\ (a = "ok" => status'[k] # "created")
  BY <1>2, <1>9, ReplacedIs
<1>16. CallsFit'
  <2>1. c.key # None0 /\ c.key \in saved
    BY <1>1 DEF GateInv, CallsFit, CallFits
  <2>2. CallFits(e)'
    BY <1>1, <1>3, <1>6, <1>15, <2>1 DEF CallFits
  <2> QED BY <1>1, <1>6, <1>7, <1>15, <2>2, CallServed
<1>17. CASE status[k] = "created"
  <2>0. order' = Append(order, k)
    BY <1>9, <1>17
  <2>1. order' # order
    <3>1. Len(order') = Len(order) + 1 /\ Len(order) \in Nat
      BY <2>0, <1>2
    <3> QED BY <3>1
  <2>2. ~WasInForce(k) /\ ~solo
    BY <1>17, <1>2 DEF WasInForce, KeysFit
  <2>3. /\ InForce(k)' /\ \A o \in Slots \ {k} : ~InForce(o)' /\ (WasInForce(o) => WasInForce(o)')
    BY <1>2, <1>9, <1>17, ReplacedIs
  <2>4. /\ \A o \in Slots \ {k} : WasInForce(o) => WasInForce(o)'
        /\ \A o \in Slots \ {k} : InForce(o)' => InForce(o)
        /\ \A o \in Slots \ {k} : ~InForce(o)'
    BY <2>3
  <2>5. Relied /\ page = "gated" => excused'
    BY <2>1, <1>11
  <2>6. KeysFit' /\ ScreenFits' /\ PassFits' /\ SaidFits' /\ OpenFits'
    BY <2>0, <2>2, <2>3, <2>4, <2>5, <1>1, <1>2, <1>10, <1>11, <1>14, KeyForced
  <2>7. MeFits'
    BY <2>1, <1>1, <1>12, MeStays
  <2>8. e \in requests' /\ e.op = "confirm" /\ e.pc = "ok"
    BY <1>1, <1>4, <1>6, <1>7, <1>17
  <2>9. RetiredForgotten'
    BY <2>8 DEF RetiredForgotten
  <2> QED BY <2>6, <2>7, <2>9, <1>14, <1>16 DEF GateInv
<1>18. CASE status[k] # "created"
  <2>1. status' = status /\ order' = order
    BY <1>9, <1>18
  <2>2. /\ \A o \in Slots : WasInForce(o) => WasInForce(o)'
        /\ \A o \in Slots : InForce(o)' <=> InForce(o)
        /\ (solo => \A o \in Slots : status'[o] \notin {"created", "pending"})
    BY <2>1, <1>2 DEF WasInForce, InForce, KeysFit
  <2>3. KeysFit' /\ ScreenFits' /\ PassFits' /\ SaidFits' /\ OpenFits'
    BY <2>1, <2>2, <1>1, <1>2, <1>11, <1>14, KeysLess
  <2>4. CurrentKey' = CurrentKey
    BY <2>1 DEF CurrentKey, LastIn
  <2>5. MeFits'
    BY <2>4, <1>1, <1>12, MeStays
  <2>6. RetiredForgotten'
    <3> SUFFICES ASSUME pass # None0, status[pass] = "revoked", pass \notin untold
                 PROVE  \E d \in requests' : d.op = "confirm" /\ d.pc = "ok"
      BY <1>1, <2>1 DEF RetiredForgotten, SameShown, SameGate
    <3>1. PICK d \in requests : d.op = "confirm" /\ d.pc = "ok"
      BY DEF GateInv, RetiredForgotten
    <3> QED BY <3>1, <1>1, <1>7
  <2> QED BY <2>3, <2>5, <2>6, <1>14, <1>16 DEF GateInv
<1> QED BY <1>17, <1>18

\* The calls stay while no key is undone
LEMMA CallsStay ==
  ASSUME GateInv, SameShown, managed' = managed, requests' = requests, saved \subseteq saved',
         \A k \in Slots : status[k] # "none" => status'[k] # "none",
         \A k \in Slots : status[k] # "created" /\ status[k] # "none" => status'[k] # "created"
  PROVE  CallsFit'
<1>1. Typed /\ shown' = shown
  BY GateIs DEF SameShown
<1>2. \A b \in requests' : CallFits(b)'
  <2> SUFFICES ASSUME NEW b \in requests PROVE CallFits(b)'
    OBVIOUS
  <2>1. CallFits(b) /\ b \in KeyCall
    BY <1>1 DEF GateInv, CallsFit, Typed
  <2> QED BY <2>1 DEF CallFits, KeyCall
<1>3. \A a, b \in requests' : a.op = "create" /\ b.op = "create" /\ a.here /\ b.here => a = b
  BY DEF GateInv, CallsFit
<1>4. Pending("create")' => Pending("create")
  BY DEF Pending
<1>5. shown' # None0 => status'[shown'] # "none"
  BY <1>1 DEF GateInv, CallsFit, Typed
<1> QED BY <1>1, <1>2, <1>3, <1>4, <1>5 DEF CallsFit, GateInv

\* Another admin approves or revokes a key.
LEMMA OthersStep ==
  ASSUME GateInv, Approve \/ RevokedElsewhere
  PROVE  GateInv'
<1>1. /\ SameShown /\ solo' = solo /\ managed' = managed /\ saved' = saved /\ order' = order /\ behind' = behind
      /\ requests' = requests /\ changes < MaxChangesOfKeys /\ changes' = changes + 1
  BY DEF Approve, RevokedElsewhere, SameShown, SameGate, meVars, gateVars
<1>2. Typed /\ KeysFit /\ status \in [Slots -> StatusOf]
  BY GateIs DEF GateInv, Typed
<1>3. PICK k \in Slots :
        \/ /\ status[k] = "pending" /\ status' = [status EXCEPT ![k] = "active"]
           /\ excused' = excused /\ untold' = untold
        \/ /\ status[k] \in {"pending", "active"} /\ status' = [status EXCEPT ![k] = "revoked"]
           /\ excused' = Excused /\ untold' = untold \cup {k}
  BY DEF Approve, RevokedElsewhere
<1>4. /\ status' \in [Slots -> StatusOf] /\ \A o \in Slots \ {k} : status'[o] = status[o]
      /\ \/ status[k] = "pending" /\ status'[k] = "active"
         \/ status'[k] = "revoked" /\ k \in untold'
  BY <1>2, <1>3 DEF StatusOf
<1>5. InForce(k) /\ status[k] \notin {"none", "created"}
  BY <1>3 DEF InForce
<1>6. excused' \in BOOLEAN /\ (excused => excused') /\ untold \subseteq untold' /\ untold' \subseteq Slots
  BY <1>2, <1>3, GateIs DEF Typed
<1>7. (\A o \in Slots : InForce(o) => InForce(o)') \/ (page = "gated" => excused')
  <2>1. CASE status[k] = "pending" /\ status' = [status EXCEPT ![k] = "active"]
    <3>1. status'[k] = "active"
      BY <2>1, <1>2
    <3> QED BY <3>1, <1>4 DEF InForce
  <2>2. CASE excused' = Excused
    BY <2>2, GateIs
  <2> QED BY <1>3, <2>1, <2>2
<1>8. changes' \in 0 .. MaxChangesOfKeys
  BY <1>1, <1>2, GateAssumption DEF Typed
<1>9. Typed'
  BY <1>1, <1>2, <1>4, <1>6, <1>8 DEF Typed, SameShown, SameGate
<1>10. VaultGateTypeOK'
  BY <1>9, TypedNext
<1>11. /\ \A o \in Slots : WasInForce(o) => WasInForce(o)'
       /\ \A o \in Slots : InForce(o)' => InForce(o)
       /\ \A o \in Slots : status[o] # "none" => status'[o] # "none"
       /\ \A o \in Slots : status[o] # "created" /\ status[o] # "none" => status'[o] # "created"
  BY <1>4, <1>5 DEF WasInForce, InForce
<1>12. solo => \A o \in Slots : status'[o] \notin {"created", "pending"}
  BY <1>2, <1>4 DEF KeysFit
<1>13. ~managed
  BY <1>2, <1>5 DEF KeysFit
<1>14. KeysFit' /\ ScreenFits' /\ PassFits' /\ SaidFits' /\ OpenFits'
  BY <1>1, <1>6, <1>7, <1>10, <1>11, <1>12, <1>13, KeysLess
<1>15. CallsFit'
  BY <1>1, <1>11, CallsStay
<1>16. CurrentKey' # None0 => CurrentKey # None0
  <2>1. CurrentKey' # None0 <=> \E o \in Slots : InForce(o)'
    BY <1>10, <1>14, KeyFactsNext DEF KeyFacts
  <2> QED BY <2>1, <1>11, GateIs DEF KeyFacts
<1>17. MeFits'
  BY <1>1, <1>16, MeStays
<1>18. RetiredForgotten'
  <2> SUFFICES ASSUME pass # None0, status'[pass] = "revoked", pass \notin untold'
               PROVE  \E d \in requests : d.op = "confirm" /\ d.pc = "ok"
    BY <1>1 DEF RetiredForgotten, SameShown, SameGate
  <2>1. pass # k /\ pass \in Slots
    BY <1>2, <1>4 DEF Typed
  <2> QED BY <2>1, <1>4, <1>6 DEF GateInv, RetiredForgotten
<1> QED BY <1>10, <1>14, <1>15, <1>17, <1>18 DEF GateInv

\* Another tab of the user replaces the key.
LEMMA ReplacedStep ==
  ASSUME GateInv, ReplacedElsewhere
  PROVE  GateInv'
<1>1. /\ SameShown /\ solo' = solo /\ managed' = managed /\ requests' = requests
      /\ changes < MaxChangesOfKeys /\ changes' = changes + 1 /\ Fresh # {} /\ ~managed /\ ~solo
      /\ untold' = untold \cup Slots /\ behind' = behind \cup {"missed"}
      /\ excused' = IF Relied THEN Excused ELSE excused
  BY DEF ReplacedElsewhere, SameShown, SameGate, meVars, gateVars
<1>2. Typed /\ KeysFit /\ status \in [Slots -> StatusOf] /\ order \in Seq(Slots)
  BY GateIs DEF GateInv, Typed
<1>3. PICK k \in Slots : k = Max(Fresh) /\ status[k] = "none"
  BY <1>1, FreshIs DEF Fresh
<1>4. /\ order' = Append(order, k) /\ saved' = saved \cup {k}
      /\ status' = [o \in Slots |-> IF o = k THEN "pending" ELSE IF status[o] = "none" THEN "none" ELSE "revoked"]
  BY <1>3 DEF ReplacedElsewhere
<1>5. /\ status' \in [Slots -> StatusOf] /\ status'[k] = "pending" /\ InForce(k)'
      /\ \A o \in Slots \ {k} : ~InForce(o)' /\ (WasInForce(o) => WasInForce(o)') /\ status'[o] # "created"
      /\ \A o \in Slots \ {k} : status[o] # "none" => status'[o] # "none"
  BY <1>2, <1>4, ReplacedIs
<1>6. excused' \in BOOLEAN /\ (excused => excused') /\ (Relied /\ page = "gated" => excused')
  BY <1>1, <1>2, GateIs DEF Typed
<1>7. changes' \in 0 .. MaxChangesOfKeys /\ order' \in Seq(Slots) /\ saved' \subseteq Slots
      /\ untold' = Slots /\ behind' \subseteq {"missed", "unanswered"} /\ behind' # {}
  BY <1>1, <1>2, <1>4, GateAssumption DEF Typed
<1>8. Typed'
  BY <1>1, <1>2, <1>5, <1>6, <1>7 DEF Typed, SameShown, SameGate
<1>9. VaultGateTypeOK'
  BY <1>8, TypedNext
<1>10. ~WasInForce(k)
  BY <1>3 DEF WasInForce
<1>11. /\ \A o \in Slots \ {k} : WasInForce(o) => WasInForce(o)'
       /\ \A o \in Slots \ {k} : InForce(o)' => InForce(o)
       /\ \A o \in Slots \ {k} : ~InForce(o)'
  BY <1>5
<1>12. KeysFit' /\ ScreenFits' /\ PassFits' /\ SaidFits' /\ OpenFits'
  BY <1>1, <1>4, <1>5, <1>6, <1>9, <1>10, <1>11, KeyForced
<1>13. CallsFit'
  <2>1. /\ \A o \in Slots : status[o] # "none" => status'[o] # "none"
        /\ \A o \in Slots : status[o] # "created" /\ status[o] # "none" => status'[o] # "created"
    BY <1>3, <1>5
  <2> QED BY <1>1, <1>4, <2>1, CallsStay
<1>14. MeFits'
  BY <1>1, <1>7, MeStays
<1>15. RetiredForgotten'
  BY <1>1, <1>2, <1>7 DEF RetiredForgotten, SameShown, SameGate, Typed
<1> QED BY <1>9, <1>12, <1>13, <1>14, <1>15 DEF GateInv

\* Every step of the gate keeps the invariant.
LEMMA GateSteps ==
  ASSUME GateInv, [VaultGateNext]_vaultGateVars
  PROVE  GateInv'
<1>1. CASE UNCHANGED vaultGateVars
  <2>1. /\ UNCHANGED serverVars /\ known' = known /\ fetch' = fetch /\ page' = page /\ pass' = pass /\ gate' = gate
        /\ complete' = complete /\ inProgress' = inProgress /\ testing' = testing /\ typed' = typed /\ step' = step
        /\ shown' = shown /\ requests' = requests /\ saved' = saved /\ excused' = excused /\ untold' = untold
        /\ changes' = changes /\ behind' = behind
    BY <1>1 DEF vaultGateVars, meVars, gateVars, gateHistory
  <2>2. KeysFit' /\ SameKeys
    BY <2>1, ServerStays DEF GateInv
  <2>3. Typed'
    BY <2>1, <2>2, GateIs DEF Typed, SameKeys
  <2>4. CallsFit'
    BY <2>1, CallsLess
  <2>5. ScreenFits' /\ PassFits' /\ SaidFits' /\ OpenFits' /\ MeFits' /\ RetiredForgotten'
    BY <2>1, <2>2 DEF GateInv, SameKeys, ScreenFits, PassFits, WasInForce, SaidFits, InForce,
       NotAfter, OpenFits, MeFits, RetiredForgotten
  <2> QED BY <2>2, <2>3, <2>4, <2>5, TypedNext DEF GateInv
<1>2. CASE Leaves
  BY <1>2, GoStep DEF Leaves
<1>3. CASE AskUser \/ ServeUser \/ FailUser
  BY <1>3, UserStep
<1>4. CASE Unlock \/ ServeTest \/ ServeUnlock
  BY <1>4, AskedStep
<1>5. CASE AnswerUser
  BY <1>5, AnswerUserStep
<1>6. CASE AnswerTest
  BY <1>6, AnswerTestStep
<1>7. CASE AnswerUnlock
  BY <1>7, AnswerUnlockStep
<1>8. CASE Lock
  BY <1>8, LockStep
<1>9. CASE CallCreate
  BY <1>9, SendStep
<1>10. CASE Continue \/ CompleteReset
  BY <1>10, ConfirmStep
<1>11. ASSUME NEW c \in requests, \/ ServeCreate(c) \/ AnswerCreate(c) \/ ServeConfirm(c)
                                  \/ AnswerContinue(c) \/ AnswerReset(c) \/ FailCall(c)
       PROVE  GateInv'
  BY <1>11, ServeCreateStep, ShowStep, ServeConfirmStep, ConfirmedStep
<1>12. CASE Approve \/ RevokedElsewhere
  BY <1>12, OthersStep
<1>13. CASE ReplacedElsewhere
  BY <1>13, ReplacedStep
<1> QED BY <1>1, <1>2, <1>3, <1>4, <1>5, <1>6, <1>7, <1>8, <1>9, <1>10, <1>11, <1>12, <1>13 DEF VaultGateNext
-----------------------------------------------------------------------------
(* The start, and what the invariant shows *)

\* It holds at the start.
LEMMA GateStarts == VaultGateInit => GateInv
<1> SUFFICES ASSUME VaultGateInit PROVE GateInv
  OBVIOUS
<1>1. PICK s \in {"none", "active"} : status = [k \in Slots |-> IF k = 1 THEN s ELSE "none"]
  BY DEF VaultGateInit
<1>2. 1 \in Slots
  BY SlotsAre, GateAssumption DEF Slots
<1>3. status \in [Slots -> StatusOf] /\ status[1] = s /\ \A k \in Slots \ {1} : status[k] = "none"
  BY <1>1, <1>2 DEF StatusOf
<1>4. order = IF s = "active" THEN <<1>> ELSE <<>>
  BY <1>3 DEF VaultGateInit
<1>5. order \in Seq(Slots) /\ (s = "none" => DOMAIN order = {}) /\ (s = "active" => DOMAIN order = {1} /\ order[1] = 1)
  BY <1>2, <1>4
<1>6. /\ solo \in BOOLEAN /\ managed \in BOOLEAN /\ (managed => s = "none")
      /\ known = MeNow /\ fetch = NoFetch /\ page = "gated" /\ pass \in {None0, 1} /\ (pass = 1 => s = "active")
      /\ complete = FALSE /\ typed = NoTest /\ step = 1 /\ shown = None0 /\ requests = {}
      /\ saved = ToSet(order) /\ excused = FALSE /\ behind = {} /\ untold = {} /\ changes = 0
      /\ gate = Judged("loading", known, pass, FALSE, FALSE)
      /\ inProgress = Tests("loading", known, pass, FALSE, FALSE)
      /\ testing = (IF inProgress THEN Testing(pass) ELSE NoTest)
  <2>1. managed => s = "none"
    <3>1. s = "active" => Len(order) = 1
      BY <1>4
    <3>2. managed => Len(order) = 0
      BY DEF VaultGateInit
    <3> QED BY <3>1, <3>2
  <2>2. pass = 1 => s = "active"
    BY <1>4 DEF VaultGateInit
  <2> QED BY <2>1, <2>2 DEF VaultGateInit
<1>7. KeysFit
  BY <1>1, <1>2, <1>3, <1>5, <1>6 DEF KeysFit, InForce, WasInForce
<1>8. saved \subseteq Slots
  BY <1>5, <1>6 DEF ToSet
<1>9. pass \in {None0} \cup Slots
  BY <1>2, <1>6
<1>10. MeNow \in Known
  <2>1. PICK b \in BOOLEAN : b = (CurrentKey # None0 /\ status[CurrentKey] = "active")
    OBVIOUS
  <2>2. MeNow = [key |-> CurrentKey, approved |-> b]
    BY <2>1 DEF MeNow
  <2>3. CurrentKey \in {None0} \cup Slots
    BY <1>5, LastInIs DEF CurrentKey
  <2> QED BY <2>2, <2>3 DEF Known
<1>11. inProgress \in BOOLEAN /\ (inProgress => pass # None0)
  BY <1>6 DEF Tests
<1>12. testing \in TestOf
  BY <1>6, <1>9, TestsAre
<1>13. gate \in Shows /\ (gate = "unlocked" => managed) /\ (gate = "needs_create" => known.key = None0)
  BY <1>6 DEF Judged, Shows
<1>14. complete \in BOOLEAN /\ excused \in BOOLEAN /\ step \in 1 .. 3 /\ changes \in 0 .. MaxChangesOfKeys
  <2>1. MaxChangesOfKeys \in Nat
    BY GateAssumption
  <2>2. complete = FALSE /\ excused = FALSE /\ step = 1 /\ changes = 0
    BY DEF VaultGateInit
  <2>3. complete \in BOOLEAN
    BY <2>2
  <2>4. excused \in BOOLEAN
    BY <2>2
  <2>5. step \in 1 .. 3
    BY <2>2
  <2>6. changes \in 0 .. MaxChangesOfKeys
    BY <2>1, <2>2
  <2> QED BY <2>3, <2>4, <2>5, <2>6
<1>15. Typed
  BY <1>3, <1>5, <1>6, <1>8, <1>9, <1>10, <1>11, <1>12, <1>13, <1>14, TestsAre, FetchesAre DEF Typed
<1>16. VaultGateTypeOK
  BY <1>15, TypedIs
<1>17. CallsFit
  BY <1>6 DEF CallsFit, Pending
<1>18. ScreenFits
  BY <1>6, <1>13 DEF ScreenFits
<1>19. pass # None0 => pass \in Slots /\ InForce(pass) /\ WasInForce(pass) /\ \A k \in Slots : InForce(k) => k = pass
  BY <1>2, <1>3, <1>6 DEF InForce, WasInForce
<1>20. PassFits
  BY <1>6, <1>11, <1>19, TestsAre, <1>9 DEF PassFits
<1>21. SaidFits
  BY <1>6, <1>9, TestsAre DEF SaidFits
<1>22. OpenFits
  BY <1>13 DEF OpenFits
<1>23. MeNow.key = CurrentKey
  BY <1>7, <1>16, MeNowIs
<1>24. MeFits
  BY <1>6, <1>23, FetchesAre DEF MeFits
<1>25. RetiredForgotten
  BY <1>19 DEF RetiredForgotten, InForce
<1> QED BY <1>7, <1>16, <1>17, <1>18, <1>20, <1>21, <1>22, <1>24, <1>25 DEF GateInv

\* What it shows of the gate.
LEMMA GateShows == GateInv => VaultGateTypeOK /\ OpenFits /\ OfferFits /\ RetiredForgotten
<1> SUFFICES ASSUME GateInv, OfferedByGate, CurrentKey # None0, fetch = NoFetch, ~inProgress, behind = {}
             PROVE  FALSE
  BY DEF GateInv, OfferFits
<1>1. shown = None0 /\ gate = "needs_create"
  BY DEF OfferedByGate, EmptyStep
<1>2. known.key = None0
  BY <1>1 DEF GateInv, ScreenFits
<1> QED BY <1>2 DEF GateInv, MeFits

\* What is shown goes in a render when the gate comes to a screen of its own.
LEMMA Uncovered ==
  ASSUME GateInv, shown # None0, shown' # shown, NEW m \in Known, NEW w \in {None0} \cup Slots, Rendered(m, w, shown)
  PROVE  gate' \in {"unlocked", "needs_unlock"}
<1>1. PICK to \in {"gated", "reset"} : to = page
  BY GateIs
<1>2. PICK g \in Shows : g = gate
  BY GateIs
<1>3. PICK d \in BOOLEAN : d = complete
  BY GateIs
<1>4. PICK i \in BOOLEAN : i = inProgress
  BY GateIs
<1>5. PICK t \in TestOf : t = testing
  BY GateIs
<1>6. PICK sh \in {None0} \cup Slots : sh = shown
  BY GateIs
<1>7. Settled(to, g, m, w, d, i, t, sh)
  BY <1>1, <1>2, <1>3, <1>4, <1>5, <1>6 DEF Rendered
<1>8. /\ gate' \in Shows
      /\ to # "gated" => shown' = sh
      /\ to = "gated" /\ shown' # sh => gate' \notin Screens
      /\ gate' = "loading" => to # "gated" \/ g = "loading"
  BY <1>7, SettledIs DEF GateInv
<1>9. page = "gated" => gate \in {"needs_create", "needs_approval"}
  BY DEF GateInv, ScreenFits
<1> QED BY <1>1, <1>2, <1>6, <1>8, <1>9 DEF Shows, Screens

\* A key that is shown is put away for a reason.
LEMMA GateKeeps ==
  ASSUME GateInv, VaultGateNext, shown # None0, shown' # shown
  PROVE  \/ Leaves \/ gate' \in {"unlocked", "needs_unlock"} \/ status[shown] # "created"
         \/ \E c \in requests \ requests' : c.op = "confirm" /\ c.here /\ c.key # shown
<1>1. CASE AnswerUser
  <2>1. Rendered(fetch.answer, pass, shown) /\ fetch.answer \in Known
    BY <1>1, GateIs DEF AnswerUser, Typed, FetchOf
  <2> QED BY <2>1, GateIs, Uncovered
<1>2. CASE Lock
  <2>1. PICK w \in {None0} \cup Slots : w = None0
    OBVIOUS
  <2>2. Rendered(known, w, shown)
    BY <1>2, <2>1 DEF Lock
  <2> QED BY <2>2, GateIs, Uncovered
<1>3. CASE AnswerUnlock
  <2>1. CASE typed.here /\ Settled(page, "unlocked", known, typed.pass, TRUE, inProgress, testing, shown)
    <3>1. page = "gated"
      BY <2>1, GateIs
    <3> QED BY <2>1, <3>1 DEF Settled, Judged
  <2>2. CASE Rendered(known, typed.pass, shown)
    <3>1. typed.pass \in {None0} \cup Slots
      BY GateIs DEF TestOf
    <3> QED BY <2>2, <3>1, GateIs, Uncovered
  <2> QED BY <1>3, <2>1, <2>2 DEF AnswerUnlock
<1>4. CASE AnswerTest
  BY <1>4 DEF AnswerTest, Judged
<1>5. ASSUME NEW c \in requests, AnswerCreate(c) PROVE FALSE
  <2>1. c.here /\ c.op = "create"
    BY <1>5 DEF AnswerCreate
  <2> QED BY <2>1 DEF GateInv, CallsFit, Pending
<1>6. ASSUME NEW c \in requests, AnswerContinue(c) \/ AnswerReset(c)
      PROVE  \/ gate' \in {"unlocked", "needs_unlock"} \/ status[shown] # "created"
             \/ \E e \in requests \ requests' : e.op = "confirm" /\ e.here /\ e.key # shown
  <2>1. c.op = "confirm" /\ c.pc = "ok" /\ requests' = requests \ {c}
    BY <1>6 DEF AnswerContinue, AnswerReset, Confirmed
  <2>2. CASE c.here
    <3>1. status[c.key] # "created"
      BY <2>1 DEF GateInv, CallsFit, CallFits
    <3>2. c \in requests \ requests'
      BY <2>1
    <3> QED BY <2>1, <2>2, <3>1, <3>2
  <2>3. CASE ~c.here
    <3>1. PICK w \in {None0, pass} : Rendered(known, w, shown)
      BY <1>6, <2>3 DEF AnswerContinue, AnswerReset
    <3>2. w \in {None0} \cup Slots
      BY <3>1, GateIs
    <3> QED BY <3>1, <3>2, GateIs, Uncovered
  <2> QED BY <2>2, <2>3
<1>7. CASE AskUser \/ ServeUser \/ FailUser \/ ServeTest \/ Unlock \/ ServeUnlock \/ CallCreate \/ Continue \/ CompleteReset
           \/ Approve \/ RevokedElsewhere \/ ReplacedElsewhere
  BY <1>7 DEF AskUser, ServeUser, FailUser, ServeTest, Unlock, ServeUnlock, CallCreate, Continue, CompleteReset, CallConfirm,
     Approve, RevokedElsewhere, ReplacedElsewhere
<1>8. ASSUME NEW c \in requests, ServeCreate(c) \/ ServeConfirm(c) \/ FailCall(c) PROVE FALSE
  BY <1>8 DEF ServeCreate, ServeConfirm, FailCall
<1> QED BY <1>1, <1>2, <1>3, <1>4, <1>5, <1>6, <1>7, <1>8 DEF VaultGateNext

\* A key of the user is retired for one that was saved.
LEMMA GateRetires ==
  ASSUME GateInv, VaultGateNext, NEW k \in Slots, status[k] = "active", status'[k] = "revoked", changes' = changes
  PROVE  \E n \in saved : status[n] = "created" /\ status'[n] = "pending"
<1>0. Typed /\ changes \in Nat
  BY GateIs, GateAssumption DEF Typed
<1>1. ~(changes' = changes + 1)
  BY <1>0
<1>2. status' # status
  OBVIOUS
<1>3. PICK c \in requests : ServeCreate(c) \/ ServeConfirm(c)
  BY <1>1, <1>2 DEF VaultGateNext, Leaves, Go, AskUser, ServeUser, FailUser, AnswerUser, ServeTest, AnswerTest, Unlock,
     ServeUnlock, AnswerUnlock, Lock, CallCreate, Continue, CompleteReset, CallConfirm, AnswerCreate, AnswerContinue,
     AnswerReset, Confirmed, FailCall, Approve, RevokedElsewhere, ReplacedElsewhere, serverVars
<1>4. CASE ServeCreate(c)
  <2>1. PICK n \in Slots : status[n] = "none" /\ status' = [status EXCEPT ![n] = IF solo THEN "active" ELSE "created"]
    BY <1>4, FreshIs DEF ServeCreate, Fresh
  <2>2. status'[k] = status[k]
    BY <2>1, <1>0 DEF Typed
  <2> QED BY <2>2
<1>5. CASE ServeConfirm(c)
  <2>1. status[c.key] = "created" /\ ConfirmAt(c.key) /\ c.op = "confirm"
    BY <1>2, <1>5 DEF ServeConfirm, ConfirmAt
  <2>2. c.key \in saved
    BY <2>1 DEF GateInv, CallsFit, CallFits
  <2>3. status'[c.key] = "pending"
    BY <2>1, <2>2, <1>0 DEF ConfirmAt, Typed
  <2> QED BY <2>1, <2>2, <2>3
<1> QED BY <1>3, <1>4, <1>5

\* The vault's gate opens and forgets as it should, but for what is named.
THEOREM GateHolds ==
  VaultGateSpec =>
    /\ [](VaultGateTypeOK /\ OpenFits /\ OfferFits /\ RetiredForgotten)
    /\ ShownKept /\ RetiredForSaved
<1>1. VaultGateInit => GateInv
  BY GateStarts
<1>2. GateInv /\ [VaultGateNext]_vaultGateVars => GateInv'
  BY GateSteps
<1>3. GateInv /\ [VaultGateNext]_vaultGateVars =>
        [shown # None0 /\ shown' # shown =>
           \/ Leaves \/ gate' \in {"unlocked", "needs_unlock"} \/ status[shown] # "created"
           \/ \E c \in requests \ requests' : c.op = "confirm" /\ c.here /\ c.key # shown]_vaultGateVars
  BY GateKeeps
<1>4. GateInv /\ [VaultGateNext]_vaultGateVars =>
        [\A k \in Slots : status[k] = "active" /\ status'[k] = "revoked" /\ changes' = changes =>
           \E n \in saved : status[n] = "created" /\ status'[n] = "pending"]_vaultGateVars
  BY GateRetires
<1> QED BY <1>1, <1>2, <1>3, <1>4, GateShows, PTL DEF VaultGateSpec, ShownKept, RetiredForSaved

-----------------------------------------------------------------------------
(* The pages of the web app together *)

\* A step of one part leaves the others as they are.
LEMMA WorkspaceStep ==
  [WorkspaceNext]_workspaceVars =>
    /\ [CacheNext]_cacheVars /\ [SessionNext]_sessionVars /\ [VaultGateNext]_vaultGateVars
<1> SUFFICES ASSUME [WorkspaceNext]_workspaceVars
             PROVE  /\ CacheNext \/ UNCHANGED cacheVars
                    /\ SessionNext \/ UNCHANGED sessionVars
                    /\ VaultGateNext \/ UNCHANGED vaultGateVars
  OBVIOUS
<1> QED BY Zenon DEF WorkspaceNext, workspaceVars

\* The pages of the web app tell of every change they know to have been made, a tab shows what
\* belongs to its session and leaves nothing of an earlier one, and the vault's gate opens and
\* forgets as it should, but for what is named.
THEOREM PagesToldHolds == WorkspaceSpec => PagesTold
<1>1. WorkspaceSpec => CacheInit /\ SessionInit /\ VaultGateInit
  BY DEF WorkspaceSpec, WorkspaceInit
<1>2. WorkspaceSpec => [][CacheNext]_cacheVars /\ [][SessionNext]_sessionVars /\ [][VaultGateNext]_vaultGateVars
  BY WorkspaceStep, PTL DEF WorkspaceSpec
<1>3. CacheSpec <=> CacheInit /\ [][CacheNext]_cacheVars
  BY DEF CacheSpec
<1>4. SessionSpec <=> SessionInit /\ [][SessionNext]_sessionVars
  BY DEF SessionSpec
<1>5. VaultGateSpec <=> VaultGateInit /\ [][VaultGateNext]_vaultGateVars
  BY DEF VaultGateSpec
<1> QED BY <1>1, <1>2, <1>3, <1>4, <1>5, CacheHolds, SessionHolds, GateHolds, PTL DEF PagesTold
=============================================================================
