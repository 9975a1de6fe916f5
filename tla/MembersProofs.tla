---------------------------- MODULE MembersProofs ----------------------------
(***************************************************************************)
(* Proofs about what the members of a workspace keep in it: invitations,   *)
(* login codes, worksheets and images, for any number of calls.            *)
(***************************************************************************)
EXTENDS MCMembers, FiniteSetTheorems, NaturalsInduction, WellFoundedInduction, TLAPS

\* The first of some numbers is one of them.
LEMMA FirstIsMember ==
  ASSUME NEW S \in SUBSET Nat, S # {}
  PROVE  Min(S) \in S
<1>1. PICK x \in S : \A y \in S : <<y, x>> \notin OpToRel(<, Nat)
  BY NatLessThanWellFounded, WFMin
<1>2. ASSUME NEW y \in S, y < x PROVE FALSE
  <2>1. <<y, x>> \in Nat \X Nat OBVIOUS
  <2>2. <<y, x>>[1] < <<y, x>>[2] BY <1>2
  <2>3. <<y, x>> \in OpToRel(<, Nat) BY <2>1, <2>2, Zenon DEF OpToRel
  <2> QED BY <1>1, <2>3
<1>3. \A y \in S : x <= y BY <1>2
<1> QED BY <1>3 DEF Min
-----------------------------------------------------------------------------
(* Invitations *)

\* What a call that joins has read: an invitation that was made and not used up
JoiningOK(j) ==
  /\ j.pc \in {"checked", "joined"} => j.by \in InviteIds /\ j.who \in Identities
  /\ j.pc = "checked" =>
       /\ invite[j.by].made
       /\ invite[j.by].max # 0 => j.uses < invite[j.by].max

\* An admin's call has read an invitation that was made
AskingOK(a) ==
  /\ a.pc = "looked" => a.read \in InviteIds
  /\ a.read \in InviteIds => invite[a.read].made

\* The admin's call that revoked an invitation is past its look
RevokedForNew(i) ==
  \E a \in AdminCalls : asking[a].force /\ asking[a].read = i /\ asking[a].pc \in {"create", "over"}

\* What an admin's call that overlapped none relies on: nothing stands beside what it read
AloneSees(a) ==
  ~a.beside => /\ a.pc = "looked" => Standing \subseteq {a.read}
               /\ a.pc = "create" => Standing = {}

InvitationInv ==
  /\ InvitationTypeOK
  /\ \A j \in JoinCalls : JoiningOK(joining[j])
  /\ \A a \in AdminCalls : AskingOK(asking[a])
  /\ \A i \in InviteIds :
       /\ IsFiniteSet(usage[i]) /\ (i \in collisions \/ invite[i].uses = Cardinality(usage[i]))
       /\ usage[i] # {} \/ invite[i].uses # 0 \/ invite[i].revoked => invite[i].made
       /\ invite[i].revoked => RevokedForNew(i)
  /\ NoInvite \in collisions \/ /\ \A i, k \in Standing : i = k
                                /\ \A a \in AdminCalls : AloneSees(asking[a])

LEMMA InvitationInitInv == InvitationInit => InvitationInv
<1> SUFFICES ASSUME InvitationInit PROVE InvitationInv OBVIOUS
<1>1. InvitationTypeOK
  BY InvitationsAssumption
  DEF InvitationInit, InvitationTypeOK, Invitation, Unissued, Asking, NotAsking, Joining, NotJoining, NoInvite
<1>2. (\A j \in JoinCalls : JoiningOK(joining[j])) /\ \A a \in AdminCalls : AskingOK(asking[a])
  BY DEF InvitationInit, JoiningOK, AskingOK, NotAsking, NotJoining, NoInvite, InviteIds
<1>3. \A i \in InviteIds :
        /\ IsFiniteSet(usage[i]) /\ invite[i].uses = Cardinality(usage[i])
        /\ usage[i] = {} /\ invite[i].uses = 0 /\ ~invite[i].revoked
  BY FS_EmptySet DEF InvitationInit, Unissued
<1>4. Standing = {} BY DEF InvitationInit, Standing, Unissued
<1>5. \A a \in AdminCalls : AloneSees(asking[a]) BY <1>4 DEF AloneSees
<1> QED BY <1>1, <1>2, <1>3, <1>4, <1>5 DEF InvitationInv

LEMMA LookKeeps == ASSUME InvitationInv, NEW a \in AdminCalls, NEW force \in BOOLEAN, Look(a, force)
                   PROVE  InvitationInv'
<1> DEFINE first == IF Standing = {} THEN NoInvite ELSE Min(Standing)
           alone == \E b \in AdminCalls : asking[b].pc \in {"looked", "create"}
           r == [pc |-> IF first = NoInvite THEN "create" ELSE "looked", read |-> first, force |-> force,
                 beside |-> alone, answer |-> NoInvite]
<1>1. /\ asking[a].pc = "free" /\ asking' = [asking EXCEPT ![a] = r]
      /\ UNCHANGED <<invite, joined, usage, joining, collisions>>
  BY DEF Look
<1>2. first \in 0 .. LastInvite /\ (Standing = {} => first = NoInvite)
      /\ (Standing # {} => first \in Standing /\ first \in InviteIds /\ first # NoInvite)
  BY FirstIsMember, InvitationsAssumption DEF Standing, InviteIds, NoInvite
<1> HIDE DEF first
<1>3. alone \in BOOLEAN OBVIOUS
<1> HIDE DEF alone
<1>4. r \in Asking BY <1>2, <1>3, InvitationsAssumption DEF Asking, NoInvite
<1>5. InvitationTypeOK' BY <1>1, <1>4 DEF InvitationInv, InvitationTypeOK
<1>6. \A b \in AdminCalls : asking'[b] = IF b = a THEN r ELSE asking[b]
  BY <1>1 DEF InvitationInv, InvitationTypeOK
<1>7. Standing' = Standing BY <1>1 DEF Standing
<1>8. \A b \in AdminCalls : AskingOK(asking[b])'
  <2>1. AskingOK(r) BY <1>2 DEF AskingOK, Standing, NoInvite, InviteIds
  <2> QED BY <1>1, <1>6, <2>1 DEF InvitationInv, AskingOK
<1>9. \A i \in InviteIds : invite[i].revoked => RevokedForNew(i)'
  BY <1>1, <1>6 DEF InvitationInv, RevokedForNew
<1>10. NoInvite \notin collisions => \A b \in AdminCalls : AloneSees(asking[b])'
  <2>1. NoInvite \notin collisions => AloneSees(r)
    BY <1>2 DEF InvitationInv, AloneSees, NoInvite
  <2> QED BY <1>6, <1>7, <2>1 DEF InvitationInv, AloneSees
<1> QED BY <1>1, <1>5, <1>7, <1>8, <1>9, <1>10 DEF InvitationInv, JoiningOK

LEMMA HandOutKeeps == ASSUME InvitationInv, NEW a \in AdminCalls, HandOut(a) PROVE InvitationInv'
<1> DEFINE r == [asking[a] EXCEPT !.pc = "over", !.answer = asking[a].read]
<1>1. /\ asking[a].pc = "looked" /\ asking' = [asking EXCEPT ![a] = r]
      /\ UNCHANGED <<invite, joined, usage, joining, collisions>>
  BY DEF HandOut, InvitationInv, InvitationTypeOK, Asking
<1>2. r \in Asking /\ r.pc = "over" /\ r.read = asking[a].read /\ r.force = asking[a].force
  BY DEF InvitationInv, InvitationTypeOK, Asking
<1> HIDE DEF r
<1>3. \A b \in AdminCalls : asking'[b] = IF b = a THEN r ELSE asking[b]
  BY <1>1 DEF InvitationInv, InvitationTypeOK
<1>4. InvitationTypeOK' BY <1>1, <1>2 DEF InvitationInv, InvitationTypeOK
<1>5. Standing' = Standing BY <1>1 DEF Standing
<1>6. \A b \in AdminCalls : AskingOK(asking[b])'
  BY <1>1, <1>2, <1>3 DEF InvitationInv, AskingOK
<1>7. \A i \in InviteIds : invite[i].revoked => RevokedForNew(i)'
  BY <1>1, <1>2, <1>3 DEF InvitationInv, RevokedForNew
<1>8. NoInvite \notin collisions => \A b \in AdminCalls : AloneSees(asking[b])'
  BY <1>2, <1>3, <1>5 DEF InvitationInv, AloneSees
<1> QED BY <1>1, <1>4, <1>5, <1>6, <1>7, <1>8 DEF InvitationInv, JoiningOK

LEMMA RevokeKeeps == ASSUME InvitationInv, NEW a \in AdminCalls, Revoke(a) PROVE InvitationInv'
<1> DEFINE i == asking[a].read
           r == [asking[a] EXCEPT !.pc = "create"]
           n == [invite[i] EXCEPT !.revoked = TRUE]
<1>1. /\ asking[a].pc = "looked" /\ asking[a].force /\ asking' = [asking EXCEPT ![a] = r]
      /\ invite' = [invite EXCEPT ![i] = n]
      /\ UNCHANGED <<joined, usage, joining, collisions>>
  BY DEF Revoke, InvitationInv, InvitationTypeOK, Asking, Invitation
<1>2. /\ i \in InviteIds /\ invite[i].made
      /\ r \in Asking /\ r.pc = "create" /\ r.read = i /\ r.force /\ r.beside = asking[a].beside
      /\ n \in Invitation /\ n.made /\ n.revoked /\ n.max = invite[i].max /\ n.uses = invite[i].uses
  <2>1. i \in InviteIds /\ invite[i].made BY <1>1 DEF InvitationInv, AskingOK
  <2>2. asking[a] \in Asking /\ invite[i] \in Invitation BY <2>1 DEF InvitationInv, InvitationTypeOK
  <2>3. r \in Asking /\ r.pc = "create" /\ r.read = i /\ r.force /\ r.beside = asking[a].beside
    BY <1>1, <2>2 DEF Asking
  <2>4. n \in Invitation /\ n.made /\ n.revoked /\ n.max = invite[i].max /\ n.uses = invite[i].uses
    BY <2>1, <2>2 DEF Invitation
  <2> QED BY <2>1, <2>3, <2>4
<1> HIDE DEF r, n, i
<1>3. /\ \A b \in AdminCalls : asking'[b] = IF b = a THEN r ELSE asking[b]
      /\ \A k \in InviteIds : invite'[k] = IF k = i THEN n ELSE invite[k]
  BY <1>1 DEF InvitationInv, InvitationTypeOK
<1>4. InvitationTypeOK' BY <1>1, <1>2, <1>3 DEF InvitationInv, InvitationTypeOK
<1>5. Standing' = Standing \ {i} BY <1>2, <1>3 DEF Standing
<1>6. /\ \A b \in AdminCalls : AskingOK(asking[b])'
      /\ \A j \in JoinCalls : JoiningOK(joining[j])'
  BY <1>1, <1>2, <1>3 DEF InvitationInv, AskingOK, JoiningOK
<1>7. \A k \in InviteIds : invite'[k].revoked => RevokedForNew(k)'
  BY <1>1, <1>2, <1>3 DEF InvitationInv, RevokedForNew
<1>8. NoInvite \notin collisions => \A b \in AdminCalls : AloneSees(asking[b])'
  <2>1. NoInvite \notin collisions => AloneSees(asking[a])'
    BY <1>1, <1>2, <1>3, <1>5 DEF InvitationInv, AloneSees, i
  <2>2. NoInvite \notin collisions => \A b \in AdminCalls \ {a} : AloneSees(asking[b])'
    BY <1>3, <1>5 DEF InvitationInv, AloneSees
  <2> QED BY <1>3, <2>1, <2>2
<1>9. NoInvite \notin collisions => \A k, l \in Standing' : k = l
  BY <1>5 DEF InvitationInv
<1>10. \A k \in InviteIds :
         /\ IsFiniteSet(usage'[k]) /\ (k \in collisions' \/ invite'[k].uses = Cardinality(usage'[k]))
         /\ usage'[k] # {} \/ invite'[k].uses # 0 \/ invite'[k].revoked => invite'[k].made
  BY <1>1, <1>2, <1>3 DEF InvitationInv
<1> QED BY <1>1, <1>4, <1>6, <1>7, <1>8, <1>9, <1>10 DEF InvitationInv

LEMMA IssueKeeps ==
  ASSUME InvitationInv, NEW a \in AdminCalls, NEW i \in InviteIds, NEW bound \in 0 .. MaxUses,
         NEW expires \in BOOLEAN, Issue(a, i, bound, expires)
  PROVE  InvitationInv'
<1> DEFINE r(b) == IF b = a THEN [asking[a] EXCEPT !.pc = "over", !.answer = i]
                   ELSE [asking[b] EXCEPT !.beside = @ \/ asking[b].pc \in {"looked", "create"}]
           n == [Unissued EXCEPT !.made = TRUE, !.max = bound, !.expires = expires]
<1>1. /\ asking[a].pc = "create" /\ ~invite[i].made /\ asking' = [b \in AdminCalls |-> r(b)]
      /\ invite' = [invite EXCEPT ![i] = n]
      /\ collisions' = IF asking[a].beside THEN collisions \cup {NoInvite} ELSE collisions
      /\ UNCHANGED <<joined, usage, joining>>
  BY DEF Issue
<1>2. n \in Invitation /\ n.made /\ ~n.revoked /\ n.max = bound /\ n.uses = 0 /\ 0 <= bound
  <2>1. Unissued \in Invitation /\ Unissued.uses = 0 /\ Unissued.revoked = FALSE
    BY InvitationsAssumption DEF Unissued, Invitation
  <2>2. n \in Invitation BY <2>1 DEF Invitation
  <2>3. n.made = TRUE /\ n.revoked = FALSE /\ n.max = bound /\ n.uses = 0 BY <2>1 DEF Invitation
  <2> QED BY <2>2, <2>3, InvitationsAssumption
<1>3. \A b \in AdminCalls :
        /\ r(b) \in Asking /\ r(b).read = asking[b].read /\ r(b).force = asking[b].force
        /\ r(b).pc = IF b = a THEN "over" ELSE asking[b].pc
        /\ b # a /\ asking[b].pc \in {"looked", "create"} => r(b).beside
  <2> SUFFICES ASSUME NEW b \in AdminCalls
               PROVE  /\ r(b) \in Asking /\ r(b).read = asking[b].read /\ r(b).force = asking[b].force
                      /\ r(b).pc = IF b = a THEN "over" ELSE asking[b].pc
                      /\ b # a /\ asking[b].pc \in {"looked", "create"} => r(b).beside
    OBVIOUS
  <2>1. asking[b] \in Asking /\ i \in 0 .. LastInvite
    BY InvitationsAssumption DEF InvitationInv, InvitationTypeOK, InviteIds
  <2>2. CASE b = a BY <2>1, <2>2 DEF Asking
  <2>3. CASE b # a BY <2>1, <2>3 DEF Asking
  <2> QED BY <2>2, <2>3
<1> HIDE DEF r, n
<1>4. /\ \A b \in AdminCalls : asking'[b] = r(b)
      /\ \A k \in InviteIds : invite'[k] = IF k = i THEN n ELSE invite[k]
  BY <1>1 DEF InvitationInv, InvitationTypeOK
<1>5. InvitationTypeOK' BY <1>1, <1>2, <1>3, <1>4 DEF InvitationInv, InvitationTypeOK
<1>6. Standing' = Standing \cup {i} BY <1>1, <1>2, <1>4 DEF Standing
<1>7. /\ \A b \in AdminCalls : AskingOK(asking[b])'
      /\ \A j \in JoinCalls : JoiningOK(joining[j])'
  BY <1>1, <1>2, <1>3, <1>4 DEF InvitationInv, AskingOK, JoiningOK
<1>8. \A k \in InviteIds : invite'[k].revoked => RevokedForNew(k)'
  BY <1>1, <1>2, <1>3, <1>4 DEF InvitationInv, RevokedForNew
<1>9. NoInvite \notin collisions' =>
        /\ \A b \in AdminCalls : AloneSees(asking[b])'
        /\ \A k, l \in Standing' : k = l
  <2> SUFFICES ASSUME NoInvite \notin collisions'
               PROVE  /\ \A b \in AdminCalls : AloneSees(asking[b])'
                      /\ \A k, l \in Standing' : k = l
    OBVIOUS
  <2>1. ~asking[a].beside /\ NoInvite \notin collisions BY <1>1
  <2>2. Standing = {} BY <1>1, <2>1 DEF InvitationInv, AloneSees
  <2>3. \A b \in AdminCalls : AloneSees(asking[b])' BY <1>3, <1>4 DEF AloneSees
  <2> QED BY <1>6, <2>2, <2>3
<1>10. \A k \in InviteIds :
         /\ IsFiniteSet(usage'[k]) /\ (k \in collisions' \/ invite'[k].uses = Cardinality(usage'[k]))
         /\ usage'[k] # {} \/ invite'[k].uses # 0 \/ invite'[k].revoked => invite'[k].made
  <2>1. i \in collisions \/ invite[i].uses = 0
    BY <1>1 DEF InvitationInv
  <2>2. usage[i] = {} BY <1>1 DEF InvitationInv
  <2> QED BY <1>1, <1>2, <1>4, <2>1, <2>2, FS_EmptySet DEF InvitationInv
<1> QED BY <1>1, <1>5, <1>7, <1>8, <1>9, <1>10 DEF InvitationInv

LEMMA ExpireKeeps == ASSUME InvitationInv, NEW i \in InviteIds, Expire(i) PROVE InvitationInv'
<1> DEFINE n == [invite[i] EXCEPT !.expired = TRUE]
<1>1. /\ invite' = [invite EXCEPT ![i] = n]
      /\ UNCHANGED <<joined, usage, asking, joining, collisions>>
  BY DEF Expire, InvitationInv, InvitationTypeOK, Invitation
<1>2. /\ n \in Invitation /\ n.made = invite[i].made /\ n.revoked = invite[i].revoked
      /\ n.max = invite[i].max /\ n.uses = invite[i].uses
  <2>1. PICK r \in Invitation : r = invite[i] BY DEF InvitationInv, InvitationTypeOK
  <2> DEFINE x == [r EXCEPT !.expired = TRUE]
  <2>2. x \in Invitation BY DEF Invitation
  <2>3. x.made = r.made /\ x.revoked = r.revoked /\ x.max = r.max /\ x.uses = r.uses BY DEF Invitation
  <2> QED BY <2>1, <2>2, <2>3
<1> HIDE DEF n
<1>3. \A k \in InviteIds :
        /\ invite'[k].made = invite[k].made /\ invite'[k].revoked = invite[k].revoked
        /\ invite'[k].max = invite[k].max /\ invite'[k].uses = invite[k].uses
  BY <1>1, <1>2 DEF InvitationInv, InvitationTypeOK
<1>4. InvitationTypeOK' BY <1>1, <1>2, <1>3 DEF InvitationInv, InvitationTypeOK
<1>5. Standing' = Standing BY <1>3 DEF Standing
<1>6. /\ \A b \in AdminCalls : AskingOK(asking[b])' /\ (AloneSees(asking[b]) => AloneSees(asking[b])')
      /\ \A j \in JoinCalls : JoiningOK(joining[j])'
  BY <1>1, <1>3, <1>5 DEF InvitationInv, AskingOK, JoiningOK, AloneSees
<1>7. \A k \in InviteIds : RevokedForNew(k) => RevokedForNew(k)'
  BY <1>1 DEF RevokedForNew
<1> QED BY <1>1, <1>3, <1>4, <1>5, <1>6, <1>7 DEF InvitationInv

LEMMA CheckKeeps ==
  ASSUME InvitationInv, NEW j \in JoinCalls, NEW who \in Identities, NEW i \in InviteIds, Check(j, who, i)
  PROVE  InvitationInv'
<1> DEFINE r == [pc |-> "checked", who |-> who, by |-> i, uses |-> invite[i].uses]
<1>1. /\ Valid(i) /\ joining' = [joining EXCEPT ![j] = r]
      /\ UNCHANGED <<invite, joined, usage, asking, collisions>>
  BY DEF Check
<1>2. r \in Joining BY InvitationsAssumption DEF InvitationInv, InvitationTypeOK, Invitation, Joining, InviteIds
<1>3. JoiningOK(r) BY <1>1 DEF JoiningOK, Valid, Standing
<1> HIDE DEF r
<1>4. \A k \in JoinCalls : joining'[k] = IF k = j THEN r ELSE joining[k]
  BY <1>1 DEF InvitationInv, InvitationTypeOK
<1>5. InvitationTypeOK' BY <1>1, <1>2 DEF InvitationInv, InvitationTypeOK
<1>6. Standing' = Standing BY <1>1 DEF Standing
<1> QED BY <1>1, <1>3, <1>4, <1>5, <1>6 DEF InvitationInv, JoiningOK, AskingOK, RevokedForNew, AloneSees

LEMMA JoinByInviteKeeps == ASSUME InvitationInv, NEW j \in JoinCalls, JoinByInvite(j) PROVE InvitationInv'
<1> DEFINE i == joining[j].by
           who == joining[j].who
           n == [invite[i] EXCEPT !.uses = joining[j].uses + 1]
           r == [joining[j] EXCEPT !.pc = "joined"]
<1>1. /\ joining[j].pc = "checked" /\ who \notin joined
      /\ joined' = joined \cup {who} /\ usage' = [usage EXCEPT ![i] = usage[i] \cup {who}]
      /\ invite' = [invite EXCEPT ![i] = n] /\ joining' = [joining EXCEPT ![j] = r]
      /\ collisions' = IF Cardinality(usage[i]) # joining[j].uses THEN collisions \cup {i} ELSE collisions
      /\ UNCHANGED asking
  BY DEF JoinByInvite
<1>2. /\ i \in InviteIds /\ who \in Identities /\ invite[i].made
      /\ invite[i].max # 0 => joining[j].uses < invite[i].max
  BY <1>1 DEF InvitationInv, JoiningOK
<1>3. joining[j] \in Joining /\ invite[i] \in Invitation /\ joining[j].uses \in Nat
  BY <1>2 DEF InvitationInv, InvitationTypeOK, Joining
<1>4. /\ n \in Invitation /\ n.made /\ n.revoked = invite[i].revoked /\ n.max = invite[i].max
      /\ n.uses = joining[j].uses + 1
  BY <1>2, <1>3 DEF Invitation
<1>5. r \in Joining /\ r.pc = "joined" /\ r.by = i /\ r.who = who
  BY <1>3 DEF Joining
<1>6. /\ IsFiniteSet(usage[i]) /\ who \notin usage[i]
      /\ IsFiniteSet(usage[i] \cup {who}) /\ Cardinality(usage[i] \cup {who}) = Cardinality(usage[i]) + 1
  <2>1. IsFiniteSet(usage[i]) BY <1>2 DEF InvitationInv
  <2>2. usage[i] \subseteq joined BY <1>2 DEF InvitationInv, InvitationTypeOK
  <2>3. who \notin usage[i] BY <1>1, <2>2
  <2> QED BY <2>1, <2>3, FS_AddElement
<1> HIDE DEF n, r, i, who
<1>7. /\ \A k \in InviteIds : invite'[k] = IF k = i THEN n ELSE invite[k]
      /\ \A k \in InviteIds : usage'[k] = IF k = i THEN usage[i] \cup {who} ELSE usage[k]
      /\ \A k \in JoinCalls : joining'[k] = IF k = j THEN r ELSE joining[k]
  BY <1>1 DEF InvitationInv, InvitationTypeOK
<1>8. InvitationTypeOK'
  <2>1. n.max # 0 => n.uses <= n.max
    <3>1. n.max \in Nat /\ n.uses \in Nat BY <1>4, InvitationsAssumption DEF Invitation
    <3> QED BY <1>2, <1>3, <1>4, <3>1
  <2>2. \A k \in InviteIds : invite'[k].max # 0 => invite'[k].uses <= invite'[k].max
    BY <1>7, <2>1 DEF InvitationInv, InvitationTypeOK
  <2>3. usage' \in [InviteIds -> SUBSET joined']
    BY <1>1, <1>2 DEF InvitationInv, InvitationTypeOK
  <2> QED BY <1>1, <1>2, <1>4, <1>5, <2>2, <2>3 DEF InvitationInv, InvitationTypeOK
<1>9. /\ \A b \in AdminCalls : AskingOK(asking[b])'
      /\ \A k \in JoinCalls : JoiningOK(joining[k])'
  BY <1>1, <1>2, <1>4, <1>5, <1>7 DEF InvitationInv, AskingOK, JoiningOK
<1>10. Standing' = Standing BY <1>2, <1>4, <1>7 DEF Standing
<1>11. /\ \A k \in InviteIds : RevokedForNew(k)' = RevokedForNew(k)
       /\ \A b \in AdminCalls : AloneSees(asking[b]) => AloneSees(asking[b])'
  BY <1>1, <1>10 DEF RevokedForNew, AloneSees
<1>12. \A k \in InviteIds :
         /\ IsFiniteSet(usage'[k]) /\ (k \in collisions' \/ invite'[k].uses = Cardinality(usage'[k]))
         /\ usage'[k] # {} \/ invite'[k].uses # 0 \/ invite'[k].revoked => invite'[k].made
         /\ invite'[k].revoked => RevokedForNew(k)'
  BY <1>1, <1>2, <1>4, <1>6, <1>7, <1>11 DEF InvitationInv
<1>13. NoInvite \in collisions => NoInvite \in collisions' BY <1>1
<1> QED BY <1>8, <1>9, <1>10, <1>11, <1>12, <1>13 DEF InvitationInv

LEMMA JoinTwiceKeeps == ASSUME InvitationInv, NEW j \in JoinCalls, JoinTwice(j) PROVE InvitationInv'
<1> DEFINE r == [joining[j] EXCEPT !.pc = "refused"]
<1>1. joining' = [joining EXCEPT ![j] = r] /\ UNCHANGED <<invite, joined, usage, asking, collisions>>
  BY DEF JoinTwice
<1>2. r \in Joining /\ r.pc = "refused"
  BY DEF InvitationInv, InvitationTypeOK, Joining
<1> HIDE DEF r
<1>3. \A k \in JoinCalls : joining'[k] = IF k = j THEN r ELSE joining[k]
  BY <1>1 DEF InvitationInv, InvitationTypeOK
<1>4. InvitationTypeOK' BY <1>1, <1>2 DEF InvitationInv, InvitationTypeOK
<1>5. Standing' = Standing BY <1>1 DEF Standing
<1> QED BY <1>1, <1>2, <1>3, <1>4, <1>5 DEF InvitationInv, JoiningOK, AskingOK, RevokedForNew, AloneSees

LEMMA JoinByDomainKeeps == ASSUME InvitationInv, NEW who \in Identities, JoinByDomain(who) PROVE InvitationInv'
<1>1. joined' = joined \cup {who} /\ UNCHANGED <<invite, usage, asking, joining, collisions>>
  BY DEF JoinByDomain
<1>2. InvitationTypeOK' BY <1>1 DEF InvitationInv, InvitationTypeOK
<1>3. Standing' = Standing BY <1>1 DEF Standing
<1> QED BY <1>1, <1>2, <1>3 DEF InvitationInv, JoiningOK, AskingOK, RevokedForNew, AloneSees

LEMMA InvitationInductive == InvitationInv /\ [InvitationNext]_invitationVars => InvitationInv'
<1> SUFFICES ASSUME InvitationInv, [InvitationNext]_invitationVars PROVE InvitationInv' OBVIOUS
<1>1. CASE UNCHANGED invitationVars
  <2>1. Standing' = Standing BY <1>1 DEF Standing, invitationVars
  <2> QED
    BY <1>1, <2>1
    DEF invitationVars, InvitationInv, InvitationTypeOK, JoiningOK, AskingOK, RevokedForNew, AloneSees
<1>2. ASSUME NEW a \in AdminCalls, NEW force \in BOOLEAN, Look(a, force) PROVE InvitationInv'
  BY <1>2, LookKeeps
<1>3. ASSUME NEW a \in AdminCalls, HandOut(a) \/ Revoke(a) PROVE InvitationInv'
  BY <1>3, HandOutKeeps, RevokeKeeps
<1>4. ASSUME NEW a \in AdminCalls, NEW i \in InviteIds, NEW bound \in 0 .. MaxUses, NEW expires \in BOOLEAN,
             Issue(a, i, bound, expires)
      PROVE  InvitationInv'
  BY <1>4, IssueKeeps
<1>5. ASSUME NEW i \in InviteIds, Expire(i) PROVE InvitationInv'
  BY <1>5, ExpireKeeps
<1>6. ASSUME NEW j \in JoinCalls, JoinByInvite(j) \/ JoinTwice(j) PROVE InvitationInv'
  BY <1>6, JoinByInviteKeeps, JoinTwiceKeeps
<1>7. ASSUME NEW j \in JoinCalls, NEW who \in Identities, NEW i \in InviteIds, Check(j, who, i)
      PROVE  InvitationInv'
  BY <1>7, CheckKeeps
<1>8. ASSUME NEW who \in Identities, JoinByDomain(who) PROVE InvitationInv'
  BY <1>8, JoinByDomainKeeps
<1> QED BY <1>1, <1>2, <1>3, <1>4, <1>5, <1>6, <1>7, <1>8 DEF InvitationNext
-----------------------------------------------------------------------------
LEMMA InvitationInvGives == InvitationInv => InvitationTypeOK /\ OverusedForCause /\ OneStands
<1> SUFFICES ASSUME InvitationInv PROVE OverusedForCause /\ OneStands BY DEF InvitationInv
<1>1. OverusedForCause
  <2> SUFFICES ASSUME NEW i \in InviteIds, i \notin collisions
               PROVE  /\ invite[i].uses = Cardinality(usage[i])
                      /\ ~(invite[i].max # 0 /\ Cardinality(usage[i]) > invite[i].max)
    BY DEF OverusedForCause
  <2>1. invite[i].uses = Cardinality(usage[i]) /\ (invite[i].max # 0 => invite[i].uses <= invite[i].max)
    BY DEF InvitationInv, InvitationTypeOK
  <2>2. invite[i].max \in Nat /\ invite[i].uses \in Nat
    BY InvitationsAssumption DEF InvitationInv, InvitationTypeOK, Invitation
  <2> QED BY <2>1, <2>2
<1>2. OneStands
  <2> SUFFICES ASSUME NoInvite \notin collisions PROVE ~(Cardinality(Standing) > 1) BY DEF OneStands
  <2>1. Standing = {} \/ \E x : Standing = {x} BY DEF InvitationInv
  <2>2. Cardinality(Standing) \in {0, 1} BY <2>1, FS_EmptySet, FS_Singleton
  <2> QED BY <2>2
<1> QED BY <1>1, <1>2

LEMMA ShutStep ==
  ASSUME InvitationInv, InvitationNext, NEW i \in InviteIds, usage'[i] # usage[i]
  PROVE  \E j \in JoinCalls : joining[j].by = i /\ joining[j].pc = "checked"
                               /\ (invite[i].max # 0 => joining[j].uses < invite[i].max)
<1>1. usage' # usage OBVIOUS
<1>2. PICK j \in JoinCalls : JoinByInvite(j)
  BY <1>1 DEF InvitationNext, Look, HandOut, Revoke, Issue, Expire, Check, JoinTwice, JoinByDomain
<1>3. joining[j].pc = "checked" /\ usage' = [usage EXCEPT ![joining[j].by] = @ \cup {joining[j].who}]
  BY <1>2 DEF JoinByInvite
<1>4. joining[j].by = i BY <1>3 DEF InvitationInv, InvitationTypeOK
<1>5. JoiningOK(joining[j]) BY DEF InvitationInv
<1> QED BY <1>3, <1>4, <1>5 DEF JoiningOK

LEMMA HandedStep ==
  ASSUME InvitationInv, InvitationNext, NEW a \in AdminCalls, NEW i \in InviteIds,
         asking'[a].pc = "over", asking[a].pc # "over", asking'[a].answer = i
  PROVE  invite'[i].made /\ (~Valid(i)' => ~asking[a].force /\ asking[a].read = i)
         /\ (invite'[i].revoked => \E b \in AdminCalls \ {a} : asking[b].force /\ asking[b].read = i)
<1>1. asking' # asking /\ asking \in [AdminCalls -> Asking] BY DEF InvitationInv, InvitationTypeOK
<1>2. ASSUME NEW b \in AdminCalls, NEW force \in BOOLEAN, Look(b, force) PROVE FALSE
  <2>1. \A c \in AdminCalls : asking'[c].pc = "over" => c # b /\ asking'[c] = asking[c]
    BY <1>1, <1>2 DEF Look
  <2> QED BY <2>1
<1>3. ASSUME NEW b \in AdminCalls, Revoke(b) PROVE FALSE
  <2>1. \A c \in AdminCalls : asking'[c].pc = "over" => c # b /\ asking'[c] = asking[c]
    BY <1>1, <1>3 DEF Revoke, Asking
  <2> QED BY <2>1
<1>4. ASSUME NEW b \in AdminCalls, HandOut(b)
      PROVE  /\ asking[a].pc = "looked" /\ ~asking[a].force /\ asking[a].read = i
             /\ UNCHANGED invite
  <2>1. /\ asking[b].pc = "looked" /\ ~asking[b].force /\ UNCHANGED invite
        /\ asking' = [asking EXCEPT ![b].pc = "over", ![b].answer = asking[b].read]
    BY <1>4 DEF HandOut
  <2>2. a = b BY <1>1, <2>1 DEF Asking
  <2>3. asking'[a].answer = asking[a].read BY <1>1, <2>1, <2>2 DEF Asking
  <2> QED BY <2>1, <2>2, <2>3
<1>5. CASE \E b \in AdminCalls : HandOut(b)
  <2>1. asking[a].pc = "looked" /\ ~asking[a].force /\ asking[a].read = i /\ UNCHANGED invite BY <1>4, <1>5
  <2>2. invite[i].made BY <2>1 DEF InvitationInv, AskingOK
  <2>3. invite[i].revoked => \E b \in AdminCalls \ {a} : asking[b].force /\ asking[b].read = i
    BY <2>1 DEF InvitationInv, RevokedForNew
  <2> QED BY <2>1, <2>2, <2>3
<1>6. ASSUME NEW b \in AdminCalls, NEW k \in InviteIds, NEW bound \in 0 .. MaxUses, NEW expires \in BOOLEAN,
             Issue(b, k, bound, expires)
      PROVE  invite'[i].made /\ ~invite'[i].revoked /\ Valid(i)'
  <2>1. /\ invite' = [invite EXCEPT ![k] = [Unissued EXCEPT !.made = TRUE, !.max = bound, !.expires = expires]]
        /\ asking' = [c \in AdminCalls |->
             IF c = b THEN [asking[b] EXCEPT !.pc = "over", !.answer = k]
             ELSE [asking[c] EXCEPT !.beside = @ \/ asking[c].pc \in {"looked", "create"}]]
    BY <1>6 DEF Issue
  <2>2. a = b BY <1>1, <2>1 DEF Asking
  <2>3. i = k BY <1>1, <2>1, <2>2 DEF Asking
  <2>4. invite'[i] = [Unissued EXCEPT !.made = TRUE, !.max = bound, !.expires = expires]
    BY <2>1, <2>3 DEF InvitationInv, InvitationTypeOK
  <2>5. /\ invite'[i].made = TRUE /\ invite'[i].revoked = FALSE /\ invite'[i].expired = FALSE
        /\ invite'[i].max = bound /\ invite'[i].uses = 0
    BY <2>4 DEF Unissued
  <2>6. bound # 0 => 0 < bound BY InvitationsAssumption
  <2> QED BY <2>5, <2>6 DEF Valid, Standing
<1> QED
  BY <1>1, <1>2, <1>3, <1>5, <1>6
  DEF InvitationNext, Expire, Check, JoinByInvite, JoinTwice, JoinByDomain

\* An invitation lets in more than it says only by joins that overlapped, a workspace has one
\* that stands but for calls that overlapped, none opens again once it is shut, and who is
\* handed a dead one was handed an old one or one that another call revoked meanwhile.
THEOREM InvitationsHold ==
  InvitationSpec => [](InvitationTypeOK /\ OverusedForCause /\ OneStands) /\ ShutForCause /\ HandedForCause
<1>1. InvitationSpec => []InvitationInv
  BY InvitationInitInv, InvitationInductive, PTL DEF InvitationSpec
<1>2. InvitationInv /\ [InvitationNext]_invitationVars =>
        [\A i \in InviteIds : usage'[i] # usage[i] /\ ~Valid(i) =>
           \E j \in JoinCalls : joining[j].by = i /\ joining[j].pc = "checked"
                                 /\ (invite[i].max # 0 => joining[j].uses < invite[i].max)]_invitationVars
  BY ShutStep
<1>3. InvitationInv /\ [InvitationNext]_invitationVars =>
        [\A a \in AdminCalls, i \in InviteIds :
           asking'[a].pc = "over" /\ asking[a].pc # "over" /\ asking'[a].answer = i =>
             invite'[i].made /\ (~Valid(i)' => ~asking[a].force /\ asking[a].read = i)
               /\ (invite'[i].revoked => \E b \in AdminCalls \ {a} : asking[b].force /\ asking[b].read = i)]_invitationVars
  BY HandedStep
<1> QED BY <1>1, <1>2, <1>3, InvitationInvGives, PTL DEF InvitationSpec, ShutForCause, HandedForCause
-----------------------------------------------------------------------------
(* Login codes *)

\* Requests that have counted, and those of them that did so beside another or have sent since
Passed == {s \in Senders : sending[s].pc \in {"counted", "sent"}}
Beside == {s \in Senders : sending[s].pc \in {"counted", "sent"} /\ sending[s].beside > 0}

\* Verifications that have read a code and were not the end of it
Reader(v, c) == verifying[v].read = c /\ verifying[v].pc \in {"read", "marked", "in"}

\* Two verifications read it before either had marked it
Overlapped(c) ==
  \E v, w \in Verifiers : /\ verifying[v].read = c /\ verifying[w].read = c /\ w \in verifying[v].beside
                          /\ verifying[v].pc # "free" /\ verifying[w].pc # "free"

CodeInv ==
  /\ CodeTypeOK
  /\ IsFiniteSet(Recent) /\ IsFiniteSet(Passed)
  /\ Cardinality(Recent) + Cardinality(Counting) <= Ceiling + Cardinality(Beside)
  /\ \A v \in Verifiers :
       /\ verifying[v].pc = "free" => verifying[v].read = NoCode
       /\ verifying[v].pc \in {"read", "marked", "in"} =>
            verifying[v].read \in CodeIds /\ code[verifying[v].read].made
       /\ verifying[v].pc \in {"marked", "in"} => code[verifying[v].read].verified
  /\ \A v, w \in Verifiers, c \in CodeIds :
       v # w /\ Reader(v, c) /\ Reader(w, c) => w \in verifying[v].beside \/ v \in verifying[w].beside
  /\ \A c \in CodeIds :
       /\ logins[c] > 0 => \E v \in Verifiers : verifying[v].pc = "in" /\ verifying[v].read = c
       /\ logins[c] > 1 => Overlapped(c)
       /\ code[c].verified => code[c].made

LEMMA CodeInitInv == CodeInit => CodeInv
<1> SUFFICES ASSUME CodeInit PROVE CodeInv OBVIOUS
<1>1. CodeTypeOK BY DEF CodeInit, CodeTypeOK, Unsent, Sending, Verifying
<1>2. Recent = {} /\ Passed = {} /\ Counting = {} /\ Beside = {}
  BY DEF CodeInit, Recent, Passed, Counting, Beside, Unsent, Sending
<1>3. Cardinality(Recent) + Cardinality(Counting) <= Ceiling + Cardinality(Beside)
  BY <1>2, FS_EmptySet, CeilingAssumption
<1>4. \A v, w \in Verifiers, c \in CodeIds : ~(v # w /\ Reader(v, c) /\ Reader(w, c))
  BY DEF CodeInit, Reader, Verifying
<1> QED BY <1>1, <1>2, <1>3, <1>4, FS_EmptySet DEF CodeInit, CodeInv, Unsent, Verifying

LEMMA SendersFinite ==
  ASSUME IsFiniteSet(Passed)
  PROVE  /\ IsFiniteSet(Counting) /\ IsFiniteSet(Beside)
         /\ Cardinality(Counting) \in Nat /\ Cardinality(Beside) \in Nat
<1>1. Counting \subseteq Passed /\ Beside \subseteq Passed BY DEF Counting, Beside, Passed
<1> QED BY <1>1, FS_Subset, FS_CardinalityType

LEMMA CountKeeps == ASSUME CodeInv, NEW s \in Senders, Count(s) PROVE CodeInv'
<1> DEFINE r == [pc |-> IF Cardinality(Recent) >= Ceiling THEN "refused" ELSE "counted",
                 beside |-> Cardinality(Counting)]
<1>1. sending[s].pc = "free" /\ sending' = [sending EXCEPT ![s] = r] /\ UNCHANGED <<code, verifying, logins>>
  BY DEF Count
<1>2. /\ IsFiniteSet(Passed) /\ IsFiniteSet(Recent) /\ Cardinality(Recent) \in Nat
      /\ IsFiniteSet(Counting) /\ Cardinality(Counting) \in Nat
      /\ IsFiniteSet(Beside) /\ Cardinality(Beside) \in Nat
  BY SendersFinite, FS_CardinalityType DEF CodeInv
<1>3. r \in [pc : {"free", "counted", "sent", "refused"}, beside : Nat] BY <1>2
<1>4. r.beside = Cardinality(Counting)
      /\ r.pc = IF Cardinality(Recent) >= Ceiling THEN "refused" ELSE "counted"
  OBVIOUS
<1> HIDE DEF r
<1>5. \A t \in Senders : sending'[t] = IF t = s THEN r ELSE sending[t]
  BY <1>1 DEF CodeInv, CodeTypeOK
<1>6. CodeTypeOK' BY <1>1, <1>3 DEF CodeInv, CodeTypeOK
<1>7. Recent' = Recent BY <1>1 DEF Recent
<1>8. IsFiniteSet(Passed') /\ Cardinality(Recent') + Cardinality(Counting') <= Ceiling + Cardinality(Beside')
  <2>1. CASE r.pc = "refused"
    <3>1. Passed' = Passed /\ Counting' = Counting /\ Beside' = Beside
      BY <1>1, <1>5, <2>1 DEF Passed, Counting, Beside
    <3> QED BY <1>2, <1>7, <3>1 DEF CodeInv
  <2>2. CASE r.pc = "counted"
    <3>1. Passed' = Passed \cup {s} /\ Counting' = Counting \cup {s} /\ s \notin Counting /\ s \notin Beside
      BY <1>1, <1>5, <2>2 DEF Passed, Counting, Beside
    <3>2. IsFiniteSet(Passed') /\ Cardinality(Counting') = Cardinality(Counting) + 1
      BY <1>2, <3>1, FS_AddElement
    <3>3. Cardinality(Recent) < Ceiling BY <1>2, <1>4, <2>2, CeilingAssumption
    <3>4. CASE Cardinality(Counting) = 0
      <4>1. Beside' = Beside BY <1>4, <1>5, <1>1, <3>4 DEF Beside
      <4> QED BY <1>2, <1>7, <3>2, <3>3, <3>4, <4>1, CeilingAssumption
    <3>5. CASE Cardinality(Counting) > 0
      <4>1. Beside' = Beside \cup {s} BY <1>4, <1>5, <2>2, <3>5 DEF Beside
      <4>2. Cardinality(Beside') = Cardinality(Beside) + 1 BY <1>2, <3>1, <4>1, FS_AddElement
      <4>3. Cardinality(Recent) + Cardinality(Counting) <= Ceiling + Cardinality(Beside) BY DEF CodeInv
      <4> QED BY <1>2, <1>7, <3>2, <4>2, <4>3, CeilingAssumption
    <3> QED BY <1>2, <3>2, <3>4, <3>5
  <2> QED BY <1>4, <2>1, <2>2
<1> QED BY <1>1, <1>6, <1>7, <1>8 DEF CodeInv, Reader, Overlapped

LEMMA SendKeeps ==
  ASSUME CodeInv, NEW s \in Senders, NEW c \in CodeIds, NEW digits \in Digits, Send(s, c, digits)
  PROVE  CodeInv'
<1> DEFINE n == [Unsent EXCEPT !.made = TRUE, !.digits = digits]
           r == [sending[s] EXCEPT !.pc = "sent"]
<1>1. /\ sending[s].pc = "counted" /\ ~code[c].made
      /\ code' = [code EXCEPT ![c] = n] /\ sending' = [sending EXCEPT ![s] = r]
      /\ UNCHANGED <<verifying, logins>>
  BY DEF Send
<1>2. n \in [made : BOOLEAN, digits : Digits \cup {NoCode}, old : BOOLEAN, verified : BOOLEAN]
      /\ n.made /\ ~n.old /\ ~n.verified
  <2>1. Unsent \in [made : BOOLEAN, digits : Digits \cup {NoCode}, old : BOOLEAN, verified : BOOLEAN]
        /\ Unsent.old = FALSE /\ Unsent.verified = FALSE
    BY DEF Unsent
  <2> QED BY <2>1
<1>3. r \in [pc : {"free", "counted", "sent", "refused"}, beside : Nat]
      /\ r.pc = "sent" /\ r.beside = sending[s].beside
  BY DEF CodeInv, CodeTypeOK
<1> HIDE DEF n, r
<1>4. /\ \A t \in Senders : sending'[t] = IF t = s THEN r ELSE sending[t]
      /\ \A d \in CodeIds : code'[d] = IF d = c THEN n ELSE code[d]
  BY <1>1 DEF CodeInv, CodeTypeOK
<1>5. CodeTypeOK' BY <1>1, <1>2, <1>3 DEF CodeInv, CodeTypeOK
<1>6. /\ Recent' = Recent \cup {c} /\ c \notin Recent
      /\ Passed' = Passed /\ Beside' = Beside
      /\ Counting' = Counting \ {s} /\ s \in Counting
  BY <1>1, <1>2, <1>3, <1>4 DEF Recent, Passed, Beside, Counting
<1>7. /\ IsFiniteSet(Recent') /\ Cardinality(Recent') = Cardinality(Recent) + 1
      /\ Cardinality(Counting') = Cardinality(Counting) - 1
      /\ Cardinality(Recent) \in Nat /\ Cardinality(Counting) \in Nat
  BY <1>6, SendersFinite, FS_AddElement, FS_RemoveElement, FS_CardinalityType DEF CodeInv
<1>8. Cardinality(Recent') + Cardinality(Counting') <= Ceiling + Cardinality(Beside')
  BY <1>6, <1>7 DEF CodeInv
<1>9. \A v \in Verifiers :
        verifying[v].pc \in {"marked", "in"} => verifying[v].read # c /\ verifying[v].read \in CodeIds
  BY <1>1 DEF CodeInv
<1>10. \A d \in CodeIds : code'[d].verified => code'[d].made
  BY <1>2, <1>4 DEF CodeInv
<1> QED BY <1>1, <1>4, <1>5, <1>6, <1>7, <1>8, <1>9, <1>10 DEF CodeInv, Reader, Overlapped

LEMMA AgeKeeps == ASSUME CodeInv, NEW c \in CodeIds, Age(c) PROVE CodeInv'
<1> DEFINE n == [code[c] EXCEPT !.old = TRUE]
<1>1. code' = [code EXCEPT ![c] = n] /\ UNCHANGED <<sending, verifying, logins>>
  BY DEF Age
<1>2. n \in [made : BOOLEAN, digits : Digits \cup {NoCode}, old : BOOLEAN, verified : BOOLEAN]
      /\ n.made = code[c].made /\ n.old /\ n.verified = code[c].verified
  <2>1. code[c] \in [made : BOOLEAN, digits : Digits \cup {NoCode}, old : BOOLEAN, verified : BOOLEAN]
    BY DEF CodeInv, CodeTypeOK
  <2> QED BY <2>1
<1> HIDE DEF n
<1>3. \A d \in CodeIds : code'[d] = IF d = c THEN n ELSE code[d]
  BY <1>1 DEF CodeInv, CodeTypeOK
<1>4. CodeTypeOK' BY <1>1, <1>2 DEF CodeInv, CodeTypeOK
<1>5. Recent' = Recent \ {c} /\ Passed' = Passed /\ Beside' = Beside /\ Counting' = Counting
  BY <1>1, <1>2, <1>3 DEF Recent, Passed, Beside, Counting
<1>6. IsFiniteSet(Recent') /\ Cardinality(Recent') <= Cardinality(Recent)
      /\ Cardinality(Recent) \in Nat /\ Cardinality(Recent') \in Nat
  <2>1. IsFiniteSet(Recent) /\ Recent' \in SUBSET Recent BY <1>5 DEF CodeInv
  <2> QED BY <2>1, FS_Subset, FS_CardinalityType
<1>7. Cardinality(Recent') + Cardinality(Counting') <= Ceiling + Cardinality(Beside')
  BY <1>5, <1>6, SendersFinite, CeilingAssumption DEF CodeInv
<1>8. \A d \in CodeIds : code'[d].verified = code[d].verified /\ code'[d].made = code[d].made
  BY <1>2, <1>3
<1> QED BY <1>1, <1>4, <1>5, <1>6, <1>7, <1>8 DEF CodeInv, Reader, Overlapped

LEMMA SendersUnchanged ==
  ASSUME CodeInv, sending' = sending, Recent' = Recent
  PROVE  /\ IsFiniteSet(Recent') /\ IsFiniteSet(Passed')
         /\ Cardinality(Recent') + Cardinality(Counting') <= Ceiling + Cardinality(Beside')
<1>1. Passed' = Passed /\ Beside' = Beside /\ Counting' = Counting BY DEF Passed, Beside, Counting
<1> QED BY <1>1 DEF CodeInv

LEMMA ReadKeeps == ASSUME CodeInv, NEW v \in Verifiers, NEW digits \in Digits, Read(v, digits) PROVE CodeInv'
<1> DEFINE found == {c \in Usable : code[c].digits = digits}
           reading == {w \in Verifiers : verifying[w].pc = "read"}
           r == [pc |-> CASE found = {} -> "unauthorized" [] Cardinality(found) > 1 -> "error" [] OTHER -> "read",
                 read |-> IF Cardinality(found) = 1 THEN CHOOSE c \in found : TRUE ELSE NoCode,
                 beside |-> reading]
<1>1. verifying[v].pc = "free" /\ verifying' = [verifying EXCEPT ![v] = r] /\ UNCHANGED <<code, sending, logins>>
  BY DEF Read
<1>2. Usable \subseteq Recent /\ found \subseteq Usable /\ found \subseteq CodeIds BY DEF Usable, Recent
<1>3. IsFiniteSet(found) /\ Cardinality(found) \in Nat
  BY <1>2, FS_Subset, FS_CardinalityType DEF CodeInv
<1>4. /\ r.pc \in {"unauthorized", "error", "read"} /\ r.read \in CodeIds \cup {NoCode}
      /\ r.pc = "read" => r.read \in Usable
      /\ r.beside = reading
  <2>1. CASE found = {}
    <3>1. Cardinality(found) = 0 BY <2>1, FS_EmptySet
    <3> QED BY <2>1, <3>1
  <2>2. CASE Cardinality(found) > 1 BY <2>2, <1>3, FS_EmptySet
  <2>3. CASE found # {} /\ ~(Cardinality(found) > 1)
    <3>1. Cardinality(found) = 1 BY <1>3, <2>3, FS_EmptySet
    <3>2. (CHOOSE c \in found : TRUE) \in found BY <2>3
    <3> HIDE DEF found
    <3> QED BY <1>2, <2>3, <3>1, <3>2
  <2> QED BY <2>1, <2>2, <2>3
<1>5. r \in [pc : {"free", "read", "marked", "in", "unauthorized", "error"},
             read : CodeIds \cup {NoCode}, beside : SUBSET Verifiers]
  BY <1>4
<1> HIDE DEF r
<1>6. \A w \in Verifiers : verifying'[w] = IF w = v THEN r ELSE verifying[w]
  BY <1>1 DEF CodeInv, CodeTypeOK
<1>7. CodeTypeOK' BY <1>1, <1>5 DEF CodeInv, CodeTypeOK
<1>8. Recent' = Recent BY <1>1 DEF Recent
<1>9. ASSUME NEW w \in Verifiers, NEW c \in CodeIds, w # v, Reader(v, c)', Reader(w, c)'
      PROVE  w \in verifying'[v].beside
  <2>1. c \in Usable /\ verifying'[v] = r BY <1>4, <1>6, <1>9 DEF Reader
  <2>2. Reader(w, c) BY <1>6, <1>9 DEF Reader
  <2>3. ~code[c].verified BY <2>1 DEF Usable
  <2>4. verifying[w].pc = "read" BY <2>2, <2>3 DEF CodeInv, Reader, Overlapped
  <2> QED BY <1>4, <2>1, <2>4
<1>10. \A w, x \in Verifiers, c \in CodeIds :
         w # x /\ Reader(w, c)' /\ Reader(x, c)' => x \in verifying'[w].beside \/ w \in verifying'[x].beside
  BY <1>6, <1>9 DEF CodeInv, Reader, Overlapped
<1>11. \A w \in Verifiers, c \in CodeIds : Reader(w, c) => Reader(w, c)' /\ w # v
  BY <1>1, <1>6 DEF Reader
<1>12. \A c \in CodeIds :
         /\ logins[c] > 0 => \E w \in Verifiers : verifying'[w].pc = "in" /\ verifying'[w].read = c
         /\ logins[c] > 1 => Overlapped(c)'
  BY <1>1, <1>6, <1>11 DEF CodeInv, Overlapped
<1>13. \A w \in Verifiers :
         /\ verifying'[w].pc = "free" => verifying'[w].read = NoCode
         /\ verifying'[w].pc \in {"read", "marked", "in"} =>
              verifying'[w].read \in CodeIds /\ code[verifying'[w].read].made
         /\ verifying'[w].pc \in {"marked", "in"} => code[verifying'[w].read].verified
  BY <1>2, <1>4, <1>6 DEF CodeInv, Usable, Recent
<1> QED BY <1>1, <1>7, <1>8, <1>10, <1>12, <1>13, SendersUnchanged DEF CodeInv

LEMMA MarkKeeps == ASSUME CodeInv, NEW v \in Verifiers, Mark(v) PROVE CodeInv'
<1> DEFINE c == verifying[v].read
           n == [code[c] EXCEPT !.verified = TRUE]
           r == [verifying[v] EXCEPT !.pc = "marked"]
<1>1. /\ verifying[v].pc = "read" /\ code' = [code EXCEPT ![c] = n] /\ verifying' = [verifying EXCEPT ![v] = r]
      /\ UNCHANGED <<sending, logins>>
  BY DEF Mark
<1>2. c \in CodeIds BY <1>1 DEF CodeInv
<1>3. n \in [made : BOOLEAN, digits : Digits \cup {NoCode}, old : BOOLEAN, verified : BOOLEAN]
      /\ n.made = code[c].made /\ n.old = code[c].old /\ n.verified
  <2>1. code[c] \in [made : BOOLEAN, digits : Digits \cup {NoCode}, old : BOOLEAN, verified : BOOLEAN]
    BY <1>2 DEF CodeInv, CodeTypeOK
  <2> QED BY <2>1
<1>4. r \in [pc : {"free", "read", "marked", "in", "unauthorized", "error"},
             read : CodeIds \cup {NoCode}, beside : SUBSET Verifiers]
      /\ r.pc = "marked" /\ r.read = c /\ r.beside = verifying[v].beside
  <2>1. verifying[v] \in [pc : {"free", "read", "marked", "in", "unauthorized", "error"},
                          read : CodeIds \cup {NoCode}, beside : SUBSET Verifiers]
    BY DEF CodeInv, CodeTypeOK
  <2> QED BY <2>1
<1> HIDE DEF n, r, c
<1>5. /\ \A w \in Verifiers : verifying'[w] = IF w = v THEN r ELSE verifying[w]
      /\ \A d \in CodeIds : code'[d] = IF d = c THEN n ELSE code[d]
  BY <1>1 DEF CodeInv, CodeTypeOK
<1>6. CodeTypeOK' BY <1>1, <1>3, <1>4 DEF CodeInv, CodeTypeOK
<1>7. Recent' = Recent BY <1>3, <1>5 DEF Recent
<1>8. \A w \in Verifiers : verifying'[w].read = verifying[w].read /\ verifying'[w].beside = verifying[w].beside
  BY <1>4, <1>5 DEF c
<1>9. \A w \in Verifiers, d \in CodeIds : Reader(w, d)' <=> Reader(w, d)
  BY <1>1, <1>4, <1>5 DEF Reader, c
<1>10. \A d \in CodeIds : (code[d].verified => code'[d].verified) /\ (code'[d].verified => code'[d].made)
                                /\ (code[d].made => code'[d].made)
  <2>1. code[c].made BY <1>1 DEF CodeInv, c
  <2> QED BY <1>3, <1>5, <2>1 DEF CodeInv
<1>11. \A w \in Verifiers :
         /\ verifying'[w].pc = "free" => verifying'[w].read = NoCode
         /\ verifying'[w].pc \in {"read", "marked", "in"} =>
              verifying'[w].read \in CodeIds /\ code'[verifying'[w].read].made
         /\ verifying'[w].pc \in {"marked", "in"} => code'[verifying'[w].read].verified
  BY <1>2, <1>3, <1>4, <1>5, <1>10 DEF CodeInv
<1>12. \A d \in CodeIds : logins[d] > 0 => \E w \in Verifiers : verifying'[w].pc = "in" /\ verifying'[w].read = d
  BY <1>1, <1>5 DEF CodeInv
<1>13. \A d \in CodeIds : Overlapped(d) => Overlapped(d)'
  BY <1>4, <1>5, <1>8 DEF Overlapped
<1> QED BY <1>1, <1>6, <1>7, <1>8, <1>9, <1>10, <1>11, <1>12, <1>13, SendersUnchanged DEF CodeInv

LEMMA LogInKeeps == ASSUME CodeInv, NEW v \in Verifiers, LogIn(v) PROVE CodeInv'
<1>0. PICK c \in CodeIds : c = verifying[v].read BY DEF LogIn, CodeInv
<1>1. /\ verifying[v].pc = "marked" /\ UNCHANGED <<code, sending>>
      /\ \/ verifying' = [verifying EXCEPT ![v].pc = "in"] /\ logins' = [logins EXCEPT ![c] = @ + 1]
         \/ verifying' = [verifying EXCEPT ![v].pc = "error"] /\ UNCHANGED logins
  BY <1>0 DEF LogIn
<1>2. code[c].verified /\ logins[c] \in Nat BY <1>0, <1>1 DEF CodeInv, CodeTypeOK
<1>3. /\ \A w \in Verifiers : /\ verifying'[w].read = verifying[w].read
                              /\ verifying'[w].beside = verifying[w].beside
                              /\ w # v => verifying'[w].pc = verifying[w].pc
      /\ verifying'[v].pc \in {"in", "error"}
      /\ CodeTypeOK'
  <2> DEFINE V == [pc : {"free", "read", "marked", "in", "unauthorized", "error"},
                   read : CodeIds \cup {NoCode}, beside : SUBSET Verifiers]
  <2>1. verifying \in [Verifiers -> V] BY DEF CodeInv, CodeTypeOK
  <2>5. ASSUME verifying' \in [Verifiers -> V], logins' \in [CodeIds -> Nat] PROVE CodeTypeOK'
    BY <1>1, <2>5, Zenon DEF CodeInv, CodeTypeOK
  <2>2. CASE verifying' = [verifying EXCEPT ![v].pc = "in"] /\ logins' = [logins EXCEPT ![c] = @ + 1]
    <3>1. logins' \in [CodeIds -> Nat] BY <1>2, <2>2 DEF CodeInv, CodeTypeOK
    <3>3. verifying' \in [Verifiers -> V] BY <2>1, <2>2
    <3>2. CodeTypeOK' BY <2>5, <3>1, <3>3
    <3> QED BY <2>1, <2>2, <3>2
  <2>3. CASE verifying' = [verifying EXCEPT ![v].pc = "error"] /\ UNCHANGED logins
    <3>1. verifying' \in [Verifiers -> V] BY <2>1, <2>3
    <3>2. logins' \in [CodeIds -> Nat] BY <2>3 DEF CodeInv, CodeTypeOK
    <3>3. CodeTypeOK' BY <2>5, <3>1, <3>2
    <3> QED BY <2>1, <2>3, <3>3
  <2> QED BY <1>1, <2>2, <2>3
<1>4. Recent' = Recent BY <1>1 DEF Recent
<1>5. \A w \in Verifiers, d \in CodeIds : /\ Reader(w, d)' => Reader(w, d)
                                          /\ w # v /\ Reader(w, d) => Reader(w, d)'
  BY <1>1, <1>3 DEF Reader
<1>6. \A d \in CodeIds : Overlapped(d) => Overlapped(d)'
  BY <1>1, <1>3 DEF Overlapped
<1>7. \A d \in CodeIds :
        /\ logins'[d] > 0 => \E w \in Verifiers : verifying'[w].pc = "in" /\ verifying'[w].read = d
        /\ logins'[d] > 1 => Overlapped(d)'
        /\ code'[d].verified => code'[d].made
  <2>1. CASE verifying' = [verifying EXCEPT ![v].pc = "in"] /\ logins' = [logins EXCEPT ![c] = @ + 1]
    <3>1. verifying'[v].pc = "in" /\ verifying'[v].read = c /\ Reader(v, c)'
      BY <1>0, <1>3, <2>1 DEF CodeInv, CodeTypeOK, Reader
    <3>2. \A d \in CodeIds : logins'[d] = IF d = c THEN logins[c] + 1 ELSE logins[d]
      BY <2>1, <1>2 DEF CodeInv, CodeTypeOK
    <3>3. logins'[c] > 1 => Overlapped(c)'
      <4>1. logins'[c] > 1 => logins[c] > 0 BY <1>2, <3>2
      <4>2. logins[c] > 0 => \E w \in Verifiers : verifying[w].pc = "in" /\ verifying[w].read = c
        BY <1>2 DEF CodeInv
      <4>3. \A w \in Verifiers :
              verifying[w].pc = "in" /\ verifying[w].read = c =>
                w \in verifying[v].beside \/ v \in verifying[w].beside
        BY <1>0, <1>1, <1>2 DEF CodeInv, Reader
      <4> QED BY <1>1, <1>3, <3>1, <4>1, <4>2, <4>3 DEF Overlapped
    <3>4. \A w \in Verifiers : verifying[w].pc = "in" => verifying'[w].pc = "in" BY <1>1, <1>3
    <3> QED BY <1>1, <1>3, <1>6, <3>1, <3>2, <3>3, <3>4 DEF CodeInv
  <2>2. CASE verifying' = [verifying EXCEPT ![v].pc = "error"] /\ UNCHANGED logins
    BY <1>1, <1>3, <1>6, <2>2 DEF CodeInv
  <2> QED BY <1>1, <2>1, <2>2
<1>8. \A w \in Verifiers :
        /\ verifying'[w].pc = "free" => verifying'[w].read = NoCode
        /\ verifying'[w].pc \in {"read", "marked", "in"} =>
             verifying'[w].read \in CodeIds /\ code'[verifying'[w].read].made
        /\ verifying'[w].pc \in {"marked", "in"} => code'[verifying'[w].read].verified
  BY <1>0, <1>1, <1>2, <1>3 DEF CodeInv
<1> QED BY <1>1, <1>3, <1>4, <1>5, <1>7, <1>8, SendersUnchanged DEF CodeInv

LEMMA CodeInductive == CodeInv /\ [CodeNext]_codeVars => CodeInv'
<1> SUFFICES ASSUME CodeInv, [CodeNext]_codeVars PROVE CodeInv' OBVIOUS
<1>1. CASE UNCHANGED codeVars
  <2>1. Recent' = Recent BY <1>1 DEF Recent, codeVars
  <2> QED BY <1>1, <2>1, SendersUnchanged DEF codeVars, CodeInv, CodeTypeOK, Reader, Overlapped
<1>2. ASSUME NEW s \in Senders, Count(s) PROVE CodeInv' BY <1>2, CountKeeps
<1>3. ASSUME NEW s \in Senders, NEW c \in CodeIds, NEW digits \in Digits, Send(s, c, digits) PROVE CodeInv'
  BY <1>3, SendKeeps
<1>4. ASSUME NEW c \in CodeIds, Age(c) PROVE CodeInv' BY <1>4, AgeKeeps
<1>5. ASSUME NEW v \in Verifiers, Mark(v) \/ LogIn(v) PROVE CodeInv' BY <1>5, MarkKeeps, LogInKeeps
<1>6. ASSUME NEW v \in Verifiers, NEW digits \in Digits, Read(v, digits) PROVE CodeInv' BY <1>6, ReadKeeps
<1> QED BY <1>1, <1>2, <1>3, <1>4, <1>5, <1>6 DEF CodeNext

LEMMA CodeInvGives == CodeInv => CodeTypeOK /\ RecentBounded /\ OneLogin
<1> SUFFICES ASSUME CodeInv PROVE RecentBounded /\ OneLogin BY DEF CodeInv
<1>1. RecentBounded
  <2> DEFINE sent == {s \in Senders : sending[s].pc = "sent" /\ sending[s].beside > 0}
  <2>1. Beside \subseteq sent \cup Counting /\ sent \subseteq Passed
    BY DEF Beside, Counting, Passed
  <2>2. IsFiniteSet(sent) /\ Cardinality(sent) \in Nat BY <2>1, FS_Subset, FS_CardinalityType DEF CodeInv
  <2> HIDE DEF sent
  <2>3. IsFiniteSet(Counting) /\ Cardinality(Counting) \in Nat /\ Cardinality(Beside) \in Nat
    BY SendersFinite DEF CodeInv
  <2>4. /\ IsFiniteSet(sent \cup Counting) /\ Cardinality(sent \cap Counting) \in Nat
        /\ Cardinality(sent \cup Counting) <= Cardinality(sent) + Cardinality(Counting)
    <3>1. IsFiniteSet(sent \cap Counting) BY <2>2, FS_Intersection
    <3>2. Cardinality(sent \cap Counting) \in Nat BY <3>1, FS_CardinalityType
    <3>3. /\ IsFiniteSet(sent \cup Counting)
          /\ Cardinality(sent \cup Counting) = Cardinality(sent) + Cardinality(Counting) - Cardinality(sent \cap Counting)
      BY <2>2, <2>3, FS_Union
    <3> QED BY <2>2, <2>3, <3>2, <3>3
  <2>5. Cardinality(sent \cup Counting) \in Nat /\ Cardinality(Beside) <= Cardinality(sent \cup Counting)
    BY <2>1, <2>4, FS_Subset, FS_CardinalityType
  <2>6. Cardinality(Recent) \in Nat /\ Cardinality(Recent) + Cardinality(Counting) <= Ceiling + Cardinality(Beside)
    BY FS_CardinalityType DEF CodeInv
  <2>7. Cardinality(Recent) <= Ceiling + Cardinality(sent)
    BY <2>2, <2>3, <2>4, <2>5, <2>6, CeilingAssumption
  <2>8. \E k \in 0 .. Cardinality(sent) : Cardinality(Recent) <= Ceiling + k BY <2>2, <2>7
  <2> QED BY <2>8, Zenon DEF RecentBounded, sent
<1>2. OneLogin BY DEF CodeInv, Overlapped, OneLogin
<1> QED BY <1>1, <1>2

\* More codes than the limit live at once only by requests that overlapped, and a code makes
\* more than one session only by verifications that did.
THEOREM CodesHold == CodeSpec => [](CodeTypeOK /\ RecentBounded /\ OneLogin)
BY CodeInitInv, CodeInductive, CodeInvGives, PTL DEF CodeSpec
-----------------------------------------------------------------------------
(* Worksheets *)

\* A text is among a worksheet's versions, or about to be
TextSafe(s, t) ==
  t \in versions[s] \/ \E d \in WriteCalls : call[d].pc = "version" /\ call[d].sheet = s /\ call[d].row.text = t

Writing == {"create", "update"}

CallOK(c) ==
  /\ c.pc \in Writing \cup {"version"} => c.sheet \in Sheets
  /\ c.pc \in Writing => c.row.there = TRUE
  /\ c.pc = "create" => c.version = TRUE

\* What a call relies on that nobody has overtaken
NameOK(c) ==
  /\ c.pc = "create" /\ c.late = {} => ~Taken(c.sheet, c.row.name, c.row.place)
  /\ c.pc = "update" /\ c.late = {} =>
       \/ ~Taken(c.sheet, c.row.name, c.row.place)
       \/ sheet[c.sheet].there /\ c.row.name = sheet[c.sheet].name /\ c.row.place = sheet[c.sheet].place

CopyOK(c) ==
  c.pc = "update" /\ c.sheet \notin c.late =>
    sheet[c.sheet].there /\ \A f \in {"name", "place", "text"} \ c.asked : sheet[c.sheet][f] = c.row[f]

TextOK(c) ==
  /\ c.pc \in Writing /\ ~c.version /\ c.sheet \notin unkept => TextSafe(c.sheet, c.row.text)
  /\ c.pc = "version" /\ c.sheet \notin unkept => sheet[c.sheet].there

SheetInv ==
  /\ SheetsTypeOK /\ NamesForCause
  /\ \A c \in WriteCalls : CallOK(call[c]) /\ NameOK(call[c]) /\ CopyOK(call[c]) /\ TextOK(call[c])
  /\ \A s \in Sheets : sheet[s].there /\ s \notin unkept => TextSafe(s, sheet[s].text)

LEMMA BlankType == Blank \in Row /\ Blank.there = FALSE
<1>1. (CHOOSE n \in Names : TRUE) \in Names /\ (CHOOSE t \in Texts : TRUE) \in Texts
  BY WorksheetsAssumption
<1> QED BY <1>1 DEF Blank, Row, Places

LEMMA NoCallType ==
  /\ NoCall \in Call /\ Over \in Call
  /\ NoCall.pc = "free" /\ Over.pc = "over"
BY BlankType DEF NoCall, Over, Call

LEMMA SheetsInitInv == SheetsInit => SheetInv
<1> SUFFICES ASSUME SheetsInit PROVE SheetInv OBVIOUS
<1>1. PICK there \in SUBSET Sheets, name \in [Sheets -> Names], place \in [Sheets -> Places] :
        /\ sheet = [s \in Sheets |-> IF s \in there THEN [Blank EXCEPT !.there = TRUE, !.name = name[s], !.place = place[s]]
                                     ELSE Blank]
        /\ \A s, o \in there : s # o => name[s] # name[o] \/ place[s] # place[o]
  BY DEF SheetsInit
<1>2. \A s \in Sheets :
        /\ sheet[s] \in Row
        /\ s \in there => sheet[s].there = TRUE /\ sheet[s].name = name[s] /\ sheet[s].place = place[s]
        /\ s \notin there => sheet[s].there = FALSE
  BY <1>1, BlankType DEF Row
<1>3. SheetsTypeOK
  <2>1. sheet \in [Sheets -> Row] BY <1>1, <1>2
  <2>2. \A s \in Sheets : versions[s] = IF sheet[s].there THEN {sheet[s].text} ELSE {} BY DEF SheetsInit
  <2>3. versions \in [Sheets -> SUBSET Texts] BY <1>2, <2>2 DEF SheetsInit, Row
  <2>4. call \in [WriteCalls -> Call] BY NoCallType DEF SheetsInit
  <2> QED BY <2>1, <2>2, <2>3, <2>4 DEF SheetsInit, SheetsTypeOK, Places
<1>4. NamesForCause
  <2> SUFFICES ASSUME NEW s \in Sheets, NEW o \in Sheets, s # o, sheet[s].there, sheet[o].there,
                      sheet[s].name = sheet[o].name, sheet[s].place = sheet[o].place
               PROVE  FALSE
    BY DEF NamesForCause
  <2>1. s \in there /\ o \in there BY <1>2
  <2>2. name[s] = name[o] /\ place[s] = place[o] BY <1>2, <2>1
  <2>3. name[s] # name[o] \/ place[s] # place[o] BY <1>1, <2>1
  <2> QED BY <2>2, <2>3
<1>5. \A c \in WriteCalls : CallOK(call[c]) /\ NameOK(call[c]) /\ CopyOK(call[c]) /\ TextOK(call[c])
  BY NoCallType DEF SheetsInit, CallOK, NameOK, CopyOK, TextOK, Writing
<1>6. \A s \in Sheets : sheet[s].there => TextSafe(s, sheet[s].text)
  BY DEF SheetsInit, TextSafe
<1> QED BY <1>3, <1>4, <1>5, <1>6 DEF SheetInv

\* What is written under a call is noted with it, and changes nothing else of it
LEMMA OvertakenOK ==
  ASSUME SheetsTypeOK, NEW set \in SUBSET Sheets, NEW c \in WriteCalls
  PROVE  /\ Overtaken(set)[c] \in Call
         /\ Overtaken(set)[c].pc = call[c].pc /\ Overtaken(set)[c].sheet = call[c].sheet
         /\ Overtaken(set)[c].row = call[c].row /\ Overtaken(set)[c].version = call[c].version
         /\ Overtaken(set)[c].asked = call[c].asked
         /\ call[c].pc \in Writing => Overtaken(set)[c].late = call[c].late \cup set
<1>1. call[c] \in Call BY DEF SheetsTypeOK
<1>2. Overtaken(set)[c] = IF call[c].pc \in Writing THEN [call[c] EXCEPT !.late = @ \cup set] ELSE call[c]
  BY DEF Overtaken, Writing
<1> QED BY <1>1, <1>2 DEF Call

\* The worksheets of a folder are moved to the root
LEMMA MovedKeeps ==
  ASSUME SheetInv, NEW inside \in SUBSET Sheets,
         sheet' = [s \in Sheets |-> IF s \in inside THEN [sheet[s] EXCEPT !.place = Root] ELSE sheet[s]],
         carried' = carried \cup inside, call' = Overtaken(inside),
         folders' \subseteq Folders, moving' \in Places, UNCHANGED <<versions, crossedSheets, unkept>>
  PROVE  SheetInv'
<1>1. SheetsTypeOK BY DEF SheetInv
<1>2. \A s \in Sheets :
        /\ sheet'[s] \in Row /\ sheet'[s].there = sheet[s].there /\ sheet'[s].name = sheet[s].name
        /\ sheet'[s].text = sheet[s].text
        /\ sheet'[s].place = IF s \in inside THEN Root ELSE sheet[s].place
  BY <1>1 DEF SheetsTypeOK, Row, Places
<1>3. \A c \in WriteCalls :
         /\ call'[c] \in Call /\ call'[c].pc = call[c].pc /\ call'[c].sheet = call[c].sheet
         /\ call'[c].row = call[c].row /\ call'[c].version = call[c].version /\ call'[c].asked = call[c].asked
         /\ call[c].pc \in Writing => call'[c].late = call[c].late \cup inside
  BY <1>1, OvertakenOK
<1>4. SheetsTypeOK'
  <2>1. sheet' \in [Sheets -> Row] BY <1>2
  <2>2. call' \in [WriteCalls -> Call] BY <1>3 DEF Overtaken
  <2> QED BY <1>1, <1>2, <2>1, <2>2 DEF SheetsTypeOK
<1>5. NamesForCause'
  <2> SUFFICES ASSUME NEW s \in Sheets, NEW o \in Sheets, s # o, sheet'[s].there, sheet'[o].there,
                      sheet'[s].name = sheet'[o].name, sheet'[s].place = sheet'[o].place
               PROVE  sheet'[s].place = Root /\ {s, o} \cap (carried' \cup crossedSheets') # {}
    BY DEF NamesForCause
  <2>1. CASE {s, o} \cap inside # {} BY <1>2, <2>1
  <2>2. CASE s \notin inside /\ o \notin inside BY <1>2, <2>2 DEF SheetInv, NamesForCause
  <2> QED BY <2>1, <2>2
<1>6. \A c \in WriteCalls : CallOK(call[c])' /\ NameOK(call[c])'
  <2> SUFFICES ASSUME NEW c \in WriteCalls PROVE CallOK(call[c])' /\ NameOK(call[c])' OBVIOUS
  <2>1. CallOK(call[c])' BY <1>3 DEF SheetInv, CallOK
  <2>2. CASE inside = {}
    <3>1. sheet' = sheet BY <1>1, <2>2 DEF SheetsTypeOK
    <3>2. \A s, n, p : Taken(s, n, p)' <=> Taken(s, n, p) BY <3>1 DEF Taken
    <3> QED BY <1>3, <2>1, <2>2, <3>1, <3>2 DEF SheetInv, NameOK, Writing
  <2>3. CASE inside # {} BY <1>3, <2>1, <2>3 DEF NameOK, Writing
  <2> QED BY <2>2, <2>3
<1>7. \A c \in WriteCalls : CopyOK(call[c])'
  <2> SUFFICES ASSUME NEW c \in WriteCalls, call[c].pc = "update", call[c].sheet \notin call[c].late \cup inside
               PROVE  sheet'[call[c].sheet].there
                      /\ \A f \in {"name", "place", "text"} \ call[c].asked : sheet'[call[c].sheet][f] = call[c].row[f]
    BY <1>3 DEF CopyOK, Writing
  <2>1. call[c].sheet \in Sheets BY DEF SheetInv, CallOK, Writing
  <2>2. sheet'[call[c].sheet] = sheet[call[c].sheet] BY <2>1
  <2> QED BY <2>2 DEF SheetInv, CopyOK
<1>8. \A s, t : TextSafe(s, t) => TextSafe(s, t)' BY <1>3 DEF TextSafe
<1>9. \A c \in WriteCalls : TextOK(call[c])'
  BY <1>2, <1>3, <1>8 DEF SheetInv, TextOK, CallOK, Writing
<1>10. \A s \in Sheets : sheet'[s].there /\ s \notin unkept' => TextSafe(s, sheet[s].text)'
  BY <1>2, <1>8 DEF SheetInv
<1> QED BY <1>4, <1>5, <1>6, <1>7, <1>9, <1>10 DEF SheetInv

LEMMA MoveOutKeeps == ASSUME SheetInv, NEW f \in Folders, MoveOut(f) PROVE SheetInv'
<1> DEFINE inside == {s \in Sheets : sheet[s].there /\ sheet[s].place = f}
<1>1. /\ moving' = f /\ carried' = carried \cup inside /\ call' = Overtaken(inside)
      /\ sheet' = [s \in Sheets |-> IF s \in inside THEN [sheet[s] EXCEPT !.place = Root] ELSE sheet[s]]
      /\ UNCHANGED <<folders, versions, crossedSheets, unkept>>
  BY DEF MoveOut
<1>2. inside \in SUBSET Sheets OBVIOUS
<1>3. folders' \subseteq Folders /\ moving' \in Places BY <1>1 DEF SheetInv, SheetsTypeOK, Places
<1> HIDE DEF inside
<1> QED BY <1>1, <1>2, <1>3, MovedKeeps

LEMMA DeleteFolderKeeps == ASSUME SheetInv, DeleteFolder PROVE SheetInv'
<1> DEFINE inside == {s \in Sheets : sheet[s].there /\ sheet[s].place = moving}
<1>1. /\ moving' = Root /\ carried' = carried \cup inside /\ call' = Overtaken(inside)
      /\ sheet' = [s \in Sheets |-> IF s \in inside THEN [sheet[s] EXCEPT !.place = Root] ELSE sheet[s]]
      /\ folders' = folders \ {moving} /\ UNCHANGED <<versions, crossedSheets, unkept>>
  BY DEF DeleteFolder
<1>2. inside \in SUBSET Sheets OBVIOUS
<1>3. folders' \subseteq Folders /\ moving' \in Places BY <1>1 DEF SheetInv, SheetsTypeOK, Places
<1> HIDE DEF inside
<1> QED BY <1>1, <1>2, <1>3, MovedKeeps

LEMMA FolderStaysKeeps == ASSUME SheetInv, FolderStays PROVE SheetInv'
<1>1. moving' = Root /\ UNCHANGED <<folders, sheet, versions, call, carried, crossedSheets, unkept>>
  BY DEF FolderStays
<1>2. SheetsTypeOK' BY <1>1 DEF SheetInv, SheetsTypeOK, Places
<1> QED BY <1>1, <1>2 DEF SheetInv, NamesForCause, CallOK, NameOK, CopyOK, TextOK, TextSafe, Taken

\* A call changes and nothing else does
LEMMA CallStep ==
  ASSUME SheetInv, NEW c \in WriteCalls, NEW r \in Call, call' = [call EXCEPT ![c] = r],
         CallOK(r), NameOK(r), CopyOK(r), TextOK(r), call[c].pc # "version",
         UNCHANGED <<folders, sheet, versions, moving, carried, crossedSheets, unkept>>
  PROVE  SheetInv'
<1>1. \A d \in WriteCalls : call'[d] = IF d = c THEN r ELSE call[d] BY DEF SheetInv, SheetsTypeOK
<1>2. SheetsTypeOK' BY DEF SheetInv, SheetsTypeOK
<1>3. \A s, t : TextSafe(s, t) => TextSafe(s, t)' BY <1>1 DEF TextSafe
<1>4. \A d \in WriteCalls : CallOK(call[d])' /\ NameOK(call[d])' /\ CopyOK(call[d])' /\ TextOK(call[d])'
  <2>1. \A d \in WriteCalls : CallOK(call'[d]) /\ NameOK(call'[d]) /\ CopyOK(call'[d]) /\ TextOK(call'[d])
    BY <1>1 DEF SheetInv
  <2> QED BY <1>3, <2>1 DEF CallOK, NameOK, CopyOK, TextOK, Taken
<1> QED BY <1>2, <1>3, <1>4 DEF SheetInv, NamesForCause

LEMMA AskCreateKeeps ==
  ASSUME SheetInv, NEW c \in WriteCalls, NEW s \in Sheets, NEW name \in Names, NEW place \in Places,
         AskCreate(c, s, name, place)
  PROVE  SheetInv'
<1> DEFINE new == [Blank EXCEPT !.there = TRUE, !.name = name, !.place = place]
           r == [pc |-> "create", sheet |-> s, version |-> TRUE, asked |-> {"name", "place", "text"},
                 late |-> {}, row |-> new]
<1>1. /\ call[c].pc = "free" /\ ~Taken(s, name, place) /\ call' = [call EXCEPT ![c] = r]
      /\ UNCHANGED <<folders, sheet, versions, moving, carried, crossedSheets, unkept>>
  BY DEF AskCreate
<1>2. new \in Row /\ new.there = TRUE /\ new.name = name /\ new.place = place
  BY BlankType DEF Row
<1> HIDE DEF new
<1>3. r \in Call BY <1>2 DEF Call
<1>4. CallOK(r) /\ NameOK(r) /\ CopyOK(r) /\ TextOK(r)
  BY <1>1, <1>2 DEF CallOK, NameOK, CopyOK, TextOK, Writing
<1> HIDE DEF r
<1> QED BY <1>1, <1>3, <1>4, CallStep

LEMMA AskUpdateKeeps ==
  ASSUME SheetInv, NEW c \in WriteCalls, NEW s \in Sheets, NEW change \in Change, AskUpdate(c, s, change)
  PROVE  SheetInv'
<1> DEFINE old == sheet[s]
           new == [old EXCEPT !.name = IF change.name = Same THEN @ ELSE change.name,
                              !.place = IF change.place = Same THEN @ ELSE change.place,
                              !.text = IF change.text = Same THEN @ ELSE change.text]
           asked == {f \in DOMAIN change : change[f] # Same}
           r == [pc |-> "update", sheet |-> s, row |-> new, version |-> new.text # old.text,
                 asked |-> asked, late |-> {}]
<1>1. /\ call[c].pc = "free" /\ old.there
      /\ new.name # old.name \/ new.place # old.place => ~Taken(s, new.name, new.place)
      /\ call' = [call EXCEPT ![c] = r]
      /\ UNCHANGED <<folders, sheet, versions, moving, carried, crossedSheets, unkept>>
  BY DEF AskUpdate
<1>2. old \in Row /\ (old.there => old.there = TRUE) BY DEF SheetInv, SheetsTypeOK, Row
<1>3. /\ change.name \in Names \cup {Same} /\ change.place \in Places \cup {Same} /\ change.text \in Texts \cup {Same}
      /\ asked \subseteq {"name", "place", "text"}
      /\ "name" \notin asked => change.name = Same
      /\ "place" \notin asked => change.place = Same
      /\ "text" \notin asked => change.text = Same
  BY DEF Change
<1> HIDE DEF asked
<1>4. /\ new \in Row /\ new.there = old.there
      /\ "name" \notin asked => new.name = old.name
      /\ "place" \notin asked => new.place = old.place
      /\ "text" \notin asked => new.text = old.text
  BY <1>2, <1>3 DEF Row
<1>5. \A f \in {"name", "place", "text"} \ asked : old[f] = new[f] BY <1>4
<1> HIDE DEF new
<1>6. r \in Call BY <1>3, <1>4 DEF Call
<1>7. CallOK(r) BY <1>1, <1>2, <1>4 DEF CallOK
<1>8. NameOK(r) BY <1>1, <1>2 DEF NameOK
<1>9. CopyOK(r) BY <1>1, <1>5 DEF CopyOK
<1>10. TextOK(r) BY <1>1 DEF SheetInv, TextOK
<1> HIDE DEF r
<1> QED BY <1>1, <1>6, <1>7, <1>8, <1>9, <1>10, CallStep

LEMMA OverOK == CallOK(Over) /\ NameOK(Over) /\ CopyOK(Over) /\ TextOK(Over)
BY NoCallType DEF CallOK, NameOK, CopyOK, TextOK, Writing

LEMMA SaveRefusedKeeps == ASSUME SheetInv, NEW c \in WriteCalls, SaveRefused(c) PROVE SheetInv'
<1>1. /\ call[c].pc # "version" /\ call' = [call EXCEPT ![c] = Over]
      /\ UNCHANGED <<folders, sheet, versions, moving, carried, crossedSheets, unkept>>
  BY DEF SaveRefused
<1> QED BY <1>1, OverOK, NoCallType, CallStep

\* What a call leaves behind, where there is a version to keep of it
LEMMA SavedOK ==
  ASSUME SheetInv, NEW c \in WriteCalls, call[c].pc \in Writing
  PROVE  /\ Saved(c) \in Call /\ Saved(c).pc \notin Writing
         /\ call[c].version => Saved(c).pc = "version" /\ Saved(c).sheet = call[c].sheet
                               /\ Saved(c).row.text = call[c].row.text
         /\ ~call[c].version => Saved(c).pc = "over"
<1>1. call[c] \in Call /\ call[c].row \in Row BY DEF SheetInv, SheetsTypeOK, Call
<1>2. call[c].sheet \in Sheets /\ call[c].row.text \in Texts BY <1>1 DEF SheetInv, CallOK, Row
<1>3. CASE call[c].version
  <2> DEFINE r == [NoCall EXCEPT !.pc = "version", !.sheet = call[c].sheet, !.row.text = call[c].row.text]
  <2>1. Saved(c) = r BY <1>3 DEF Saved
  <2>2. NoCall \in Call /\ NoCall.row \in Row BY NoCallType DEF Call
  <2>3. r \in Call /\ r.pc = "version" /\ r.sheet = call[c].sheet /\ r.row.text = call[c].row.text
    BY <1>2, <2>2 DEF Call, Row
  <2> QED BY <1>3, <2>1, <2>3 DEF Writing
<1>4. CASE ~call[c].version
  BY <1>4, NoCallType DEF Saved, Writing
<1> QED BY <1>3, <1>4

LEMMA SaveSheetKeeps == ASSUME SheetInv, NEW c \in WriteCalls, SaveSheet(c) PROVE SheetInv'
<1>0. call[c].pc \in Writing BY DEF SaveSheet, Writing
<1>1. PICK s \in Sheets : s = call[c].sheet BY <1>0 DEF SheetInv, CallOK
<1>2. PICK w \in Row : w = call[c].row BY DEF SheetInv, SheetsTypeOK, Call
<1>3. PICK r \in Call : r = Saved(c) BY <1>0, SavedOK
<1>4. /\ Acceptable(s, w) /\ sheet' = [sheet EXCEPT ![s] = w]
      /\ crossedSheets' = IF call[c].late # {} THEN crossedSheets \cup {s} ELSE crossedSheets
      /\ carried' = IF w.place = Root THEN carried ELSE carried \ {s}
      /\ call' = [Overtaken({s}) EXCEPT ![c] = r]
      /\ UNCHANGED <<folders, versions, moving, unkept>>
  BY <1>1, <1>2, <1>3 DEF SaveSheet
<1>5. SheetsTypeOK BY DEF SheetInv
<1>6. \A d \in WriteCalls :
        /\ d # c =>
             /\ call'[d] \in Call /\ call'[d].pc = call[d].pc /\ call'[d].sheet = call[d].sheet
             /\ call'[d].row = call[d].row /\ call'[d].version = call[d].version /\ call'[d].asked = call[d].asked
             /\ call[d].pc \in Writing => call'[d].late = call[d].late \cup {s}
        /\ call'[c] = r
  <2>1. call'[c] = r BY <1>4 DEF Overtaken
  <2>2. \A d \in WriteCalls : d # c => call'[d] = Overtaken({s})[d] BY <1>4 DEF Overtaken
  <2> QED BY <1>5, <2>1, <2>2, OvertakenOK
<1>7. /\ r.pc \notin Writing /\ r.pc \in {"version", "over"}
      /\ call[c].version => r.pc = "version" /\ r.sheet = s /\ r.row.text = w.text
      /\ ~call[c].version => r.pc = "over"
  BY <1>0, <1>1, <1>2, <1>3, SavedOK DEF SheetInv, SheetsTypeOK, Call
<1>8. w.there = TRUE BY <1>0, <1>2 DEF SheetInv, CallOK
<1>9. \A o \in Sheets : sheet'[o] = IF o = s THEN w ELSE sheet[o] BY <1>4, <1>5 DEF SheetsTypeOK
<1>10. SheetsTypeOK'
  <2>1. sheet' \in [Sheets -> Row] BY <1>4, <1>5 DEF SheetsTypeOK
  <2>2. call' \in [WriteCalls -> Call] BY <1>4, <1>6 DEF Overtaken
  <2>3. carried' \cup crossedSheets' \cup unkept' \subseteq Sheets BY <1>4, <1>5 DEF SheetsTypeOK
  <2>4. \A o \in Sheets : versions'[o] # {} => sheet'[o].there BY <1>4, <1>5, <1>8, <1>9 DEF SheetsTypeOK
  <2> QED BY <1>4, <1>5, <2>1, <2>2, <2>3, <2>4 DEF SheetsTypeOK
<1>11. ASSUME NEW o \in Sheets, o # s, sheet[o].there, sheet[o].name = w.name, sheet[o].place = w.place
       PROVE  w.place = Root /\ {s, o} \cap (carried' \cup crossedSheets') # {}
  <2>1. Taken(s, w.name, w.place) BY <1>11 DEF Taken
  <2>2. w.place = Root BY <1>4, <2>1 DEF Acceptable
  <2>3. CASE call[c].late # {} BY <1>4, <2>2, <2>3
  <2>4. CASE call[c].late = {}
    <3>1. sheet[s].there /\ w.name = sheet[s].name /\ w.place = sheet[s].place
      BY <1>0, <1>1, <1>2, <2>1, <2>4 DEF SheetInv, NameOK, Writing
    <3>2. {s, o} \cap (carried \cup crossedSheets) # {} BY <1>11, <3>1 DEF SheetInv, NamesForCause
    <3> QED BY <1>4, <2>2, <3>2
  <2> QED BY <2>3, <2>4
<1>12. NamesForCause'
  <2> SUFFICES ASSUME NEW p \in Sheets, NEW o \in Sheets, p # o, sheet'[p].there, sheet'[o].there,
                      sheet'[p].name = sheet'[o].name, sheet'[p].place = sheet'[o].place
               PROVE  sheet'[p].place = Root /\ {p, o} \cap (carried' \cup crossedSheets') # {}
    BY DEF NamesForCause
  <2>1. CASE p = s
    <3>1. sheet'[p] = w /\ sheet'[o] = sheet[o] BY <1>9, <2>1
    <3> QED BY <1>11, <2>1, <3>1
  <2>2. CASE o = s
    <3>1. sheet'[o] = w /\ sheet'[p] = sheet[p] BY <1>9, <2>2
    <3> QED BY <1>11, <2>2, <3>1
  <2>3. CASE p # s /\ o # s
    <3>1. sheet[p].place = Root /\ {p, o} \cap (carried \cup crossedSheets) # {}
      BY <1>9, <2>3 DEF SheetInv, NamesForCause
    <3> QED BY <1>4, <1>9, <2>3, <3>1
  <2> QED BY <2>1, <2>2, <2>3
<1>13. ASSUME NEW p, NEW t, TextSafe(p, t) PROVE TextSafe(p, t)'
  <2>1. CASE t \in versions[p] BY <1>4, <2>1 DEF TextSafe
  <2>2. CASE \E d \in WriteCalls : call[d].pc = "version" /\ call[d].sheet = p /\ call[d].row.text = t
    <3>1. PICK d \in WriteCalls : call[d].pc = "version" /\ call[d].sheet = p /\ call[d].row.text = t
      BY <2>2
    <3>2. d # c BY <1>0, <3>1 DEF Writing
    <3> QED BY <1>6, <3>1, <3>2 DEF TextSafe
  <2> QED BY <1>13, <2>1, <2>2 DEF TextSafe
<1>14. \A d \in WriteCalls : CallOK(call[d])' /\ NameOK(call[d])' /\ CopyOK(call[d])' /\ TextOK(call[d])'
  <2> SUFFICES ASSUME NEW d \in WriteCalls
               PROVE  CallOK(call[d])' /\ NameOK(call[d])' /\ CopyOK(call[d])' /\ TextOK(call[d])'
    OBVIOUS
  <2>1. CASE d = c
    <3>1. call'[d] = r BY <1>6, <2>1
    <3>2. r.pc = "version" => r.sheet = s /\ sheet'[s].there BY <1>7, <1>8, <1>9
    <3> QED BY <1>7, <3>1, <3>2 DEF CallOK, NameOK, CopyOK, TextOK, Writing
  <2>2. CASE d # c
    <3>1. CallOK(call[d])' BY <1>6, <2>2 DEF SheetInv, CallOK
    <3>2. NameOK(call[d])' BY <1>6, <2>2 DEF NameOK, Writing
    <3>3. CopyOK(call[d])'
      <4> SUFFICES ASSUME call[d].pc = "update", call[d].sheet \notin call[d].late, call[d].sheet # s
                   PROVE  sheet'[call[d].sheet].there
                          /\ \A f \in {"name", "place", "text"} \ call[d].asked : sheet'[call[d].sheet][f] = call[d].row[f]
        BY <1>6, <2>2 DEF CopyOK, Writing
      <4>1. call[d].sheet \in Sheets BY DEF SheetInv, CallOK, Writing
      <4> QED BY <1>9, <4>1 DEF SheetInv, CopyOK
    <3>4. TextOK(call[d])'
      <4>1. call[d].pc = "version" /\ call[d].sheet \notin unkept => sheet'[call[d].sheet].there
        BY <1>8, <1>9 DEF SheetInv, TextOK, CallOK
      <4>2. call[d].pc \in Writing /\ ~call[d].version /\ call[d].sheet \notin unkept =>
              TextSafe(call[d].sheet, call[d].row.text)
        BY DEF SheetInv, TextOK
      <4>3. call'[d].pc = call[d].pc /\ call'[d].sheet = call[d].sheet /\ call'[d].row = call[d].row
            /\ call'[d].version = call[d].version /\ unkept' = unkept
        BY <1>4, <1>6, <2>2
      <4>4. call[d].pc \in Writing /\ ~call[d].version /\ call[d].sheet \notin unkept =>
              TextSafe(call[d].sheet, call[d].row.text)'
        BY <1>13, <4>2, <4>3
      <4> QED BY <4>1, <4>3, <4>4 DEF TextOK
    <3> QED BY <3>1, <3>2, <3>3, <3>4
  <2> QED BY <2>1, <2>2
<1>15. \A o \in Sheets : sheet'[o].there /\ o \notin unkept' => TextSafe(o, sheet[o].text)'
  <2>1. s \notin unkept => TextSafe(s, w.text)'
    <3>1. CASE call[c].version BY <1>6, <1>7, <3>1 DEF TextSafe
    <3>2. CASE ~call[c].version BY <1>0, <1>1, <1>2, <1>13, <3>2 DEF SheetInv, TextOK
    <3> QED BY <3>1, <3>2
  <2>2. \A o \in Sheets \ {s} : sheet'[o].there /\ o \notin unkept => TextSafe(o, sheet[o].text)'
    BY <1>9, <1>13 DEF SheetInv
  <2> QED BY <1>4, <1>9, <2>1, <2>2
<1> QED BY <1>10, <1>12, <1>14, <1>15 DEF SheetInv

LEMMA KeepVersionKeeps == ASSUME SheetInv, NEW c \in WriteCalls, KeepVersion(c) PROVE SheetInv'
<1>0. call[c].pc = "version" BY DEF KeepVersion
<1>1. PICK s \in Sheets : s = call[c].sheet BY <1>0 DEF SheetInv, CallOK
<1>2. PICK t \in Texts : t = call[c].row.text BY DEF SheetInv, SheetsTypeOK, Call, Row
<1>3. /\ versions' = IF sheet[s].there THEN [versions EXCEPT ![s] = versions[s] \cup {t}] ELSE versions
      /\ call' = [call EXCEPT ![c] = Over]
      /\ UNCHANGED <<folders, sheet, moving, carried, crossedSheets, unkept>>
  BY <1>1, <1>2 DEF KeepVersion
<1>4. \A d \in WriteCalls : call'[d] = IF d = c THEN Over ELSE call[d] BY <1>3 DEF SheetInv, SheetsTypeOK
<1>5. \A o \in Sheets : versions'[o] = IF o = s /\ sheet[s].there THEN versions[s] \cup {t} ELSE versions[o]
  BY <1>3 DEF SheetInv, SheetsTypeOK
<1>6. SheetsTypeOK'
  <2>1. versions' \in [Sheets -> SUBSET Texts] BY <1>3 DEF SheetInv, SheetsTypeOK
  <2>2. call' \in [WriteCalls -> Call] BY <1>3, NoCallType DEF SheetInv, SheetsTypeOK
  <2>3. \A o \in Sheets : versions'[o] # {} => sheet'[o].there BY <1>3, <1>5 DEF SheetInv, SheetsTypeOK
  <2> QED BY <1>3, <2>1, <2>2, <2>3 DEF SheetInv, SheetsTypeOK
<1>7. ASSUME NEW o \in Sheets, o \notin unkept, NEW u, TextSafe(o, u) PROVE TextSafe(o, u)'
  <2>1. CASE u \in versions[o] BY <1>5, <2>1 DEF TextSafe
  <2>2. CASE \E d \in WriteCalls \ {c} : call[d].pc = "version" /\ call[d].sheet = o /\ call[d].row.text = u
    BY <1>4, <2>2 DEF TextSafe
  <2>3. CASE o = s /\ u = t
    <3>1. sheet[s].there BY <1>0, <1>1, <1>7, <2>3 DEF SheetInv, TextOK
    <3> QED BY <1>5, <2>3, <3>1 DEF TextSafe
  <2> QED BY <1>1, <1>2, <1>7, <2>1, <2>2, <2>3 DEF TextSafe
<1>8. \A d \in WriteCalls : CallOK(call[d])' /\ NameOK(call[d])' /\ CopyOK(call[d])'
  <2>1. \A d \in WriteCalls : CallOK(call'[d]) /\ NameOK(call'[d]) /\ CopyOK(call'[d])
    BY <1>4, OverOK DEF SheetInv
  <2> QED BY <1>3, <2>1 DEF CallOK, NameOK, CopyOK, Taken
<1>9. \A d \in WriteCalls : TextOK(call[d])'
  <2> SUFFICES ASSUME NEW d \in WriteCalls, d # c PROVE TextOK(call[d])'
    BY <1>4, NoCallType DEF TextOK, Writing
  <2>1. call'[d] = call[d] /\ unkept' = unkept /\ sheet' = sheet BY <1>3, <1>4
  <2>2. TextOK(call[d]) /\ CallOK(call[d]) BY DEF SheetInv
  <2>3. call[d].pc \in Writing /\ ~call[d].version /\ call[d].sheet \notin unkept =>
          TextSafe(call[d].sheet, call[d].row.text)'
    BY <1>7, <2>1, <2>2 DEF TextOK, CallOK
  <2> QED BY <2>1, <2>2, <2>3 DEF TextOK
<1>10. \A o \in Sheets : sheet'[o].there /\ o \notin unkept' => TextSafe(o, sheet[o].text)'
  BY <1>3, <1>7 DEF SheetInv
<1> QED BY <1>3, <1>6, <1>8, <1>9, <1>10 DEF SheetInv, NamesForCause

LEMMA DeleteSheetKeeps == ASSUME SheetInv, NEW s \in Sheets, DeleteSheet(s) PROVE SheetInv'
<1>1. /\ sheet' = [sheet EXCEPT ![s] = Blank] /\ versions' = [versions EXCEPT ![s] = {}]
      /\ call' = Overtaken({s}) /\ carried' = carried \ {s} /\ unkept' = unkept \cup {s}
      /\ UNCHANGED <<folders, moving, crossedSheets>>
  BY DEF DeleteSheet
<1>2. SheetsTypeOK BY DEF SheetInv
<1>3. /\ \A o \in Sheets : sheet'[o] = IF o = s THEN Blank ELSE sheet[o]
      /\ \A o \in Sheets : versions'[o] = IF o = s THEN {} ELSE versions[o]
  BY <1>1, <1>2 DEF SheetsTypeOK
<1>4. \A c \in WriteCalls :
         /\ call'[c] \in Call /\ call'[c].pc = call[c].pc /\ call'[c].sheet = call[c].sheet
         /\ call'[c].row = call[c].row /\ call'[c].version = call[c].version /\ call'[c].asked = call[c].asked
         /\ call[c].pc \in Writing => call'[c].late = call[c].late \cup {s}
  BY <1>1, <1>2, OvertakenOK
<1>5. SheetsTypeOK'
  <2>1. sheet' \in [Sheets -> Row] BY <1>1, <1>2, BlankType DEF SheetsTypeOK
  <2>2. call' \in [WriteCalls -> Call] BY <1>1, <1>4 DEF Overtaken
  <2>3. versions' \in [Sheets -> SUBSET Texts] BY <1>1, <1>2 DEF SheetsTypeOK
  <2>4. \A o \in Sheets : versions'[o] # {} => sheet'[o].there BY <1>2, <1>3 DEF SheetsTypeOK
  <2> QED BY <1>1, <1>2, <2>1, <2>2, <2>3, <2>4 DEF SheetsTypeOK
<1>6. NamesForCause'
  <2> SUFFICES ASSUME NEW p \in Sheets, NEW o \in Sheets, p # o, sheet'[p].there, sheet'[o].there,
                      sheet'[p].name = sheet'[o].name, sheet'[p].place = sheet'[o].place
               PROVE  sheet'[p].place = Root /\ {p, o} \cap (carried' \cup crossedSheets') # {}
    BY DEF NamesForCause
  <2>1. p # s /\ o # s BY <1>3, BlankType
  <2>2. sheet[p].place = Root /\ {p, o} \cap (carried \cup crossedSheets) # {}
    BY <1>3, <2>1 DEF SheetInv, NamesForCause
  <2> QED BY <1>1, <1>3, <2>1, <2>2
<1>7. ASSUME NEW o \in Sheets, o # s, NEW u, TextSafe(o, u) PROVE TextSafe(o, u)'
  BY <1>3, <1>4, <1>7 DEF TextSafe
<1>8. ASSUME NEW d \in WriteCalls PROVE CallOK(call[d])' /\ NameOK(call[d])' /\ CopyOK(call[d])' /\ TextOK(call[d])'
  <2>1. CallOK(call[d])' BY <1>4 DEF SheetInv, CallOK
  <2>2. NameOK(call[d])' BY <1>4 DEF NameOK, Writing
  <2>3. CopyOK(call[d])'
    <3> SUFFICES ASSUME call[d].pc = "update", call[d].sheet \notin call[d].late, call[d].sheet # s
                 PROVE  sheet'[call[d].sheet].there
                        /\ \A f \in {"name", "place", "text"} \ call[d].asked : sheet'[call[d].sheet][f] = call[d].row[f]
      BY <1>4 DEF CopyOK, Writing
    <3>1. call[d].sheet \in Sheets BY DEF SheetInv, CallOK, Writing
    <3> QED BY <1>3, <3>1 DEF SheetInv, CopyOK
  <2>4. TextOK(call[d])'
    <3>1. TextOK(call[d]) /\ CallOK(call[d]) BY DEF SheetInv
    <3>2. call'[d].pc = call[d].pc /\ call'[d].sheet = call[d].sheet /\ call'[d].row = call[d].row
          /\ call'[d].version = call[d].version
      BY <1>4
    <3>3. call[d].pc \in Writing /\ ~call[d].version /\ call[d].sheet \notin unkept' =>
            TextSafe(call[d].sheet, call[d].row.text)'
      BY <1>1, <1>7, <3>1, <3>2 DEF TextOK, CallOK
    <3>4. call[d].pc = "version" /\ call[d].sheet \notin unkept' => sheet'[call[d].sheet].there
      BY <1>1, <1>3, <3>1 DEF TextOK, CallOK
    <3> QED BY <3>2, <3>3, <3>4 DEF TextOK
  <2> QED BY <2>1, <2>2, <2>3, <2>4
<1>9. \A o \in Sheets : sheet'[o].there /\ o \notin unkept' => TextSafe(o, sheet[o].text)'
  BY <1>1, <1>3, <1>7 DEF SheetInv
<1> QED BY <1>5, <1>6, <1>8, <1>9 DEF SheetInv

LEMMA CallDiesKeeps == ASSUME SheetInv, NEW c \in WriteCalls, CallDies(c) PROVE SheetInv'
<1>1. CASE call[c].pc = "version"
  <2>1. PICK s \in Sheets : s = call[c].sheet BY <1>1 DEF SheetInv, CallOK
  <2>2. /\ call' = [call EXCEPT ![c] = Over] /\ unkept' = unkept \cup {s}
        /\ UNCHANGED <<folders, sheet, versions, moving, carried, crossedSheets>>
    BY <1>1, <2>1 DEF CallDies
  <2>3. \A d \in WriteCalls : call'[d] = IF d = c THEN Over ELSE call[d] BY <2>2 DEF SheetInv, SheetsTypeOK
  <2>4. SheetsTypeOK' BY <2>2, NoCallType DEF SheetInv, SheetsTypeOK
  <2>5. ASSUME NEW o \in Sheets, o # s, NEW u, TextSafe(o, u) PROVE TextSafe(o, u)'
    BY <2>1, <2>2, <2>3, <2>5 DEF TextSafe
  <2>6. \A d \in WriteCalls : CallOK(call[d])' /\ NameOK(call[d])' /\ CopyOK(call[d])'
    <3>1. \A d \in WriteCalls : CallOK(call'[d]) /\ NameOK(call'[d]) /\ CopyOK(call'[d])
      BY <2>3, OverOK DEF SheetInv
    <3> QED BY <2>2, <3>1 DEF CallOK, NameOK, CopyOK, Taken
  <2>7. \A d \in WriteCalls : TextOK(call[d])'
    <3> SUFFICES ASSUME NEW d \in WriteCalls, d # c PROVE TextOK(call[d])'
      BY <2>3, NoCallType DEF TextOK, Writing
    <3>1. call'[d] = call[d] /\ sheet' = sheet BY <2>2, <2>3
    <3>2. TextOK(call[d]) /\ CallOK(call[d]) BY DEF SheetInv
    <3>3. call[d].pc \in Writing /\ ~call[d].version /\ call[d].sheet \notin unkept' =>
            TextSafe(call[d].sheet, call[d].row.text)'
      BY <2>2, <2>5, <3>1, <3>2 DEF TextOK, CallOK
    <3> QED BY <2>2, <3>1, <3>2, <3>3 DEF TextOK
  <2>8. \A o \in Sheets : sheet'[o].there /\ o \notin unkept' => TextSafe(o, sheet[o].text)'
    BY <2>2, <2>5 DEF SheetInv
  <2> QED BY <2>2, <2>4, <2>6, <2>7, <2>8 DEF SheetInv, NamesForCause
<1>2. CASE call[c].pc # "version"
  <2>1. /\ call' = [call EXCEPT ![c] = Over]
        /\ UNCHANGED <<folders, sheet, versions, moving, carried, crossedSheets, unkept>>
    BY <1>2 DEF CallDies
  <2> QED BY <1>2, <2>1, OverOK, NoCallType, CallStep
<1> QED BY <1>1, <1>2

LEMMA SheetsInductive == SheetInv /\ [SheetsNext]_sheetVars => SheetInv'
<1> SUFFICES ASSUME SheetInv, [SheetsNext]_sheetVars PROVE SheetInv' OBVIOUS
<1>1. CASE UNCHANGED sheetVars
  BY <1>1
  DEF sheetVars, SheetInv, SheetsTypeOK, NamesForCause, CallOK, NameOK, CopyOK, TextOK, TextSafe, Taken
<1>2. CASE DeleteFolder \/ FolderStays BY <1>2, DeleteFolderKeeps, FolderStaysKeeps
<1>3. ASSUME NEW f \in Folders, MoveOut(f) PROVE SheetInv' BY <1>3, MoveOutKeeps
<1>4. ASSUME NEW s \in Sheets, DeleteSheet(s) PROVE SheetInv' BY <1>4, DeleteSheetKeeps
<1>5. ASSUME NEW c \in WriteCalls, SaveSheet(c) \/ SaveRefused(c) \/ KeepVersion(c) \/ CallDies(c) PROVE SheetInv'
  BY <1>5, SaveSheetKeeps, SaveRefusedKeeps, KeepVersionKeeps, CallDiesKeeps
<1>6. ASSUME NEW c \in WriteCalls, NEW s \in Sheets, NEW name \in Names, NEW place \in Places,
             AskCreate(c, s, name, place)
      PROVE  SheetInv'
  BY <1>6, AskCreateKeeps
<1>7. ASSUME NEW c \in WriteCalls, NEW s \in Sheets, NEW change \in Change, AskUpdate(c, s, change)
      PROVE  SheetInv'
  BY <1>7, AskUpdateKeeps
<1> QED BY <1>1, <1>2, <1>3, <1>4, <1>5, <1>6, <1>7 DEF SheetsNext

LEMMA SheetInvGives == SheetInv => SheetsTypeOK /\ NamesForCause /\ TextIsKept
<1> SUFFICES ASSUME SheetInv, NEW s \in Sheets, sheet[s].there, sheet[s].text \notin versions[s]
             PROVE  s \in unkept \/ \E c \in WriteCalls : call[c].pc = "version" /\ call[c].sheet = s
  BY DEF SheetInv, TextIsKept
<1> QED BY DEF SheetInv, TextSafe

LEMMA UndoneStep ==
  ASSUME SheetInv, [SheetsNext]_sheetVars, NEW c \in WriteCalls,
         call[c].pc = "update", call'[c].pc # "update", call[c].sheet \notin call[c].late,
         NEW s, s = call[c].sheet
  PROVE  sheet[s].there /\ \A f \in {"name", "place", "text"} \ call[c].asked : sheet'[s][f] = sheet[s][f]
<1>1. /\ call[c] \in Call /\ CallOK(call[c]) /\ CopyOK(call[c])
      /\ sheet \in [Sheets -> Row] /\ DOMAIN call = WriteCalls
  BY DEF SheetInv, SheetsTypeOK
<1>2. s \in Sheets BY <1>1 DEF CallOK, Writing
<1>3. sheet[s].there /\ \A f \in {"name", "place", "text"} \ call[c].asked : sheet[s][f] = call[c].row[f]
  BY <1>1 DEF CopyOK
<1>4. ASSUME NEW set \in SUBSET Sheets PROVE Overtaken(set)[c].pc = "update"
  BY <1>4, OvertakenOK DEF SheetInv
<1>5. CASE SaveSheet(c)
  <2>1. sheet'[s] = call[c].row BY <1>1, <1>2, <1>5 DEF SaveSheet
  <2> QED BY <1>3, <2>1
<1>6. CASE sheet' = sheet BY <1>3, <1>6
<1>7. call'[c].pc = "update" \/ sheet' = sheet \/ SaveSheet(c)
  <2>1. CASE UNCHANGED sheetVars BY <2>1 DEF sheetVars
  <2>2. CASE DeleteFolder
    <3>1. {o \in Sheets : sheet[o].there /\ sheet[o].place = moving} \in SUBSET Sheets OBVIOUS
    <3> QED BY <1>4, <2>2, <3>1 DEF DeleteFolder
  <2>3. CASE FolderStays BY <2>3 DEF FolderStays
  <2>4. ASSUME NEW f \in Folders, MoveOut(f) PROVE call'[c].pc = "update"
    <3>1. {o \in Sheets : sheet[o].there /\ sheet[o].place = f} \in SUBSET Sheets OBVIOUS
    <3> QED BY <1>4, <2>4, <3>1 DEF MoveOut
  <2>5. ASSUME NEW o \in Sheets, DeleteSheet(o) PROVE call'[c].pc = "update" BY <1>4, <2>5 DEF DeleteSheet
  <2>6. ASSUME NEW d \in WriteCalls, SaveSheet(d), d # c PROVE call'[c].pc = "update"
    <3>1. call[d].sheet \in Sheets BY <2>6 DEF SaveSheet, SheetInv, CallOK, Writing
    <3>2. Overtaken({call[d].sheet})[c].pc = "update" BY <1>4, <3>1
    <3>3. call' = [Overtaken({call[d].sheet}) EXCEPT ![d] = Saved(d)] BY <2>6 DEF SaveSheet
    <3>4. call'[c] = Overtaken({call[d].sheet})[c] BY <2>6, <3>3 DEF Overtaken
    <3> QED BY <3>2, <3>4
  <2>7. ASSUME NEW d \in WriteCalls, SaveRefused(d) \/ KeepVersion(d) \/ CallDies(d) PROVE sheet' = sheet
    BY <2>7 DEF SaveRefused, KeepVersion, CallDies
  <2>8. ASSUME NEW d \in WriteCalls, NEW o \in Sheets,
               (\E name \in Names, place \in Places : AskCreate(d, o, name, place))
               \/ (\E change \in Change : AskUpdate(d, o, change))
        PROVE  sheet' = sheet
    BY <2>8 DEF AskCreate, AskUpdate
  <2> QED BY <2>1, <2>2, <2>3, <2>4, <2>5, <2>6, <2>7, <2>8 DEF SheetsNext
<1> QED BY <1>3, <1>5, <1>6, <1>7

\* Two worksheets of one name lie in one place only at the root and only for a folder's deletion
\* or calls that overlapped, the text of every worksheet is a version of it but for a call that
\* is about to keep it or died, and no save undoes what was written after its own read.
THEOREM WorksheetsHold == SheetsSpec => [](SheetsTypeOK /\ NamesForCause /\ TextIsKept) /\ UndoneForCause
<1>1. SheetsSpec => []SheetInv BY SheetsInitInv, SheetsInductive, PTL DEF SheetsSpec
<1>2. SheetInv /\ [SheetsNext]_sheetVars =>
        [\A c \in WriteCalls : call[c].pc = "update" /\ call'[c].pc # "update" /\ call[c].sheet \notin call[c].late =>
           LET s == call[c].sheet
           IN  sheet[s].there /\ \A f \in {"name", "place", "text"} \ call[c].asked : sheet'[s][f] = sheet[s][f]]_sheetVars
  BY UndoneStep
<1> QED BY <1>1, <1>2, SheetInvGives, PTL DEF SheetsSpec, UndoneForCause
-----------------------------------------------------------------------------
(* Images *)

Content(i) == row[i] # "none" \/ i \in object
ToShow(u) == saver[u].pc \in {"save", "stored", "signin"}
ToRemove(u) == saver[u].pc \in {"shown", "removing"}
HasRead(u) == saver[u].pc \in {"put", "save", "fallback", "stored", "naming", "download", "signin"}
StoredBeside(i) == \E u \in Savers : saver[u].stored = i /\ saver[u].beside # {}

\* How far a call is says what it has stored and read, and calls under way know of each other
SaverOK(u) ==
  /\ saver[u].pc \in {"save", "stored", "shown", "removing"} => saver[u].stored \in Images
  /\ saver[u].pc \in {"free", "put", "fallback", "naming", "download"} => saver[u].stored = NoImage
  /\ saver[u].pc = "naming" => OfPerson
  /\ saver[u].pc \in {"download", "signin"} => saver[u].previous = NoPicture
  /\ saver[u].pc = "removing" => saver[u].previous \in Images \ object

\* What a call is about to show is its own, and there
ToShowOK(u) ==
  LET i == saver[u].stored
  IN  ToShow(u) /\ i \in Images =>
        /\ i # url /\ i \notin restored
        /\ \A v \in Savers : saver[v].previous # i /\ (v # u => saver[v].stored # i)
        /\ saver[u].pc = "save" => i \in object
        /\ saver[u].pc = "stored" => Served(i)
        /\ saver[u].pc \in {"save", "signin"} => row[i] = "none"

\* What a call is about to remove is not shown, unless it was put back
ToRemoveOK(u) == ToRemove(u) /\ saver[u].previous \in Images => saver[u].previous # url \/ url \in restored

\* What is shown now and a call has not read was stored beside it
ReadOK(u) ==
  HasRead(u) /\ saver[u].previous # url /\ url \in Images \ restored =>
    \E v \in Savers : saver[v].stored = url /\ u \in saver[v].beside

\* What there is of an image is there for a cause
LeftOK(i) ==
  Content(i) =>
    \/ i \in spilled \/ StoredBeside(i)
    \/ i = url /\ i \notin restored
    \/ \E u \in Savers : ToShow(u) /\ saver[u].stored = i
    \/ \E u \in Savers : ToRemove(u) /\ saver[u].previous = i

\* The two halves of an image
HalvesOK(i) ==
  /\ row[i] = "db" => i \notin object
  /\ i \in object /\ row[i] = "none" =>
       i \in spilled \/ \E u \in Savers : saver[u].pc \in {"save", "signin"} /\ saver[u].stored = i

ImageInv ==
  /\ ImagesTypeOK /\ ShownIsServed /\ (restored # {} => OfPerson)
  /\ \A u, v \in Savers : u # v /\ Saving(u) /\ Saving(v) => v \in saver[u].beside
  /\ \A u \in Savers : SaverOK(u) /\ ToShowOK(u) /\ ToRemoveOK(u) /\ ReadOK(u)
  /\ \A i \in Images : LeftOK(i) /\ HalvesOK(i)

LEMMA ImageInitInv == ImagesInit => ImageInv
<1> SUFFICES ASSUME ImagesInit PROVE ImageInv OBVIOUS
<1>1. \A u \in Savers : saver[u] = NotSaving BY DEF ImagesInit
<1>2. ImagesTypeOK BY DEF ImagesInit, ImagesTypeOK, NotSaving
<1>3. ASSUME NEW i \in Images PROVE LeftOK(i) /\ HalvesOK(i)
  BY DEF ImagesInit, LeftOK, HalvesOK, Content
<1>4. ShownIsServed BY DEF ImagesInit, ShownIsServed, Served
<1> QED
  BY <1>1, <1>2, <1>3, <1>4
  DEF ImagesInit, NotSaving, ImageInv, SaverOK, ToShowOK, ToRemoveOK, ReadOK, ToShow, ToRemove, HasRead, Saving

SaverStages == {"free", "put", "save", "fallback", "stored", "shown", "removing", "naming", "download", "signin", "over"}
SaverCall ==
  [pc : SaverStages, previous : Images \cup {NoPicture, External}, stored : Images \cup {NoImage},
   beside : SUBSET Savers]

LEMMA Held ==
  ASSUME saver \in [Savers -> SaverCall], NEW u \in Savers, NEW q \in SaverStages, NEW s \in Images \cup {NoImage},
         Holds(u, q, s)
  PROVE  /\ saver' \in [Savers -> SaverCall]
         /\ saver'[u].pc = q /\ saver'[u].stored = s
         /\ \A v \in Savers : saver'[v].previous = saver[v].previous /\ saver'[v].beside = saver[v].beside
         /\ \A v \in Savers \ {u} : saver'[v].pc = saver[v].pc /\ saver'[v].stored = saver[v].stored
<1>1. saver' = [saver EXCEPT ![u] = [saver[u] EXCEPT !.pc = q, !.stored = s]] BY DEF Holds
<1>2. PICK r \in SaverCall : r = saver[u] OBVIOUS
<1>3. [r EXCEPT !.pc = q, !.stored = s] \in SaverCall BY DEF SaverCall
<1>4. /\ [r EXCEPT !.pc = q, !.stored = s].pc = q /\ [r EXCEPT !.pc = q, !.stored = s].stored = s
      /\ [r EXCEPT !.pc = q, !.stored = s].previous = r.previous
      /\ [r EXCEPT !.pc = q, !.stored = s].beside = r.beside
  BY DEF SaverCall
<1>5. saver'[u] = [r EXCEPT !.pc = q, !.stored = s] /\ \A v \in Savers \ {u} : saver'[v] = saver[v] BY <1>1, <1>2
<1> QED BY <1>1, <1>2, <1>3, <1>4, <1>5

\* What is known before a step
LEMMA Before ==
  ASSUME ImageInv
  PROVE  /\ saver \in [Savers -> SaverCall] /\ row \in [Images -> {"none", "db", "s3"}]
         /\ object \subseteq Images /\ spilled \subseteq Images /\ restored \subseteq Images
         /\ url \in Images \cup {NoPicture, External}
         /\ NoPicture \notin Images /\ External \notin Images /\ NoImage \notin Images
BY ImagesAssumption DEF ImageInv, ImagesTypeOK, SaverCall, SaverStages

\* A step that changes no address: of the call, left at stage q with s as its image, and of the
\* only image t it may touch
QuietStep(u, q, s, t) ==
  /\ Saving(u) /\ Holds(u, q, s) /\ q \in SaverStages \ {"free"} /\ s \in Images \cup {NoImage}
  /\ url' = url /\ restored' = restored /\ spilled \subseteq spilled' /\ spilled' \subseteq Images
  /\ row' \in [Images -> {"none", "db", "s3"}] /\ object' \subseteq Images
  /\ s = saver[u].stored \/ (s \in Images /\ Fresh(s) /\ saver[u].stored = NoImage) \/ (s = NoImage /\ ToShow(u))
  /\ HasRead(u)' => HasRead(u)
  /\ ToRemove(u)' => ToRemove(u)
  /\ \A i \in Images \ {t} : row'[i] = row[i] /\ (i \in object' <=> i \in object)
  /\ t \in Images /\ t = url => url \in restored
  /\ t \in Images => \A v \in Savers \ {u} : ToShow(v) => saver[v].stored # t
  /\ t \in object' => t \in object \/ \A v \in Savers : saver[v].previous # t
  /\ SaverOK(u)' /\ ToShowOK(u)'
  /\ \A i \in Images :
       i = t \/ (ToShow(u) /\ i = saver[u].stored) \/ (ToRemove(u) /\ i = saver[u].previous) =>
         LeftOK(i)' /\ HalvesOK(i)'

LEMMA QuietKeeps ==
  ASSUME ImageInv, NEW u \in Savers, NEW q, NEW s, NEW t, QuietStep(u, q, s, t)
  PROVE  ImageInv'
<1>1. /\ saver' \in [Savers -> SaverCall] /\ saver'[u].pc = q /\ saver'[u].stored = s
      /\ \A v \in Savers : saver'[v].previous = saver[v].previous /\ saver'[v].beside = saver[v].beside
      /\ \A v \in Savers \ {u} : saver'[v].pc = saver[v].pc /\ saver'[v].stored = saver[v].stored
  BY Before, Held DEF QuietStep
<1>2. /\ Saving(u) /\ q # "free" /\ url' = url /\ restored' = restored /\ spilled \subseteq spilled'
      /\ \A i \in Images \ {t} : row'[i] = row[i] /\ (i \in object' <=> i \in object)
      /\ t \in Images /\ t = url => url \in restored
      /\ HasRead(u)' => HasRead(u)
      /\ ToRemove(u)' => ToRemove(u)
  BY DEF QuietStep
<1>3. ImagesTypeOK'
  BY <1>1, Before DEF QuietStep, ImagesTypeOK, SaverCall, SaverStages
<1>4. ShownIsServed' /\ (restored' # {} => OfPerson)
  BY <1>2 DEF ImageInv, ShownIsServed, Served
<1>5. \A v, w \in Savers : v # w /\ Saving(v)' /\ Saving(w)' => w \in saver'[v].beside
  <2>1. \A v \in Savers : Saving(v)' => Saving(v) BY <1>1, <1>2 DEF Saving
  <2> QED BY <1>1, <2>1 DEF ImageInv
<1>6. ASSUME NEW v \in Savers PROVE SaverOK(v)'
  <2>1. CASE v = u BY <2>1 DEF QuietStep
  <2>2. CASE v # u
    <3>1. SaverOK(v) BY DEF ImageInv
    <3>2. saver[v].previous \in Images /\ saver[v].previous \notin object => saver[v].previous \notin object'
      BY <1>2 DEF QuietStep
    <3> QED BY <1>1, <2>2, <3>1, <3>2 DEF SaverOK
  <2> QED BY <2>1, <2>2
<1>7. ASSUME NEW v \in Savers PROVE ToShowOK(v)'
  <2>1. CASE v = u BY <2>1 DEF QuietStep
  <2>2. CASE v # u
    <3> SUFFICES ASSUME ToShow(v), NEW i \in Images, i = saver[v].stored
                 PROVE  /\ i # url' /\ i \notin restored'
                        /\ \A w \in Savers : saver'[w].previous # i /\ (w # v => saver'[w].stored # i)
                        /\ saver[v].pc = "save" => i \in object'
                        /\ saver[v].pc = "stored" => Served(i)'
                        /\ saver[v].pc \in {"save", "signin"} => row'[i] = "none"
      BY <1>1, <2>2 DEF ToShowOK, ToShow
    <3>1. ToShowOK(v) /\ i # t /\ s # i BY <2>2, Before DEF ImageInv, QuietStep, Fresh, ToShowOK
    <3>2. row'[i] = row[i] /\ (i \in object' <=> i \in object) BY <1>2, <3>1
    <3> QED BY <1>1, <1>2, <3>1, <3>2 DEF ToShowOK, Served
  <2> QED BY <2>1, <2>2
<1>8. ASSUME NEW v \in Savers PROVE ToRemoveOK(v)'
  <2>1. ToRemove(v)' => ToRemove(v) BY <1>1, <1>2 DEF ToRemove
  <2> QED BY <1>1, <1>2, <2>1 DEF ImageInv, ToRemoveOK
<1>9. ASSUME NEW v \in Savers, HasRead(v)', saver'[v].previous # url', url' \in Images \ restored'
      PROVE  \E w \in Savers : saver'[w].stored = url' /\ v \in saver'[w].beside
  <2>1. HasRead(v) BY <1>1, <1>2, <1>9 DEF HasRead
  <2>2. PICK w \in Savers : saver[w].stored = url /\ v \in saver[w].beside
    BY <1>1, <1>2, <1>9, <2>1 DEF ImageInv, ReadOK
  <2>3. w = u => s = saver[u].stored
    <3>1. url \in Images BY <1>2, <1>9
    <3>2. ToShowOK(u) BY DEF ImageInv
    <3> QED BY <2>2, <3>1, <3>2, Before DEF QuietStep, ToShowOK
  <2> QED BY <1>1, <1>2, <2>2, <2>3
<1>10. ASSUME NEW i \in Images PROVE LeftOK(i)' /\ HalvesOK(i)'
  <2>1. CASE i = t \/ (ToShow(u) /\ i = saver[u].stored) \/ (ToRemove(u) /\ i = saver[u].previous)
    BY <2>1 DEF QuietStep
  <2>2. CASE ~(i = t \/ (ToShow(u) /\ i = saver[u].stored) \/ (ToRemove(u) /\ i = saver[u].previous))
    <3>1. row'[i] = row[i] /\ (i \in object' <=> i \in object) BY <1>2, <2>2
    <3>2. LeftOK(i) /\ HalvesOK(i) BY DEF ImageInv
    <3>3. \A v \in Savers : saver[v].stored = i => saver'[v].stored = i
      BY <1>1, <2>2, Before DEF QuietStep
    <3>4. \A v \in Savers : ToShow(v) /\ saver[v].stored = i => v # u BY <2>2
    <3>5. \A v \in Savers : ToRemove(v) /\ saver[v].previous = i => v # u BY <2>2
    <3>6. StoredBeside(i) => StoredBeside(i)' BY <1>1, <3>3 DEF StoredBeside
    <3>7. (\E v \in Savers : ToShow(v) /\ saver[v].stored = i) => \E v \in Savers : ToShow(v)' /\ saver'[v].stored = i
      BY <1>1, <3>4 DEF ToShow
    <3>8. (\E v \in Savers : ToRemove(v) /\ saver[v].previous = i) =>
            \E v \in Savers : ToRemove(v)' /\ saver'[v].previous = i
      BY <1>1, <3>5 DEF ToRemove
    <3>9. LeftOK(i)' BY <1>2, <3>1, <3>2, <3>6, <3>7, <3>8 DEF LeftOK, Content
    <3>10. \A v \in Savers : saver[v].pc \in {"save", "signin"} /\ saver[v].stored = i =>
             saver'[v].pc \in {"save", "signin"} /\ saver'[v].stored = i
      BY <1>1, <3>4 DEF ToShow
    <3> QED BY <1>2, <3>1, <3>2, <3>9, <3>10 DEF HalvesOK
  <2> QED BY <2>1, <2>2
<1> QED BY <1>3, <1>4, <1>5, <1>6, <1>7, <1>8, <1>9, <1>10 DEF ImageInv, ReadOK

\* What is known of a call
LEMMA CallFacts ==
  ASSUME ImageInv, NEW u \in Savers
  PROVE  /\ SaverOK(u) /\ ToShowOK(u) /\ ToRemoveOK(u) /\ ReadOK(u)
         /\ saver[u].stored \in Images \cup {NoImage}
         /\ saver[u].previous \in Images \cup {NoPicture, External}
BY Before DEF ImageInv, SaverCall

\* A fresh image is nobody's, and nothing is there of it
LEMMA FreshIsNew ==
  ASSUME ImageInv, NEW i \in Images, Fresh(i)
  PROVE  /\ i # url /\ i \notin restored /\ i \notin spilled /\ row[i] = "none" /\ i \notin object
         /\ i # NoImage
         /\ \A u \in Savers : saver[u].stored # i /\ saver[u].previous # i
BY Before DEF Fresh

LEMMA PutObjectKeeps == ASSUME ImageInv, NEW u \in Savers, NEW i \in Images, PutObject(u, i) PROVE ImageInv'
<1>1. /\ saver[u].pc = "put" /\ Fresh(i) /\ saver[u].stored = NoImage
      /\ row' = row /\ url' = url /\ spilled' = spilled /\ restored' = restored
  BY CallFacts DEF PutObject, SaverOK
<1>2. CASE object' = object \cup {i} /\ Holds(u, "save", i)
  <2>1. /\ saver'[u].pc = "save" /\ saver'[u].stored = i
        /\ \A v \in Savers : saver'[v].previous = saver[v].previous
        /\ \A v \in Savers \ {u} : saver'[v].stored = saver[v].stored
    BY <1>2, Before, Held DEF SaverStages
  <2>2. SaverOK(u)' BY <2>1 DEF SaverOK
  <2>3. ToShowOK(u)' BY <1>1, <1>2, <2>1, FreshIsNew DEF ToShowOK, ToShow
  <2>4. LeftOK(i)' BY <2>1 DEF LeftOK, ToShow
  <2>5. HalvesOK(i)' BY <1>1, <2>1, FreshIsNew DEF HalvesOK
  <2>6. QuietStep(u, "save", i, i)
    BY <1>1, <1>2, <2>1, <2>2, <2>3, <2>4, <2>5, Before, FreshIsNew
    DEF QuietStep, SaverStages, Saving, HasRead, ToShow, ToRemove
  <2> QED BY <2>6, QuietKeeps
<1>3. CASE object' = object /\ Goes(u, "fallback")
  <2>1. Holds(u, "fallback", NoImage) BY <1>1, <1>3 DEF Goes
  <2>2. saver'[u].pc = "fallback" /\ saver'[u].stored = NoImage BY <2>1, Before, Held DEF SaverStages
  <2>3. SaverOK(u)' /\ ToShowOK(u)' BY <2>2 DEF SaverOK, ToShowOK, ToShow
  <2>4. QuietStep(u, "fallback", NoImage, NoImage)
    BY <1>1, <1>3, <2>1, <2>2, <2>3, Before DEF QuietStep, SaverStages, Saving, HasRead, ToShow, ToRemove
  <2> QED BY <2>4, QuietKeeps
<1> QED BY <1>2, <1>3 DEF PutObject

LEMMA SaveRowKeeps == ASSUME ImageInv, NEW u \in Savers, SaveRow(u) PROVE ImageInv'
<1>1. PICK i \in Images : i = saver[u].stored BY CallFacts DEF SaveRow, SaverOK
<1>2. /\ saver[u].pc = "save" /\ i \in object /\ row[i] = "none" /\ i # url /\ i \notin restored
      /\ \A v \in Savers : saver[v].previous # i /\ (v # u => saver[v].stored # i)
      /\ object' = object /\ url' = url /\ restored' = restored
  BY <1>1, CallFacts DEF SaveRow, ToShowOK, ToShow
<1>3. CASE row' = [row EXCEPT ![i] = "s3"] /\ Goes(u, "stored") /\ UNCHANGED spilled
  <2>1. Holds(u, "stored", i) BY <1>1, <1>3 DEF Goes
  <2>2. /\ saver'[u].pc = "stored" /\ saver'[u].stored = i
        /\ \A v \in Savers : saver'[v].previous = saver[v].previous
        /\ \A v \in Savers \ {u} : saver'[v].stored = saver[v].stored
    BY <2>1, Before, Held DEF SaverStages
  <2>3. row' \in [Images -> {"none", "db", "s3"}] /\ row'[i] = "s3" /\ \A j \in Images \ {i} : row'[j] = row[j]
    BY <1>3, Before
  <2>4. SaverOK(u)' BY <2>2 DEF SaverOK
  <2>5. ToShowOK(u)' BY <1>2, <2>2, <2>3 DEF ToShowOK, ToShow, Served
  <2>6. LeftOK(i)' /\ HalvesOK(i)' BY <2>2, <2>3 DEF LeftOK, HalvesOK, ToShow
  <2>7. QuietStep(u, "stored", i, i)
    BY <1>1, <1>2, <1>3, <2>1, <2>2, <2>3, <2>4, <2>5, <2>6, Before
    DEF QuietStep, SaverStages, Saving, HasRead, ToShow, ToRemove
  <2> QED BY <2>7, QuietKeeps
<1>4. CASE spilled' = spilled \cup {i} /\ Holds(u, "fallback", NoImage) /\ UNCHANGED row
  <2>1. saver'[u].pc = "fallback" /\ saver'[u].stored = NoImage BY <1>4, Before, Held DEF SaverStages
  <2>2. SaverOK(u)' /\ ToShowOK(u)' BY <2>1 DEF SaverOK, ToShowOK, ToShow
  <2>3. LeftOK(i)' /\ HalvesOK(i)' BY <1>2, <1>4 DEF LeftOK, HalvesOK
  <2>4. QuietStep(u, "fallback", NoImage, NoImage)
    BY <1>1, <1>2, <1>4, <2>1, <2>2, <2>3, Before DEF QuietStep, SaverStages, Saving, HasRead, ToShow, ToRemove
  <2> QED BY <2>4, QuietKeeps
<1> QED BY <1>1, <1>3, <1>4 DEF SaveRow

LEMMA FallBackKeeps == ASSUME ImageInv, NEW u \in Savers, NEW i \in Images, FallBack(u, i) PROVE ImageInv'
<1>1. /\ saver[u].pc = "fallback" /\ Fresh(i) /\ saver[u].stored = NoImage
      /\ object' = object /\ url' = url /\ spilled' = spilled /\ restored' = restored
  BY CallFacts DEF FallBack, SaverOK
<1>2. CASE row' = [row EXCEPT ![i] = "db"] /\ Holds(u, "stored", i)
  <2>1. /\ saver'[u].pc = "stored" /\ saver'[u].stored = i
        /\ \A v \in Savers : saver'[v].previous = saver[v].previous
        /\ \A v \in Savers \ {u} : saver'[v].stored = saver[v].stored
    BY <1>2, Before, Held DEF SaverStages
  <2>2. row' \in [Images -> {"none", "db", "s3"}] /\ row'[i] = "db" /\ \A j \in Images \ {i} : row'[j] = row[j]
    BY <1>2, Before
  <2>3. SaverOK(u)' BY <2>1 DEF SaverOK
  <2>4. ToShowOK(u)' BY <1>1, <2>1, <2>2, FreshIsNew DEF ToShowOK, ToShow, Served
  <2>5. LeftOK(i)' /\ HalvesOK(i)' BY <1>1, <2>1, <2>2, FreshIsNew DEF LeftOK, HalvesOK, ToShow
  <2>6. QuietStep(u, "stored", i, i)
    BY <1>1, <1>2, <2>1, <2>2, <2>3, <2>4, <2>5, Before, FreshIsNew
    DEF QuietStep, SaverStages, Saving, HasRead, ToShow, ToRemove
  <2> QED BY <2>6, QuietKeeps
<1>3. CASE row' = row /\ Goes(u, "over")
  <2>1. Holds(u, "over", NoImage) BY <1>1, <1>3 DEF Goes
  <2>2. saver'[u].pc = "over" /\ saver'[u].stored = NoImage BY <2>1, Before, Held DEF SaverStages
  <2>3. SaverOK(u)' /\ ToShowOK(u)' BY <2>2 DEF SaverOK, ToShowOK, ToShow
  <2>4. QuietStep(u, "over", NoImage, NoImage)
    BY <1>1, <1>3, <2>1, <2>2, <2>3, Before DEF QuietStep, SaverStages, Saving, HasRead, ToShow, ToRemove
  <2> QED BY <2>4, QuietKeeps
<1> QED BY <1>2, <1>3 DEF FallBack

LEMMA DownloadKeeps == ASSUME ImageInv, NEW u \in Savers, NEW i \in Images, Download(u, i) PROVE ImageInv'
<1>1. /\ saver[u].pc = "download" /\ Fresh(i) /\ saver[u].stored = NoImage /\ saver[u].previous = NoPicture
      /\ row' = row /\ url' = url /\ spilled' = spilled /\ restored' = restored
  BY CallFacts DEF Download, SaverOK
<1>2. PICK image \in {i, NoImage} :
        Holds(u, "signin", image) /\ (object' = object \/ (image = i /\ object' = object \cup {i}))
  BY DEF Download
<1>3. /\ saver'[u].pc = "signin" /\ saver'[u].stored = image
      /\ \A v \in Savers : saver'[v].previous = saver[v].previous
      /\ \A v \in Savers \ {u} : saver'[v].stored = saver[v].stored
  BY <1>2, Before, Held DEF SaverStages
<1>4. SaverOK(u)' BY <1>1, <1>3 DEF SaverOK
<1>5. ToShowOK(u)' BY <1>1, <1>3, Before, FreshIsNew DEF ToShowOK, ToShow
<1>6. image \in Images => LeftOK(image)' /\ HalvesOK(image)'
  BY <1>1, <1>2, <1>3, Before, FreshIsNew DEF LeftOK, HalvesOK, ToShow
<1>7. QuietStep(u, "signin", image, image)
  BY <1>1, <1>2, <1>3, <1>4, <1>5, <1>6, Before, FreshIsNew
  DEF QuietStep, SaverStages, Saving, HasRead, ToShow, ToRemove
<1> QED BY <1>7, QuietKeeps

\* What a call is about to remove is neither shown, unless it was put back, nor about to be
LEMMA RemovedIsOld ==
  ASSUME ImageInv, NEW u \in Savers, NEW p \in Images, ToRemove(u), p = saver[u].previous
  PROVE  (p = url => url \in restored) /\ \A v \in Savers : ToShow(v) => saver[v].stored # p
BY CallFacts DEF ToRemoveOK, ToShowOK

\* The end of a call that has removed, or given up removing, what it had read
LEMMA RemovalEnds ==
  ASSUME ImageInv, NEW u \in Savers, NEW p \in Images, p = saver[u].previous, ToRemove(u), Goes(u, "over"),
         url' = url, restored' = restored, object' = object, spilled' \in {spilled, spilled \cup {p}},
         row' \in {row, [row EXCEPT ![p] = "none"]},
         p \in spilled' \/ ~Content(p)'
  PROVE  ImageInv'
<1>1. PICK k \in Images : k = saver[u].stored BY CallFacts DEF ToRemove, SaverOK
<1>2. Holds(u, "over", k) BY <1>1 DEF Goes
<1>3. saver'[u].pc = "over" /\ saver'[u].stored = k BY <1>2, Before, Held DEF SaverStages
<1>4. SaverOK(u)' /\ ToShowOK(u)' BY <1>3 DEF SaverOK, ToShowOK, ToShow
<1>5. /\ row' \in [Images -> {"none", "db", "s3"}] /\ (row'[p] = row[p] \/ row'[p] = "none")
      /\ \A j \in Images \ {p} : row'[j] = row[j]
  BY Before
<1>6. HalvesOK(p) BY DEF ImageInv
<1>7. LeftOK(p)' /\ HalvesOK(p)' BY <1>5, <1>6 DEF LeftOK, HalvesOK, Content
<1>8. QuietStep(u, "over", k, p)
  BY <1>1, <1>2, <1>3, <1>4, <1>5, <1>7, Before, RemovedIsOld
  DEF QuietStep, SaverStages, Saving, HasRead, ToShow, ToRemove
<1> QED BY <1>8, QuietKeeps

LEMMA RemoveRowKeeps == ASSUME ImageInv, NEW u \in Savers, RemoveRow(u) PROVE ImageInv'
<1>1. PICK p \in Images : p = saver[u].previous BY CallFacts DEF RemoveRow, SaverOK
<1>2. p \notin object BY <1>1, CallFacts DEF RemoveRow, SaverOK
<1>3. ~Content(p)' BY <1>1, <1>2, Before DEF RemoveRow, Content
<1> QED BY <1>1, <1>3, RemovalEnds DEF RemoveRow, ToRemove

LEMMA CleanUpKeeps == ASSUME ImageInv, NEW u \in Savers, CleanUp(u) PROVE ImageInv'
<1>1. PICK k \in Images : k = saver[u].stored BY CallFacts DEF CleanUp, SaverOK
<1>2. saver[u].pc = "shown" /\ ToRemove(u) /\ url' = url /\ restored' = restored BY DEF CleanUp, ToRemove
<1>3. CASE saver[u].previous \notin Images
  <2>1. row' = row /\ object' = object /\ spilled' = spilled /\ Goes(u, "over") BY <1>3 DEF CleanUp
  <2>2. Holds(u, "over", k) BY <1>1, <2>1 DEF Goes
  <2>3. saver'[u].pc = "over" /\ saver'[u].stored = k BY <2>2, Before, Held DEF SaverStages
  <2>4. SaverOK(u)' /\ ToShowOK(u)' BY <2>3 DEF SaverOK, ToShowOK, ToShow
  <2>5. QuietStep(u, "over", k, NoImage)
    BY <1>1, <1>2, <1>3, <2>1, <2>2, <2>3, <2>4, Before
    DEF QuietStep, SaverStages, Saving, HasRead, ToShow, ToRemove
  <2> QED BY <2>5, QuietKeeps
<1>4. CASE saver[u].previous \in Images
  <2>1. PICK p \in Images : p = saver[u].previous BY <1>4
  <2>2. HalvesOK(p) /\ row[p] \in {"none", "db", "s3"} BY Before DEF ImageInv
  <2>3. CASE row[p] = "none" /\ Goes(u, "over") /\ UNCHANGED <<row, object, spilled>>
    <3>1. \A v \in Savers : saver[v].pc \in {"save", "signin"} => saver[v].stored # p
      BY <1>2, <2>1, RemovedIsOld DEF ToShow
    <3>2. p \in spilled' \/ ~Content(p)' BY <2>2, <2>3, <3>1 DEF HalvesOK, Content
    <3> QED BY <1>2, <2>1, <2>3, <3>2, RemovalEnds
  <2>4. CASE row[p] = "db" /\ row' = [row EXCEPT ![p] = "none"] /\ Goes(u, "over") /\ UNCHANGED <<object, spilled>>
    <3>1. ~Content(p)' BY <2>2, <2>4, Before DEF HalvesOK, Content
    <3> QED BY <1>2, <2>1, <2>4, <3>1, RemovalEnds
  <2>5. CASE /\ row[p] = "s3" /\ row' \in {row, [row EXCEPT ![p] = "none"]}
             /\ spilled' = spilled \cup {p} /\ Goes(u, "over") /\ UNCHANGED object
    BY <1>2, <2>1, <2>5, RemovalEnds
  <2>6. CASE row[p] = "s3" /\ object' = object \ {p} /\ Goes(u, "removing") /\ UNCHANGED <<row, spilled>>
    <3>1. Holds(u, "removing", k) BY <1>1, <2>6 DEF Goes
    <3>2. saver'[u].pc = "removing" /\ saver'[u].stored = k /\ saver'[u].previous = p
      BY <2>1, <3>1, Before, Held DEF SaverStages
    <3>3. SaverOK(u)' /\ ToShowOK(u)' BY <2>6, <3>2 DEF SaverOK, ToShowOK, ToShow
    <3>4. LeftOK(p)' /\ HalvesOK(p)' BY <2>6, <3>2 DEF LeftOK, HalvesOK, ToRemove
    <3>5. QuietStep(u, "removing", k, p)
      BY <1>1, <1>2, <2>1, <2>6, <3>1, <3>2, <3>3, <3>4, Before, RemovedIsOld
      DEF QuietStep, SaverStages, Saving, HasRead, ToShow, ToRemove
    <3> QED BY <3>5, QuietKeeps
  <2> QED BY <2>1, <2>3, <2>4, <2>5, <2>6 DEF CleanUp
<1> QED BY <1>3, <1>4

LEMMA SaverDiesKeeps == ASSUME ImageInv, NEW u \in Savers, SaverDies(u) PROVE ImageInv'
<1>1. PICK s \in Images \cup {NoImage} : s = saver[u].stored BY CallFacts
<1>2. /\ Saving(u) /\ row' = row /\ object' = object /\ url' = url /\ restored' = restored
      /\ spilled' = spilled \cup Leaves(u) /\ Holds(u, "over", s)
  BY <1>1 DEF SaverDies, Goes
<1>3. saver'[u].pc = "over" /\ saver'[u].stored = s BY <1>2, Before, Held DEF SaverStages
<1>4. SaverOK(u)' /\ ToShowOK(u)' BY <1>3 DEF SaverOK, ToShowOK, ToShow
<1>5. Leaves(u) \subseteq Images
  <2>1. saver[u].pc \in {"save", "stored"} => saver[u].stored \in Images BY CallFacts DEF SaverOK
  <2> QED BY <2>1, Before DEF Leaves
<1>6. ASSUME NEW i \in Images, (ToShow(u) /\ i = saver[u].stored) \/ (ToRemove(u) /\ i = saver[u].previous)
      PROVE  LeftOK(i)' /\ HalvesOK(i)'
  <2>1. i \in Leaves(u) \/ (saver[u].pc = "signin" /\ i = saver[u].stored /\ i \notin object)
    BY <1>6 DEF Leaves, ToShow, ToRemove
  <2>2. CASE i \in Leaves(u)
    <3>1. i \in spilled' /\ HalvesOK(i) BY <1>2, <2>2 DEF ImageInv
    <3> QED BY <1>2, <3>1 DEF LeftOK, HalvesOK
  <2>3. CASE saver[u].pc = "signin" /\ i = saver[u].stored /\ i \notin object
    <3>1. row[i] = "none" BY <2>3, CallFacts DEF ToShowOK, ToShow
    <3> QED BY <1>2, <2>3, <3>1 DEF LeftOK, HalvesOK, Content
  <2> QED BY <2>1, <2>2, <2>3
<1>7. QuietStep(u, "over", s, NoImage)
  BY <1>1, <1>2, <1>3, <1>4, <1>5, <1>6, Before
  DEF QuietStep, SaverStages, Saving, HasRead, ToShow, ToRemove
<1> QED BY <1>7, QuietKeeps

\* A call puts what it has stored on display
LEMMA DisplayKeeps ==
  ASSUME ImageInv, NEW u \in Savers, NEW q \in {"shown", "over"}, saver[u].pc \in {"stored", "signin"}, Goes(u, q),
         NEW i \in Images \cup {NoImage}, i = saver[u].stored, q = "shown" => i \in Images,
         q = "over" => saver[u].previous = NoPicture,
         url' = IF i = NoImage THEN External ELSE i,
         row' \in [Images -> {"none", "db", "s3"}], \A j \in Images : j # i => row'[j] = row[j],
         i \in Images => Served(i)' /\ (row'[i] = "db" => i \notin object),
         object' = object, spilled' = spilled, restored' = restored
  PROVE  ImageInv'
<1>1. i = saver[u].stored OBVIOUS
<1>2. Holds(u, q, i) BY <1>1 DEF Goes
<1>3. /\ saver' \in [Savers -> SaverCall] /\ saver'[u].pc = q
      /\ \A v \in Savers : /\ saver'[v].previous = saver[v].previous /\ saver'[v].beside = saver[v].beside
                           /\ saver'[v].stored = saver[v].stored
      /\ \A v \in Savers \ {u} : saver'[v].pc = saver[v].pc
  BY <1>1, <1>2, Before, Held DEF SaverStages
<1>4. /\ ToShow(u) /\ Saving(u) /\ HasRead(u) /\ ~ToRemove(u)
      /\ i \in Images =>
           /\ i # url /\ i \notin restored /\ url' = i
           /\ \A v \in Savers : saver[v].previous # i /\ (v # u => saver[v].stored # i)
      /\ i = NoImage => url' = External
  BY <1>1, CallFacts, Before DEF ToShowOK, ToShow, Saving, HasRead, ToRemove
<1>5. ImagesTypeOK' BY <1>1, <1>3, Before DEF ImagesTypeOK, SaverCall, SaverStages
<1>6. ShownIsServed' /\ (restored' # {} => OfPerson)
  BY <1>1, <1>4, Before DEF ImageInv, ShownIsServed
<1>7. \A v, w \in Savers : v # w /\ Saving(v)' /\ Saving(w)' => w \in saver'[v].beside
  <2>1. \A v \in Savers : Saving(v)' => Saving(v) BY <1>3, <1>4 DEF Saving
  <2> QED BY <1>3, <2>1 DEF ImageInv
<1>8. ASSUME NEW v \in Savers PROVE SaverOK(v)'
  <2>1. SaverOK(v) BY DEF ImageInv
  <2> QED BY <1>1, <1>3, <2>1 DEF SaverOK
<1>9. ASSUME NEW v \in Savers PROVE ToShowOK(v)'
  <2>1. CASE v = u BY <1>3, <2>1 DEF ToShowOK, ToShow
  <2>2. CASE v # u
    <3> SUFFICES ASSUME ToShow(v), NEW j \in Images, j = saver[v].stored
                 PROVE  /\ j # url' /\ j \notin restored'
                        /\ \A w \in Savers : saver'[w].previous # j /\ (w # v => saver'[w].stored # j)
                        /\ saver[v].pc = "save" => j \in object'
                        /\ saver[v].pc = "stored" => Served(j)'
                        /\ saver[v].pc \in {"save", "signin"} => row'[j] = "none"
      BY <1>3, <2>2 DEF ToShowOK, ToShow
    <3>1. ToShowOK(v) /\ j # i BY <1>1, <2>2 DEF ImageInv, ToShowOK
    <3>2. row'[j] = row[j] BY <1>1, <3>1
    <3> QED BY <1>1, <1>3, <1>4, <3>1, <3>2, Before DEF ToShowOK, Served
  <2> QED BY <2>1, <2>2
<1>10. ASSUME NEW v \in Savers PROVE ToRemoveOK(v)'
  BY <1>1, <1>3, <1>4, Before DEF ToRemoveOK
<1>11. ASSUME NEW v \in Savers PROVE ReadOK(v)'
  <2> SUFFICES ASSUME HasRead(v)', i \in Images PROVE \E w \in Savers : saver'[w].stored = url' /\ v \in saver'[w].beside
    BY <1>1, <1>4, Before DEF ReadOK
  <2>1. v # u /\ HasRead(v) BY <1>3 DEF HasRead
  <2>2. v \in saver[u].beside BY <1>4, <2>1 DEF ImageInv, HasRead, Saving
  <2> QED BY <1>1, <1>3, <1>4, <2>2
<1>12. ASSUME NEW j \in Images PROVE LeftOK(j)'
  <2>1. LeftOK(j) BY DEF ImageInv
  <2>2. CASE j = i BY <1>4, <2>2 DEF LeftOK
  <2>3. CASE j # i
    <3>1. Content(j)' => Content(j) BY <1>1, <2>3 DEF Content
    <3>2. StoredBeside(j) => StoredBeside(j)' BY <1>3 DEF StoredBeside
    <3>3. \A v \in Savers : ToShow(v) /\ saver[v].stored = j => ToShow(v)' /\ saver'[v].stored = j
      BY <1>1, <1>3, <2>3 DEF ToShow
    <3>4. \A v \in Savers : ToRemove(v) => ToRemove(v)' /\ saver'[v].previous = saver[v].previous
      BY <1>3, <1>4 DEF ToRemove
    <3>5. CASE j = url /\ j \notin restored
      <4>1. saver[u].previous = j \/ StoredBeside(j) BY <1>4, <3>5, CallFacts DEF ReadOK, StoredBeside
      <4>2. saver[u].previous = j => ToRemove(u)' BY <1>3, Before DEF ToRemove
      <4> QED BY <1>3, <3>2, <4>1, <4>2 DEF LeftOK
    <3> QED BY <2>1, <3>1, <3>2, <3>3, <3>4, <3>5 DEF LeftOK
  <2> QED BY <2>2, <2>3
<1>13. ASSUME NEW j \in Images PROVE HalvesOK(j)'
  <2>1. HalvesOK(j) BY DEF ImageInv
  <2>2. CASE j = i BY <1>1, <2>2 DEF HalvesOK, Served
  <2>3. CASE j # i
    <3>1. \A v \in Savers : saver[v].stored = j => v # u BY <1>1, <2>3
    <3> QED BY <1>1, <1>3, <2>1, <2>3, <3>1 DEF HalvesOK
  <2> QED BY <2>2, <2>3
<1> QED BY <1>5, <1>6, <1>7, <1>8, <1>9, <1>10, <1>11, <1>12, <1>13 DEF ImageInv

LEMMA ShowImageKeeps == ASSUME ImageInv, NEW u \in Savers, ShowImage(u) PROVE ImageInv'
<1>1. PICK i \in Images : i = saver[u].stored BY CallFacts DEF ShowImage, SaverOK
<1>2. /\ saver[u].pc = "stored" /\ Goes(u, "shown") /\ url' = i /\ i # NoImage
      /\ row' = row /\ object' = object /\ spilled' = spilled /\ restored' = restored
  BY <1>1, Before DEF ShowImage
<1>3. Served(i) /\ HalvesOK(i) BY <1>1, <1>2, CallFacts DEF ToShowOK, ToShow, ImageInv
<1>4. Served(i)' /\ (row'[i] = "db" => i \notin object) BY <1>2, <1>3 DEF Served, HalvesOK
<1> QED BY <1>1, <1>2, <1>4, Before, DisplayKeeps

LEMMA SignInKeeps == ASSUME ImageInv, NEW u \in Savers, SignIn(u) PROVE ImageInv'
<1>1. PICK i \in Images \cup {NoImage} : i = saver[u].stored BY CallFacts
<1>2. /\ saver[u].pc = "signin" /\ saver[u].previous = NoPicture /\ Goes(u, "over")
      /\ object' = object /\ spilled' = spilled /\ restored' = restored
  BY CallFacts DEF SignIn, SaverOK
<1>3. CASE i = NoImage
  <2>1. url' = External /\ row' = row BY <1>1, <1>3 DEF SignIn
  <2> QED BY <1>1, <1>2, <1>3, <2>1, Before, DisplayKeeps
<1>4. CASE i # NoImage
  <2>1. i \in Images /\ url' = i /\ row' = [row EXCEPT ![i] = IF i \in object THEN "s3" ELSE "db"]
    BY <1>1, <1>4 DEF SignIn
  <2>2. /\ row' \in [Images -> {"none", "db", "s3"}] /\ row'[i] = IF i \in object THEN "s3" ELSE "db"
        /\ \A j \in Images : j # i => row'[j] = row[j]
    BY <2>1, Before
  <2>3. Served(i)' /\ (row'[i] = "db" => i \notin object) BY <1>2, <2>2 DEF Served
  <2> QED BY <1>1, <1>2, <1>4, <2>1, <2>2, <2>3, DisplayKeeps
<1> QED BY <1>3, <1>4

LEMMA SaveNamedKeeps == ASSUME ImageInv, NEW u \in Savers, SaveNamed(u) PROVE ImageInv'
<1>1. PICK p \in Images \cup {NoPicture, External} : p = saver[u].previous BY CallFacts
<1>2. /\ saver[u].pc = "naming" /\ OfPerson /\ saver[u].stored = NoImage
      /\ url' = p /\ row' = row /\ object' = object /\ spilled' = spilled
      /\ restored' = IF p = url THEN restored ELSE restored \cup ({p} \cap Images)
      /\ Holds(u, "over", NoImage)
  BY <1>1, CallFacts DEF SaveNamed, SaverOK, Goes
<1>3. /\ saver' \in [Savers -> SaverCall] /\ saver'[u].pc = "over"
      /\ \A v \in Savers : /\ saver'[v].previous = saver[v].previous /\ saver'[v].beside = saver[v].beside
                           /\ saver'[v].stored = saver[v].stored
      /\ \A v \in Savers \ {u} : saver'[v].pc = saver[v].pc
  BY <1>2, Before, Held DEF SaverStages
<1>4. CASE p = url
  <2>1. SaverOK(u)' /\ ToShowOK(u)' BY <1>3, <1>2 DEF SaverOK, ToShowOK, ToShow
  <2>2. QuietStep(u, "over", NoImage, NoImage)
    BY <1>2, <1>3, <1>4, <2>1, Before DEF QuietStep, SaverStages, Saving, HasRead, ToShow, ToRemove
  <2> QED BY <2>2, QuietKeeps
<1>5. CASE p # url
  <2>0. restored' = restored \cup ({p} \cap Images) /\ (p \in Images => url' \in restored') BY <1>2, <1>5
  <2>1. ImagesTypeOK' BY <1>1, <1>2, <1>3, <2>0, Before DEF ImagesTypeOK, SaverCall, SaverStages
  <2>2. ShownIsServed' /\ (restored' # {} => OfPerson) BY <1>2, <2>0 DEF ShownIsServed
  <2>3. \A v, w \in Savers : v # w /\ Saving(v)' /\ Saving(w)' => w \in saver'[v].beside
    <3>1. \A v \in Savers : Saving(v)' => Saving(v) BY <1>3 DEF Saving
    <3> QED BY <1>3, <3>1 DEF ImageInv
  <2>4. ASSUME NEW v \in Savers PROVE SaverOK(v)'
    <3>1. SaverOK(v) BY DEF ImageInv
    <3> QED BY <1>2, <1>3, <3>1 DEF SaverOK
  <2>5. ASSUME NEW v \in Savers PROVE ToShowOK(v)'
    <3>1. ToShow(v)' => ToShow(v) /\ v # u BY <1>3 DEF ToShow
    <3>2. ToShowOK(v) BY DEF ImageInv
    <3> QED BY <1>1, <1>2, <1>3, <2>0, <3>1, <3>2 DEF ToShowOK, Served
  <2>6. ASSUME NEW v \in Savers PROVE ToRemoveOK(v)' BY <1>2, <1>3, <2>0 DEF ToRemoveOK
  <2>7. ASSUME NEW v \in Savers PROVE ReadOK(v)' BY <1>2, <2>0 DEF ReadOK
  <2>8. ASSUME NEW j \in Images PROVE LeftOK(j)' /\ HalvesOK(j)'
    <3>1. LeftOK(j) /\ HalvesOK(j) BY DEF ImageInv
    <3>2. StoredBeside(j) => StoredBeside(j)' BY <1>3 DEF StoredBeside
    <3>3. \A v \in Savers : (ToShow(v) => ToShow(v)') /\ (ToRemove(v) => ToRemove(v)')
      BY <1>2, <1>3 DEF ToShow, ToRemove
    <3>4. j = url /\ j \notin restored => StoredBeside(j)
      BY <1>1, <1>2, <1>5, CallFacts DEF ReadOK, HasRead, StoredBeside
    <3>5. LeftOK(j)' BY <1>2, <1>3, <3>1, <3>2, <3>3, <3>4 DEF LeftOK, Content
    <3>6. \A v \in Savers : saver[v].pc \in {"save", "signin"} => saver'[v].pc = saver[v].pc BY <1>2, <1>3
    <3> QED BY <1>2, <1>3, <3>1, <3>5, <3>6 DEF HalvesOK
  <2> QED BY <2>1, <2>2, <2>3, <2>4, <2>5, <2>6, <2>7, <2>8 DEF ImageInv
<1> QED BY <1>4, <1>5

LEMMA StartKeeps ==
  ASSUME ImageInv, NEW u \in Savers, NEW q \in {"put", "fallback", "naming", "download"}, Start(u, q),
         q = "naming" => OfPerson, q = "download" => url = NoPicture
  PROVE  ImageInv'
<1>1. /\ saver[u].pc = "free" /\ saver[u].stored = NoImage
      /\ row' = row /\ object' = object /\ url' = url /\ spilled' = spilled /\ restored' = restored
  BY CallFacts DEF Start, SaverOK
<1>2. PICK b \in SUBSET Savers : b = {w \in Savers \ {u} : Saving(w)} OBVIOUS
<1>3. saver' = [v \in Savers |->
        IF v = u THEN [pc |-> q, previous |-> url, stored |-> NoImage, beside |-> b]
        ELSE IF Saving(v) THEN [saver[v] EXCEPT !.beside = @ \cup {u}] ELSE saver[v]]
  BY <1>2 DEF Start
<1>4. ASSUME NEW v \in Savers, v # u
      PROVE  /\ saver'[v] \in SaverCall
             /\ saver'[v].pc = saver[v].pc /\ saver'[v].previous = saver[v].previous
             /\ saver'[v].stored = saver[v].stored
             /\ saver'[v].beside = IF Saving(v) THEN saver[v].beside \cup {u} ELSE saver[v].beside
  <2>1. PICK r \in SaverCall : r = saver[v] BY Before
  <2>2. saver'[v] = IF Saving(v) THEN [r EXCEPT !.beside = @ \cup {u}] ELSE r BY <1>3, <1>4, <2>1
  <2>3. [r EXCEPT !.beside = @ \cup {u}] \in SaverCall BY DEF SaverCall
  <2>4. /\ [r EXCEPT !.beside = @ \cup {u}].pc = r.pc /\ [r EXCEPT !.beside = @ \cup {u}].previous = r.previous
        /\ [r EXCEPT !.beside = @ \cup {u}].stored = r.stored
        /\ [r EXCEPT !.beside = @ \cup {u}].beside = r.beside \cup {u}
    BY DEF SaverCall
  <2> QED BY <2>1, <2>2, <2>3, <2>4
<1>5. saver'[u] = [pc |-> q, previous |-> url, stored |-> NoImage, beside |-> b] BY <1>3
<1>6. saver'[u].pc = q /\ saver'[u].previous = url /\ saver'[u].stored = NoImage /\ saver'[u].beside = b BY <1>5
<1>7. ImagesTypeOK'
  <2>1. [pc |-> q, previous |-> url, stored |-> NoImage, beside |-> b] \in SaverCall
    BY Before DEF SaverCall, SaverStages
  <2>2. \A v \in Savers : saver'[v] \in SaverCall BY <1>4, <1>5, <2>1
  <2>3. saver' \in [Savers -> SaverCall] BY <1>3, <2>2
  <2> QED BY <1>1, <2>3, Before DEF ImagesTypeOK, SaverCall, SaverStages
<1>8. ShownIsServed' /\ (restored' # {} => OfPerson) BY <1>1 DEF ImageInv, ShownIsServed, Served
<1>9. ASSUME NEW v \in Savers, NEW w \in Savers, v # w, Saving(v)', Saving(w)' PROVE w \in saver'[v].beside
  <2>1. \A x \in Savers \ {u} : Saving(x)' => Saving(x) BY <1>4 DEF Saving
  <2> QED BY <1>2, <1>4, <1>6, <1>9, <2>1 DEF ImageInv
<1>10. ASSUME NEW v \in Savers PROVE SaverOK(v)' /\ ToShowOK(v)' /\ ToRemoveOK(v)'
  <2>1. CASE v = u
    BY <1>1, <1>6, <2>1 DEF SaverOK, ToShowOK, ToRemoveOK, ToShow, ToRemove
  <2>2. CASE v # u
    <3>1. SaverOK(v) /\ ToShowOK(v) /\ ToRemoveOK(v) BY DEF ImageInv
    <3>2. SaverOK(v)' /\ ToRemoveOK(v)' BY <1>1, <1>4, <2>2, <3>1 DEF SaverOK, ToRemoveOK, ToRemove
    <3>3. ToShowOK(v)'
      <4> SUFFICES ASSUME ToShow(v), NEW j \in Images, j = saver[v].stored
                   PROVE  \A w \in Savers : saver'[w].previous # j /\ (w # v => saver'[w].stored # j)
        BY <1>1, <1>4, <2>2, <3>1 DEF ToShowOK, ToShow, Served
      <4>1. j # url /\ \A w \in Savers : saver[w].previous # j /\ (w # v => saver[w].stored # j)
        BY <3>1 DEF ToShowOK
      <4> QED BY <1>4, <1>6, <4>1, Before
    <3> QED BY <3>2, <3>3
  <2> QED BY <2>1, <2>2
<1>11. ASSUME NEW v \in Savers PROVE ReadOK(v)'
  <2>1. CASE v = u BY <1>1, <1>6, <2>1 DEF ReadOK
  <2>2. CASE v # u
    <3> SUFFICES ASSUME HasRead(v), saver[v].previous # url, url \in Images \ restored
                 PROVE  \E w \in Savers : saver'[w].stored = url /\ v \in saver'[w].beside
      BY <1>1, <1>4, <2>2 DEF ReadOK, HasRead
    <3>1. PICK w \in Savers : saver[w].stored = url /\ v \in saver[w].beside BY DEF ImageInv, ReadOK
    <3>2. w # u BY <1>1, <3>1, Before
    <3> QED BY <1>4, <3>1, <3>2
  <2> QED BY <2>1, <2>2
<1>12. ASSUME NEW j \in Images PROVE LeftOK(j)' /\ HalvesOK(j)'
  <2>1. LeftOK(j) /\ HalvesOK(j) BY DEF ImageInv
  <2>2. \A v \in Savers : saver[v].stored = j => v # u BY <1>1, Before
  <2>3. StoredBeside(j) => StoredBeside(j)' BY <1>4, <2>2 DEF StoredBeside
  <2>4. \A v \in Savers : ToRemove(v) => v # u BY <1>1 DEF ToRemove
  <2>5. LeftOK(j)' BY <1>1, <1>4, <2>1, <2>2, <2>3, <2>4 DEF LeftOK, Content, ToShow, ToRemove
  <2> QED BY <1>1, <1>4, <2>1, <2>2, <2>5 DEF HalvesOK
<1> QED BY <1>7, <1>8, <1>9, <1>10, <1>11, <1>12 DEF ImageInv

LEMMA ImageInductive == ImageInv /\ [ImagesNext]_imageVars => ImageInv'
<1> SUFFICES ASSUME ImageInv, [ImagesNext]_imageVars PROVE ImageInv' OBVIOUS
<1>1. CASE UNCHANGED imageVars
  <2>1. /\ row' = row /\ object' = object /\ url' = url /\ saver' = saver /\ spilled' = spilled /\ restored' = restored
    BY <1>1 DEF imageVars
  <2>2. ImagesTypeOK' /\ ShownIsServed' BY <2>1 DEF ImageInv, ImagesTypeOK, ShownIsServed, Served
  <2>3. ASSUME NEW u \in Savers PROVE SaverOK(u)' /\ ToShowOK(u)' /\ ToRemoveOK(u)' /\ ReadOK(u)' /\ (Saving(u)' <=> Saving(u))
    BY <2>1 DEF ImageInv, SaverOK, ToShowOK, ToRemoveOK, ReadOK, ToShow, ToRemove, HasRead, Served, Saving
  <2>4. ASSUME NEW i \in Images PROVE LeftOK(i)' /\ HalvesOK(i)'
    BY <2>1 DEF ImageInv, LeftOK, HalvesOK, Content, StoredBeside, ToShow, ToRemove
  <2> QED BY <2>1, <2>2, <2>3, <2>4 DEF ImageInv
<1>2. ASSUME NEW u \in Savers,
             \/ StartUpload(u) \/ SaveRow(u) \/ ShowImage(u) \/ CleanUp(u) \/ RemoveRow(u)
             \/ StartNaming(u) \/ SaveNamed(u) \/ StartSignIn(u) \/ SignIn(u) \/ SaverDies(u)
      PROVE  ImageInv'
  <2>1. CASE StartUpload(u) BY <2>1, StartKeeps DEF StartUpload
  <2>2. CASE StartNaming(u) BY <2>2, StartKeeps DEF StartNaming
  <2>3. CASE StartSignIn(u) BY <2>3, StartKeeps DEF StartSignIn
  <2> QED
    BY <1>2, <2>1, <2>2, <2>3, SaveRowKeeps, ShowImageKeeps, CleanUpKeeps, RemoveRowKeeps, SaveNamedKeeps,
       SignInKeeps, SaverDiesKeeps
<1>3. ASSUME NEW u \in Savers, NEW i \in Images, PutObject(u, i) \/ FallBack(u, i) \/ Download(u, i) PROVE ImageInv'
  BY <1>3, PutObjectKeeps, FallBackKeeps, DownloadKeeps
<1> QED BY <1>1, <1>2, <1>3 DEF ImagesNext

LEMMA ImageInvGives == ImageInv => ImagesTypeOK /\ ShownIsServed /\ LeftForCause
BY DEF ImageInv, LeftOK, LeftForCause, Content, StoredBeside, ToShow, ToRemove

\* The picture that is shown can be served, but for a save of a person's whole row that put back
\* one that was replaced since the row was read; and what is left of an image nobody shows is
\* there for a failure, for a call that is still about it or for calls that overlapped.
THEOREM ImagesHold == ImagesSpec => [](ImagesTypeOK /\ ShownIsServed /\ LeftForCause)
BY ImageInitInv, ImageInductive, ImageInvGives, PTL DEF ImagesSpec
-----------------------------------------------------------------------------
(* The versions of a worksheet *)

\* The place of a number among those of a set, the least of them first
Rank(S, i) == Cardinality({j \in S : j <= i})

LEMMA RankOrder ==
  ASSUME NEW S \in SUBSET Nat, IsFiniteSet(S), NEW i \in S
  PROVE  /\ Rank(S, i) \in 1 .. Cardinality(S)
         /\ \A j \in S : i < j => Rank(S, i) < Rank(S, j)
<1> DEFINE Upto(k) == {j \in S : j <= k}
<1>1. ASSUME NEW k \in S
      PROVE  IsFiniteSet(Upto(k)) /\ Cardinality(Upto(k)) \in Nat /\ Cardinality(Upto(k)) <= Cardinality(S)
  <2>1. Upto(k) \in SUBSET S OBVIOUS
  <2> QED BY <2>1, FS_Subset, FS_CardinalityType
<1>2. Cardinality(Upto(i)) # 0
  <2>1. i \in Upto(i) OBVIOUS
  <2> QED BY <1>1, <2>1, FS_EmptySet
<1>3. ASSUME NEW j \in S, i < j PROVE Cardinality(Upto(i)) < Cardinality(Upto(j))
  <2>0. \A k \in S : k \in Nat OBVIOUS
  <2>1. Upto(i) \in SUBSET Upto(j)
    <3>1. \A k \in S : k <= i => k <= j BY <1>3, <2>0
    <3> QED BY <3>1
  <2>2. j \in Upto(j) /\ j \notin Upto(i) BY <1>3
  <2>3. Cardinality(Upto(i)) <= Cardinality(Upto(j)) BY <1>1, <2>1, FS_Subset
  <2>4. Cardinality(Upto(j)) # Cardinality(Upto(i))
    <3> HIDE DEF Upto
    <3> QED BY <1>1, <2>1, <2>2, FS_Subset
  <2> QED BY <1>1, <2>3, <2>4
<1>4. Cardinality(S) \in Nat BY FS_CardinalityType
<1> QED BY <1>1, <1>2, <1>3, <1>4 DEF Rank

LEMMA RankOnto ==
  ASSUME NEW S \in SUBSET Nat, IsFiniteSet(S), NEW k \in 1 .. Cardinality(S)
  PROVE  \E i \in S : Rank(S, i) = k
<1> DEFINE f == [i \in S |-> Rank(S, i)]
           T == 1 .. Cardinality(S)
<1>1. Cardinality(S) \in Nat BY FS_CardinalityType
<1>2. IsFiniteSet(T) /\ Cardinality(T) = Cardinality(S)
  <2>1. IsFiniteSet(T) /\ Cardinality(T) = IF 1 > Cardinality(S) THEN 0 ELSE Cardinality(S) - 1 + 1
    BY <1>1, FS_Interval
  <2> QED BY <1>1, <2>1
<1>3. f \in [S -> T] BY RankOrder
<1>4. ASSUME NEW i \in S, NEW j \in S, f[i] = f[j] PROVE i = j
  <2>1. f[i] = Rank(S, i) /\ f[j] = Rank(S, j) /\ Rank(S, i) \in Nat BY RankOrder
  <2>2. ~(i < j) /\ ~(j < i) BY <1>4, <2>1, RankOrder
  <2> QED BY <2>2
<1>5. f \in Injection(S, T) BY <1>3, <1>4 DEF Injection, IsInjective
<1>6. f \in Surjection(S, T)
  <2> HIDE DEF f, T
  <2> QED BY <1>2, <1>5, FS_Injection
<1>7. \A t \in T : \E i \in S : f[i] = t BY <1>6 DEF Surjection
<1> QED BY <1>7

LEMMA RankUnique ==
  ASSUME NEW S \in SUBSET Nat, IsFiniteSet(S), NEW i \in S, NEW j \in S, Rank(S, i) = Rank(S, j)
  PROVE  i = j
<1>1. ~(i < j) /\ ~(j < i) /\ Rank(S, i) \in Nat BY RankOrder
<1> QED BY <1>1

\* The k-th of the numbers of a set
Nth(S, k) == CHOOSE i \in S : Cardinality({j \in S : j <= i}) = k

LEMMA NthIs ==
  ASSUME NEW S \in SUBSET Nat, IsFiniteSet(S), NEW k \in 1 .. Cardinality(S)
  PROVE  Nth(S, k) \in S /\ Rank(S, Nth(S, k)) = k
<1>1. \E i \in S : Cardinality({j \in S : j <= i}) = k BY RankOnto DEF Rank
<1> QED BY <1>1 DEF Nth, Rank

LEMMA NthOrder ==
  ASSUME NEW S \in SUBSET Nat, IsFiniteSet(S), NEW k \in 1 .. Cardinality(S), NEW l \in 1 .. Cardinality(S), k < l
  PROVE  Nth(S, k) < Nth(S, l)
<1>0. Cardinality(S) \in Nat BY FS_CardinalityType
<1>1. Nth(S, k) \in S /\ Nth(S, l) \in S /\ Rank(S, Nth(S, k)) = k /\ Rank(S, Nth(S, l)) = l BY NthIs
<1>2. Nth(S, k) # Nth(S, l) BY <1>0, <1>1
<1>3. ~(Nth(S, l) < Nth(S, k))
  <2>1. PICK i \in S, j \in S : i = Nth(S, k) /\ j = Nth(S, l) BY <1>1
  <2>2. j < i => Rank(S, j) < Rank(S, i) BY RankOrder
  <2> QED BY <1>0, <1>1, <2>1, <2>2
<1>4. Nth(S, k) \in Nat /\ Nth(S, l) \in Nat BY <1>1
<1> QED BY <1>2, <1>3, <1>4

LEMMA NthOfFirst ==
  ASSUME NEW S \in SUBSET Nat, IsFiniteSet(S), 0 \notin S, NEW i \in Nat \ {0}, 1 .. i \subseteq S
  PROVE  i \in 1 .. Cardinality(S) /\ Nth(S, i) = i
<1>1. {j \in S : j <= i} = 1 .. i
  <2>1. \A j \in S : j \in Nat \ {0} OBVIOUS
  <2>2. \A j \in S : j <= i => j \in 1 .. i BY <2>1
  <2>3. \A j \in 1 .. i : j \in S /\ j <= i OBVIOUS
  <2> QED BY <2>2, <2>3
<1>2. Cardinality(1 .. i) = i
  <2>1. Cardinality(1 .. i) = IF 1 > i THEN 0 ELSE i - 1 + 1 BY FS_Interval
  <2> QED BY <2>1
<1>3. i \in S /\ Rank(S, i) = i
  <2>1. i \in 1 .. i OBVIOUS
  <2> QED BY <1>1, <1>2, <2>1 DEF Rank
<1>4. i \in 1 .. Cardinality(S) BY <1>3, RankOrder
<1>5. Nth(S, i) \in S /\ Rank(S, Nth(S, i)) = i BY <1>4, NthIs
<1>6. PICK j \in S : j = Nth(S, i) BY <1>5
<1>7. j = i BY <1>3, <1>5, <1>6, RankUnique
<1> QED BY <1>4, <1>6, <1>7

LEMMA NthOfLast ==
  ASSUME NEW S \in SUBSET Nat, IsFiniteSet(S), NEW i \in S, \A j \in S : j <= i
  PROVE  Cardinality(S) \in Nat \ {0} /\ Nth(S, Cardinality(S)) = i
<1>1. {j \in S : j <= i} = S OBVIOUS
<1>2. Rank(S, i) = Cardinality(S) BY <1>1 DEF Rank
<1>3. Cardinality(S) \in 1 .. Cardinality(S) BY <1>2, RankOrder
<1>4. Cardinality(S) \in Nat BY FS_CardinalityType
<1>5. Nth(S, Cardinality(S)) \in S /\ Rank(S, Nth(S, Cardinality(S))) = Cardinality(S) BY <1>3, NthIs
<1>6. PICK j \in S : j = Nth(S, Cardinality(S)) BY <1>5
<1>7. j = i BY <1>2, <1>5, <1>6, RankUnique
<1> QED BY <1>3, <1>4, <1>6, <1>7

\* As many of a set are before its first m numbers are over as m says
LEMMA FirstOfMany ==
  ASSUME NEW S \in SUBSET Nat, IsFiniteSet(S), NEW m \in Nat, m <= Cardinality(S),
         NEW F, F = {i \in S : Cardinality({j \in S : j < i}) < m}
  PROVE  F \subseteq S /\ IsFiniteSet(F) /\ Cardinality(F) = m
<1>1. ASSUME NEW i \in S PROVE Cardinality({j \in S : j < i}) < m <=> Rank(S, i) \in 1 .. m
  <2>1. PICK U \in SUBSET S : U = {j \in S : j <= i} OBVIOUS
  <2>2. {j \in S : j < i} = U \ {i}
    <3>1. \A j \in S : j \in Nat OBVIOUS
    <3>2. \A j \in S : j < i <=> j <= i /\ j # i BY <3>1
    <3> QED BY <2>1, <3>2
  <2>3. IsFiniteSet(U) /\ Cardinality(U) = Rank(S, i) /\ i \in U BY <2>1, FS_Subset DEF Rank
  <2>4. Cardinality(U \ {i}) = Cardinality(U) - 1 BY <2>3, FS_RemoveElement
  <2>5. Rank(S, i) \in 1 .. Cardinality(S) BY RankOrder
  <2>6. Cardinality(S) \in Nat BY FS_CardinalityType
  <2> QED BY <2>2, <2>3, <2>4, <2>5, <2>6
<1>2. F = {i \in S : Rank(S, i) \in 1 .. m} BY <1>1
<1>3. F \subseteq S /\ IsFiniteSet(F) BY <1>2, FS_Subset
<1> DEFINE f == [i \in F |-> Rank(S, i)]
           T == 1 .. m
<1>4. IsFiniteSet(T) /\ Cardinality(T) = m
  <2>1. IsFiniteSet(T) /\ Cardinality(T) = IF 1 > m THEN 0 ELSE m - 1 + 1 BY FS_Interval
  <2> QED BY <2>1
<1>5. f \in [F -> T] BY <1>2
<1>6. \A i, j \in F : f[i] = f[j] => i = j BY <1>3, RankUnique
<1>7. f \in Injection(F, T) BY <1>5, <1>6 DEF Injection, IsInjective
<1>8. ASSUME NEW t \in T PROVE \E i \in F : f[i] = t
  <2>1. t \in 1 .. Cardinality(S)
    <3>1. Cardinality(S) \in Nat BY FS_CardinalityType
    <3> QED BY <3>1
  <2>2. PICK i \in S : Rank(S, i) = t BY <2>1, RankOnto
  <2> QED BY <1>2, <2>2
<1>9. f \in Surjection(F, T) BY <1>5, <1>8 DEF Surjection
<1>10. Cardinality(T) = Cardinality(F)
  <2> HIDE DEF f, T
  <2> QED BY <1>3, <1>7, <1>9, FS_Surjection
<1> QED BY <1>3, <1>4, <1>10

Version == [age : 1 .. Older, first : BOOLEAN]
Sorted(list) == \A i, j \in DOMAIN list : i < j => list[i].age <= list[j].age

HistoryInv == HistoryTypeOK /\ FirstStays /\ Len(versionList) >= 1

LEMMA HalfOfMax == MaxVersions \div 2 \in Nat /\ MaxVersions \div 2 <= MaxVersions
BY MaxVersionsAssumption

\* A bucket adds one at most, and has one of its span after it
LEMMA FillGives ==
  ASSUME NEW list \in Seq(Version), NEW span \in Nat, NEW keep \in SUBSET (DOMAIN list),
         {i \in DOMAIN list : i <= 3} \subseteq keep
  PROVE  /\ keep \subseteq Fill(list, span, keep) /\ Fill(list, span, keep) \subseteq DOMAIN list
         /\ Cardinality(Fill(list, span, keep)) <= Cardinality(keep) + 1
         /\ (\E i \in DOMAIN list : i > 3 /\ list[i].age <= span) =>
              \E i \in Fill(list, span, keep) : i > 3 /\ list[i].age <= span
<1> DEFINE within == {i \in DOMAIN list \ keep : list[i].age <= span}
<1>1. DOMAIN list = 1 .. Len(list) /\ Len(list) \in Nat OBVIOUS
<1>2. IsFiniteSet(keep) /\ Cardinality(keep) \in Nat
  <2>1. IsFiniteSet(DOMAIN list) BY <1>1, FS_Interval
  <2> QED BY <2>1, FS_Subset, FS_CardinalityType
<1>3. Fill(list, span, keep) = IF within = {} THEN keep ELSE keep \cup {Min(within)} BY DEF Fill
<1>4. within # {} => Min(within) \in within
  <2>1. within \in SUBSET Nat BY <1>1
  <2> HIDE DEF within
  <2> QED BY <2>1, FirstIsMember
<1>5. Cardinality(Fill(list, span, keep)) <= Cardinality(keep) + 1
  <2>1. CASE within = {} BY <1>2, <1>3, <2>1
  <2>2. CASE within # {}
    <3>1. Cardinality(keep \cup {Min(within)}) =
            IF Min(within) \in keep THEN Cardinality(keep) ELSE Cardinality(keep) + 1
      BY <1>2, FS_AddElement
    <3> QED BY <1>2, <1>3, <2>2, <3>1
  <2> QED BY <2>1, <2>2
<1>6. ASSUME NEW i \in DOMAIN list, i > 3, list[i].age <= span
      PROVE  \E j \in Fill(list, span, keep) : j > 3 /\ list[j].age <= span
  <2>1. CASE i \in keep BY <1>3, <1>6, <2>1
  <2>2. CASE i \notin keep
    <3>1. i \in within BY <1>6, <2>2
    <3>2. PICK j \in within : j = Min(within) BY <1>4, <3>1
    <3>3. j \in DOMAIN list /\ j \notin keep /\ list[j].age <= span BY <3>2
    <3>4. j > 3 BY <1>1, <3>3
    <3> QED BY <1>3, <3>1, <3>2, <3>3, <3>4
  <2> QED BY <2>1, <2>2
<1>7. keep \subseteq Fill(list, span, keep) /\ Fill(list, span, keep) \subseteq DOMAIN list
  BY <1>3, <1>4
<1> QED BY <1>5, <1>6, <1>7

\* What culling keeps is seven at most, with the newest three, the oldest and one of each span
LEMMA KeptGives ==
  ASSUME NEW list \in Seq(Version), Len(list) >= 3
  PROVE  /\ Kept(list) \subseteq DOMAIN list /\ 1 .. 3 \subseteq Kept(list) /\ Len(list) \in Kept(list)
         /\ IsFiniteSet(Kept(list)) /\ Cardinality(Kept(list)) <= 7
         /\ \A span \in Spans : (\E i \in DOMAIN list : i > 3 /\ list[i].age <= span) =>
              \E i \in Kept(list) : i > 3 /\ list[i].age <= span
<1> DEFINE k0 == {i \in DOMAIN list : i <= 3}
           k1 == Fill(list, 1, k0)
           k2 == Fill(list, 2, k1)
           k3 == Fill(list, 3, k2)
<1>1. DOMAIN list = 1 .. Len(list) /\ Len(list) \in Nat OBVIOUS
<1>2. k0 = 1 .. 3 /\ k0 \in SUBSET (DOMAIN list) BY <1>1
<1>3. Cardinality(k0) = 3
  <2>1. \A n \in Nat : n >= 1 => Cardinality(1 .. n) = n
    <3> SUFFICES ASSUME NEW n \in Nat, n >= 1 PROVE Cardinality(1 .. n) = n OBVIOUS
    <3>1. Cardinality(1 .. n) = IF 1 > n THEN 0 ELSE n - 1 + 1 BY FS_Interval
    <3> QED BY <3>1
  <2>2. PICK n \in Nat : n = 3 OBVIOUS
  <2>3. k0 = 1 .. n BY <1>2, <2>2
  <2>5. n >= 1 BY <2>2
  <2>4. Cardinality(1 .. n) = n BY <2>1, <2>5
  <2> HIDE DEF k0
  <2> QED BY <2>2, <2>3, <2>4
<1>4. Kept(list) = k3 \cup {Len(list)} BY Zenon DEF Kept
<1> HIDE DEF k1, k2, k3
<1>5. /\ k0 \subseteq k1 /\ k1 \subseteq DOMAIN list /\ Cardinality(k1) <= Cardinality(k0) + 1
      /\ (\E i \in DOMAIN list : i > 3 /\ list[i].age <= 1) => \E i \in k1 : i > 3 /\ list[i].age <= 1
  BY <1>2, FillGives DEF k1
<1>6. /\ k1 \subseteq k2 /\ k2 \subseteq DOMAIN list /\ Cardinality(k2) <= Cardinality(k1) + 1
      /\ (\E i \in DOMAIN list : i > 3 /\ list[i].age <= 2) => \E i \in k2 : i > 3 /\ list[i].age <= 2
  BY <1>5, FillGives DEF k2
<1>7. /\ k2 \subseteq k3 /\ k3 \subseteq DOMAIN list /\ Cardinality(k3) <= Cardinality(k2) + 1
      /\ (\E i \in DOMAIN list : i > 3 /\ list[i].age <= 3) => \E i \in k3 : i > 3 /\ list[i].age <= 3
  BY <1>5, <1>6, FillGives DEF k3
<1> HIDE DEF k0
<1>8. IsFiniteSet(DOMAIN list) BY <1>1, FS_Interval
<1>9. IsFiniteSet(k1) /\ IsFiniteSet(k2) /\ IsFiniteSet(k3) BY <1>5, <1>6, <1>7, <1>8, FS_Subset
<1>10. Cardinality(k1) \in Nat /\ Cardinality(k2) \in Nat /\ Cardinality(k3) \in Nat BY <1>9, FS_CardinalityType
<1>11. Cardinality(k3) <= 6 BY <1>3, <1>5, <1>6, <1>7, <1>10
<1>12. IsFiniteSet(Kept(list)) BY <1>4, <1>9, FS_AddElement
<1>13. Cardinality(Kept(list)) = IF Len(list) \in k3 THEN Cardinality(k3) ELSE Cardinality(k3) + 1
  BY <1>4, <1>9, FS_AddElement
<1>14. Cardinality(Kept(list)) <= 7 BY <1>10, <1>11, <1>13
<1>15. Kept(list) \subseteq DOMAIN list /\ 1 .. 3 \subseteq Kept(list) /\ Len(list) \in Kept(list)
  BY <1>1, <1>2, <1>4, <1>5, <1>6, <1>7
<1>16. k1 \subseteq Kept(list) /\ k2 \subseteq Kept(list) /\ k3 \subseteq Kept(list) BY <1>4, <1>6, <1>7
<1>17. ASSUME NEW span \in Spans, NEW i \in DOMAIN list, i > 3, list[i].age <= span
       PROVE  \E j \in Kept(list) : j > 3 /\ list[j].age <= span
  <2>1. CASE span = 1 BY <1>5, <1>16, <1>17, <2>1
  <2>2. CASE span = 2 BY <1>6, <1>16, <1>17, <2>2
  <2>3. CASE span = 3 BY <1>7, <1>16, <1>17, <2>3
  <2> QED BY <2>1, <2>2, <2>3 DEF Spans
<1> QED BY <1>12, <1>14, <1>15, <1>17

\* What stays when too long a history is culled
LEMMA DeletedGives ==
  ASSUME NEW list \in Seq(Version), Len(list) > MaxVersions,
         NEW S, S = DOMAIN list \ Deleted(list)
  PROVE  /\ S \in SUBSET (Nat \ {0}) /\ IsFiniteSet(S) /\ Kept(list) \subseteq S /\ S \subseteq DOMAIN list
         /\ Cardinality(S) = Len(list) - Cardinality(Deleted(list))
         /\ Cardinality(S) \in Nat /\ Cardinality(S) <= MaxVersions /\ Cardinality(S) >= MaxVersions \div 2
<1> DEFINE rest == DOMAIN list \ Kept(list)
           gone == Deleted(list)
<1>1. /\ DOMAIN list = 1 .. Len(list) /\ Len(list) \in Nat /\ Len(list) >= 3
      /\ MaxVersions \in Nat /\ MaxVersions >= 7
  BY MaxVersionsAssumption
<1>2. IsFiniteSet(DOMAIN list) /\ Cardinality(DOMAIN list) = Len(list)
  <2>1. IsFiniteSet(1 .. Len(list)) /\ Cardinality(1 .. Len(list)) = IF 1 > Len(list) THEN 0 ELSE Len(list) - 1 + 1
    BY <1>1, FS_Interval
  <2> QED BY <1>1, <2>1
<1>3. Kept(list) \subseteq DOMAIN list /\ IsFiniteSet(Kept(list)) /\ Cardinality(Kept(list)) <= 7 BY <1>1, KeptGives
<1>4. Cardinality(Kept(list)) \in Nat BY <1>3, FS_CardinalityType
<1>5. IsFiniteSet(rest) /\ Cardinality(rest) = Len(list) - Cardinality(Kept(list))
  <2>1. IsFiniteSet(rest) BY <1>2, FS_Difference
  <2>2. Cardinality(rest) = Cardinality(DOMAIN list) - Cardinality(DOMAIN list \cap Kept(list)) BY <1>2, FS_Difference
  <2>3. DOMAIN list \cap Kept(list) = Kept(list) BY <1>3
  <2> QED BY <1>2, <2>1, <2>2, <2>3
<1>6. gone \subseteq rest /\ IsFiniteSet(gone)
  <2>1. gone \subseteq rest BY DEF Deleted
  <2> QED BY <1>5, <2>1, FS_Subset
<1>7. S \subseteq DOMAIN list /\ Kept(list) \subseteq S BY <1>3, <1>6
<1>8. IsFiniteSet(S) /\ Cardinality(S) = Len(list) - Cardinality(gone)
  <2>1. IsFiniteSet(S) BY <1>2, FS_Difference
  <2>2. Cardinality(S) = Cardinality(DOMAIN list) - Cardinality(DOMAIN list \cap gone) BY <1>2, FS_Difference
  <2>3. DOMAIN list \cap gone = gone BY <1>6
  <2> QED BY <1>2, <2>1, <2>2, <2>3
<1>9. Cardinality(S) <= MaxVersions /\ Cardinality(S) >= MaxVersions \div 2
  <2>1. CASE Cardinality(Kept(list)) < MaxVersions \div 2
    <3>1. Len(list) - MaxVersions \in Nat /\ Len(list) - MaxVersions <= Cardinality(rest)
      BY <1>1, <1>4, <1>5, <2>1, HalfOfMax
    <3>2. gone = {i \in rest : Cardinality({j \in rest : j < i}) < Len(list) - MaxVersions}
      BY <2>1, Zenon DEF Deleted
    <3>3. rest \in SUBSET Nat BY <1>1
    <3>4. Cardinality(gone) = Len(list) - MaxVersions
      <4> HIDE DEF rest, gone
      <4> QED BY <1>5, <3>1, <3>2, <3>3, FirstOfMany
    <3> QED BY <1>1, <1>8, <3>4, HalfOfMax
  <2>2. CASE ~(Cardinality(Kept(list)) < MaxVersions \div 2)
    <3>1. gone = rest BY <2>2 DEF Deleted
    <3>2. S = Kept(list) BY <1>3, <3>1
    <3>3. Cardinality(S) = Cardinality(Kept(list)) BY <3>2
    <3>4. PICK m \in Nat : m = MaxVersions \div 2 BY HalfOfMax
    <3>5. Cardinality(S) >= m BY <1>4, <2>2, <3>3, <3>4
    <3>6. Cardinality(S) <= MaxVersions BY <1>1, <1>3, <1>4, <3>3
    <3> QED BY <3>4, <3>5, <3>6
  <2> QED BY <2>1, <2>2
<1>10. S \in SUBSET (Nat \ {0}) BY <1>1, <1>7
<1> QED BY <1>7, <1>8, <1>9, <1>10, FS_CardinalityType

\* A culled history: the k-th that stays is its k-th
LEMMA CullGives ==
  ASSUME NEW list \in Seq(Version), Len(list) > MaxVersions
  PROVE  \E S \in SUBSET (Nat \ {0}) :
           /\ IsFiniteSet(S) /\ Kept(list) \subseteq S /\ S \subseteq DOMAIN list
           /\ Cardinality(S) \in Nat /\ Cardinality(S) <= MaxVersions /\ Cardinality(S) >= MaxVersions \div 2
           /\ Cull(list) \in Seq(Version) /\ Len(Cull(list)) = Cardinality(S)
           /\ \A k \in 1 .. Cardinality(S) : Nth(S, k) \in S /\ Cull(list)[k] = list[Nth(S, k)]
<1> DEFINE S == DOMAIN list \ Deleted(list)
<1>2. /\ S \in SUBSET (Nat \ {0}) /\ IsFiniteSet(S) /\ Kept(list) \subseteq S /\ S \subseteq DOMAIN list
      /\ Cardinality(S) = Len(list) - Cardinality(Deleted(list))
      /\ Cardinality(S) \in Nat /\ Cardinality(S) <= MaxVersions /\ Cardinality(S) >= MaxVersions \div 2
  BY DeletedGives
<1>3. Cull(list) = [k \in 1 .. (Len(list) - Cardinality(Deleted(list))) |-> list[Nth(S, k)]]
  <2>1. ~(Len(list) <= MaxVersions)
    <3>1. Len(list) \in Nat /\ MaxVersions \in Nat BY MaxVersionsAssumption
    <3> QED BY <3>1
  <2> QED BY <2>1 DEF Cull, Nth
<1> HIDE DEF S
<1>4. Cull(list) = [k \in 1 .. Cardinality(S) |-> list[Nth(S, k)]] BY <1>2, <1>3
<1>5. ASSUME NEW k \in 1 .. Cardinality(S) PROVE Nth(S, k) \in S /\ list[Nth(S, k)] \in Version
  <2>1. S \in SUBSET Nat BY <1>2
  <2>2. Nth(S, k) \in S BY <1>2, <2>1, NthIs
  <2>3. \A i \in DOMAIN list : list[i] \in Version OBVIOUS
  <2> QED BY <1>2, <2>2, <2>3
<1>6. Cull(list) \in [1 .. Cardinality(S) -> Version] BY <1>4, <1>5
<1>7. Cull(list) \in Seq(Version) /\ Len(Cull(list)) = Cardinality(S) BY <1>2, <1>6
<1> QED BY <1>2, <1>4, <1>5, <1>7

\* A save: the new version before the others, and what culling leaves of them
LEMMA KeepGives ==
  ASSUME HistoryInv, Keep
  PROVE  /\ HistoryInv'
         /\ \A i \in 1 .. 2 : i <= Len(versionList) => versionList'[i + 1] = versionList[i]
         /\ \A span \in Spans :
              (\E i \in DOMAIN versionList : i >= 3 /\ versionList[i].age <= span) =>
              \E i \in DOMAIN versionList' : i > 3 /\ versionList'[i].age <= span
         /\ Len(versionList) >= MaxVersions \div 2 => Len(versionList') >= MaxVersions \div 2
<1> DEFINE new == [age |-> 1, first |-> FALSE]
<1>0. /\ versionList \in Seq(Version) /\ Len(versionList) \in Nat /\ Len(versionList) >= 1
      /\ DOMAIN versionList = 1 .. Len(versionList)
      /\ \A i \in 1 .. Len(versionList) : versionList[i] \in Version
  <2>1. versionList \in Seq(Version) BY Zenon DEF HistoryInv, HistoryTypeOK, Version
  <2>2. Len(versionList) >= 1 BY DEF HistoryInv
  <2> QED BY <2>1, <2>2
<1>1. PICK list \in Seq(Version) : list = <<new>> \o versionList
  <2>1. new \in Version BY DEF Version, Older
  <2> HIDE DEF new
  <2>2. <<new>> \in Seq(Version) BY <2>1
  <2>3. (<<new>> \o versionList) \in Seq(Version) BY <1>0, <2>2
  <2> QED BY <2>3
<1>2. /\ Len(list) = Len(versionList) + 1 /\ DOMAIN list = 1 .. (Len(versionList) + 1)
      /\ list[1] = new /\ \A i \in 1 .. Len(versionList) : list[i + 1] = versionList[i]
  BY <1>0, <1>1
<1>3. ASSUME NEW i \in DOMAIN list, i > 1
      PROVE  i - 1 \in 1 .. Len(versionList) /\ list[i] = versionList[i - 1]
  <2>1. i - 1 \in 1 .. Len(versionList) BY <1>0, <1>2, <1>3
  <2>2. list[(i - 1) + 1] = versionList[i - 1] BY <1>2, <2>1
  <2>3. (i - 1) + 1 = i BY <1>0, <1>2
  <2> QED BY <2>1, <2>2, <2>3
<1>4. Sorted(list)
  <2> SUFFICES ASSUME NEW i \in DOMAIN list, NEW j \in DOMAIN list, i < j PROVE list[i].age <= list[j].age
    BY DEF Sorted
  <2>1. list[j] \in Version BY <1>1
  <2>2. CASE i = 1 BY <1>2, <2>1, <2>2 DEF Version
  <2>3. CASE i > 1
    <3>1. i - 1 < j - 1 /\ j > 1 BY <1>0, <1>2, <2>3
    <3>2. i - 1 \in DOMAIN versionList /\ j - 1 \in DOMAIN versionList BY <1>0, <1>3, <2>3, <3>1
    <3>3. versionList[i - 1].age <= versionList[j - 1].age BY <3>1, <3>2 DEF HistoryInv, HistoryTypeOK
    <3> QED BY <1>3, <2>3, <3>1, <3>3
  <2> QED BY <1>0, <1>2, <2>2, <2>3
<1>5. \A i \in DOMAIN list : list[i].first <=> i = Len(list)
  <2> SUFFICES ASSUME NEW i \in DOMAIN list PROVE list[i].first <=> i = Len(list) OBVIOUS
  <2>1. CASE i = 1 BY <1>0, <1>2, <2>1
  <2>2. CASE i > 1
    <3>1. versionList[i - 1].first <=> i - 1 = Len(versionList) BY <1>0, <1>3, <2>2 DEF HistoryInv, FirstStays
    <3> QED BY <1>0, <1>2, <1>3, <2>2, <3>1
  <2> QED BY <1>0, <1>2, <2>1, <2>2
<1>6. versionList' = Cull(list) BY <1>1, Zenon DEF Keep
<1>7. ASSUME NEW span \in Spans, \E i \in DOMAIN versionList : i >= 3 /\ versionList[i].age <= span
      PROVE  \E i \in DOMAIN list : i > 3 /\ list[i].age <= span
  <2>1. PICK i \in 1 .. Len(versionList) : i >= 3 /\ versionList[i].age <= span BY <1>0, <1>7
  <2>2. i + 1 \in DOMAIN list /\ i + 1 > 3 /\ list[i + 1] = versionList[i] BY <1>0, <1>2, <2>1
  <2> QED BY <2>1, <2>2
<1>8. MaxVersions \in Nat /\ MaxVersions >= 7 BY MaxVersionsAssumption
<1>9. CASE Len(list) <= MaxVersions
  <2>1. versionList' = list BY <1>6, <1>9 DEF Cull
  <2>2. HistoryInv'
    <3>1. versionList' \in Seq(Version) /\ Sorted(versionList') BY <1>4, <2>1
    <3>2. HistoryTypeOK' BY <3>1 DEF HistoryTypeOK, Sorted, Version
    <3>3. FirstStays' BY <1>5, <1>9, <2>1 DEF FirstStays
    <3> QED BY <1>0, <1>2, <2>1, <3>2, <3>3 DEF HistoryInv
  <2>3. \A span \in Spans :
          (\E i \in DOMAIN versionList : i >= 3 /\ versionList[i].age <= span) =>
          \E i \in DOMAIN versionList' : i > 3 /\ versionList'[i].age <= span
    BY <1>7, <2>1
  <2>4. \A i \in 1 .. 2 : i <= Len(versionList) => versionList'[i + 1] = versionList[i] BY <1>0, <1>2, <2>1
  <2>5. Len(versionList) >= MaxVersions \div 2 => Len(versionList') >= MaxVersions \div 2
    <3>1. PICK m \in Nat : m = MaxVersions \div 2 BY HalfOfMax
    <3> QED BY <1>0, <1>2, <2>1, <3>1
  <2> QED BY <2>2, <2>3, <2>4, <2>5
<1>10. CASE Len(list) > MaxVersions
  <2>1. PICK S \in SUBSET (Nat \ {0}) :
          /\ IsFiniteSet(S) /\ Kept(list) \subseteq S /\ S \subseteq DOMAIN list
          /\ Cardinality(S) \in Nat /\ Cardinality(S) <= MaxVersions /\ Cardinality(S) >= MaxVersions \div 2
          /\ Cull(list) \in Seq(Version) /\ Len(Cull(list)) = Cardinality(S)
          /\ \A k \in 1 .. Cardinality(S) : Nth(S, k) \in S /\ Cull(list)[k] = list[Nth(S, k)]
    BY <1>10, CullGives
  <2>2. PICK n \in Nat : n = Cardinality(S) BY <2>1
  <2>3. /\ versionList' \in Seq(Version) /\ Len(versionList') = n /\ DOMAIN versionList' = 1 .. n
        /\ \A k \in 1 .. n : Nth(S, k) \in DOMAIN list /\ versionList'[k] = list[Nth(S, k)]
    BY <1>6, <2>1, <2>2
  <2>4. /\ 1 .. 3 \subseteq S /\ Len(list) \in S
        /\ \A span \in Spans : (\E i \in DOMAIN list : i > 3 /\ list[i].age <= span) =>
              \E i \in S : i > 3 /\ list[i].age <= span
    <3>1. Len(list) >= 3 BY <1>0, <1>2, <1>8, <1>10
    <3> QED BY <2>1, <3>1, KeptGives
  <2>5. S \in SUBSET Nat /\ 0 \notin S BY <2>1
  <2>6. \A k, l \in 1 .. n : k < l => Nth(S, k) < Nth(S, l) BY <2>1, <2>2, <2>5, NthOrder
  <2>7. n >= 1 /\ Nth(S, n) = Len(list)
    <3>1. \A j \in S : j <= Len(list) BY <1>0, <1>2, <2>1
    <3> QED BY <2>1, <2>2, <2>4, <2>5, <3>1, NthOfLast
  <2>8. ASSUME NEW i \in 1 .. 3 PROVE i \in 1 .. n /\ Nth(S, i) = i
    <3>1. 1 .. i \subseteq S BY <2>4
    <3> QED BY <2>1, <2>2, <2>5, <3>1, NthOfFirst
  <2>9. Sorted(versionList')
    <3> SUFFICES ASSUME NEW k \in 1 .. n, NEW l \in 1 .. n, k < l
                 PROVE  versionList'[k].age <= versionList'[l].age
      BY <2>3 DEF Sorted
    <3> QED BY <1>4, <2>3, <2>6 DEF Sorted
  <2>10. \A k \in 1 .. n : versionList'[k].first <=> k = n
    <3> SUFFICES ASSUME NEW k \in 1 .. n PROVE versionList'[k].first <=> k = n OBVIOUS
    <3>1. versionList'[k].first <=> Nth(S, k) = Len(list) BY <1>5, <2>3
    <3>2. n \in 1 .. n BY <2>7
    <3>3. k # n => Nth(S, k) < Len(list) BY <2>6, <2>7, <3>2
    <3> QED BY <1>0, <1>2, <2>7, <3>1, <3>3
  <2>11. HistoryInv'
    BY <1>0, <1>8, <2>1, <2>2, <2>3, <2>7, <2>9, <2>10 DEF HistoryInv, HistoryTypeOK, FirstStays, Sorted, Version
  <2>12. \A i \in 1 .. 2 : i <= Len(versionList) => versionList'[i + 1] = versionList[i]
    <3> SUFFICES ASSUME NEW i \in 1 .. 2, i <= Len(versionList) PROVE versionList'[i + 1] = versionList[i] OBVIOUS
    <3>1. i + 1 \in 1 .. 3 /\ i \in 1 .. Len(versionList) BY <1>0
    <3>2. i + 1 \in 1 .. n /\ Nth(S, i + 1) = i + 1 BY <2>8, <3>1
    <3>3. versionList'[i + 1] = list[i + 1] BY <2>3, <3>2
    <3> QED BY <1>2, <3>1, <3>3
  <2>13. ASSUME NEW span \in Spans, \E i \in DOMAIN versionList : i >= 3 /\ versionList[i].age <= span
         PROVE  \E i \in DOMAIN versionList' : i > 3 /\ versionList'[i].age <= span
    <3>1. PICK i \in S : i > 3 /\ list[i].age <= span BY <1>7, <2>4, <2>13
    <3>2. PICK k \in 1 .. n : k = Rank(S, i) BY <2>1, <2>2, <2>5, RankOrder
    <3>3. PICK j \in S : j = Nth(S, k) BY <2>1, <2>2
    <3>4. Rank(S, j) = Rank(S, i) BY <2>1, <2>2, <2>5, <3>2, <3>3, NthIs
    <3>5. j = i BY <2>1, <2>5, <3>4, RankUnique
    <3>6. k > 3
      <4>1. 3 \in 1 .. n /\ Nth(S, 3) = 3 BY <2>8
      <4>2. \A l \in 1 .. n : l \in Nat OBVIOUS
      <4>5. PICK q \in 1 .. n : q = 3 BY <4>1
      <4>6. i \in Nat /\ Nth(S, k) = i /\ Nth(S, q) = 3 BY <3>3, <3>5, <4>1, <4>5
      <4>3. ~(k < 3)
        <5>1. k < q => Nth(S, k) < Nth(S, q) BY <2>6
        <5> QED BY <3>1, <4>5, <4>6, <5>1
      <4>4. k # 3 BY <3>1, <4>5, <4>6
      <4> QED BY <4>2, <4>3, <4>4
    <3> QED BY <2>3, <3>1, <3>3, <3>5, <3>6
  <2>14. Len(versionList') >= MaxVersions \div 2 BY <2>1, <2>2, <2>3
  <2> QED BY <2>11, <2>12, <2>13, <2>14
<1> QED BY <1>0, <1>2, <1>8, <1>9, <1>10

LEMMA GrowKeeps == ASSUME HistoryInv, NEW i \in DOMAIN versionList, Grow(i) PROVE HistoryInv'
<1>1. versionList \in Seq(Version) /\ Len(versionList) >= 1 BY Zenon DEF HistoryInv, HistoryTypeOK, Version
<1>2. /\ DOMAIN versionList = 1 .. Len(versionList) /\ Len(versionList) \in Nat
      /\ \A j \in 1 .. Len(versionList) : versionList[j] \in Version
  BY <1>1
<1>3. PICK v \in Version : v = versionList[i] BY <1>2
<1>4. v.age < Older /\ versionList' = [versionList EXCEPT ![i] = [v EXCEPT !.age = @ + 1]]
  BY <1>3 DEF Grow
<1>5. PICK w : w = [v EXCEPT !.age = @ + 1] OBVIOUS
<1>6. w \in Version /\ w.age = v.age + 1 /\ w.first = v.first
  <2>1. v.age + 1 \in 1 .. Older BY <1>4 DEF Version, Older
  <2> QED BY <1>5, <2>1 DEF Version
<1>7. /\ DOMAIN versionList' = 1 .. Len(versionList) /\ versionList'[i] = w
      /\ \A j \in 1 .. Len(versionList) : j # i => versionList'[j] = versionList[j]
  BY <1>2, <1>4, <1>5
<1>8. versionList' \in Seq(Version) /\ Len(versionList') = Len(versionList)
  <2>1. versionList' \in [1 .. Len(versionList) -> Version] BY <1>2, <1>4, <1>5, <1>6
  <2> QED BY <1>2, <2>1
<1>9. Sorted(versionList')
  <2> SUFFICES ASSUME NEW j \in 1 .. Len(versionList), NEW k \in 1 .. Len(versionList), j < k
               PROVE  versionList'[j].age <= versionList'[k].age
    BY <1>7 DEF Sorted
  <2>1. versionList[j].age <= versionList[k].age BY <1>2 DEF HistoryInv, HistoryTypeOK
  <2>2. versionList[j].age \in Int /\ versionList[k].age \in Int BY <1>2 DEF Version, Older
  <2>3. CASE j = i
    <3>1. versionList[k].age > v.age BY <1>2, <1>3, <2>3 DEF Grow
    <3> QED BY <1>3, <1>6, <1>7, <2>2, <2>3, <3>1
  <2>4. CASE k = i BY <1>3, <1>6, <1>7, <2>1, <2>2, <2>4
  <2>5. CASE j # i /\ k # i BY <1>7, <2>1, <2>5
  <2> QED BY <2>3, <2>4, <2>5
<1>10. \A j \in 1 .. Len(versionList) : versionList'[j].first = versionList[j].first BY <1>3, <1>6, <1>7
<1>11. FirstStays' BY <1>2, <1>7, <1>8, <1>10 DEF HistoryInv, FirstStays
<1>12. HistoryTypeOK' BY <1>8, <1>9 DEF HistoryTypeOK, Sorted, Version
<1> QED BY <1>1, <1>8, <1>11, <1>12 DEF HistoryInv

LEMMA HistoryInitInv == HistoryInit => HistoryInv
<1> SUFFICES ASSUME HistoryInit PROVE HistoryInv OBVIOUS
<1>1. PICK v \in Version : v = [age |-> 1, first |-> TRUE]
  <2>1. [age |-> 1, first |-> TRUE] \in Version BY DEF Version, Older
  <2> QED BY <2>1
<1>2. versionList = <<v>> BY <1>1 DEF HistoryInit
<1>3. /\ versionList \in Seq(Version) /\ Len(versionList) = 1 /\ DOMAIN versionList = {1} /\ versionList[1] = v
  BY <1>2
<1>4. v.first = TRUE BY <1>1
<1> QED BY <1>3, <1>4, MaxVersionsAssumption DEF HistoryInv, HistoryTypeOK, FirstStays, Version

LEMMA HistoryInductive == HistoryInv /\ [HistoryNext]_versionList => HistoryInv'
<1> SUFFICES ASSUME HistoryInv, [HistoryNext]_versionList PROVE HistoryInv' OBVIOUS
<1>1. CASE versionList' = versionList BY <1>1 DEF HistoryInv, HistoryTypeOK, FirstStays
<1>2. CASE Keep BY <1>2, KeepGives
<1>3. CASE \E i \in DOMAIN versionList : Grow(i) BY <1>3, GrowKeeps
<1> QED BY <1>1, <1>2, <1>3 DEF HistoryNext

\* However often a worksheet's history is culled, it ends with its first version, has no more
\* versions than it may, keeps the newest two and one for each span that had one, and never
\* falls below half of what it may have.
THEOREM HistoryHolds == HistorySpec => [](HistoryTypeOK /\ FirstStays) /\ SpansStay
<1>1. HistorySpec => []HistoryInv BY HistoryInitInv, HistoryInductive, PTL DEF HistorySpec
<1>2. HistoryInv /\ [HistoryNext]_versionList =>
        [Keep =>
           /\ \A i \in 1 .. 2 : i <= Len(versionList) => versionList'[i + 1] = versionList[i]
           /\ \A span \in Spans :
                (\E i \in DOMAIN versionList : i >= 3 /\ versionList[i].age <= span) =>
                \E i \in DOMAIN versionList' : i > 3 /\ versionList'[i].age <= span
           /\ Len(versionList) >= MaxVersions \div 2 => Len(versionList') >= MaxVersions \div 2]_versionList
  BY KeepGives, Zenon
<1>3. HistoryInv => HistoryTypeOK /\ FirstStays BY DEF HistoryInv
<1> QED BY <1>1, <1>2, <1>3, PTL DEF HistorySpec, SpansStay
-----------------------------------------------------------------------------
(* The workspace *)

\* A step of the whole is a step of each part, or leaves it alone
LEMMA PartsStep ==
  [MembersNext]_memberVars =>
    /\ [InvitationNext]_invitationVars /\ [CodeNext]_codeVars
    /\ [SheetsNext]_sheetVars /\ [HistoryNext]_versionList /\ [ImagesNext]_imageVars
<1> SUFFICES ASSUME [MembersNext]_memberVars
             PROVE  /\ InvitationNext \/ UNCHANGED invitationVars
                    /\ CodeNext \/ UNCHANGED codeVars
                    /\ SheetsNext \/ UNCHANGED sheetVars
                    /\ HistoryNext \/ UNCHANGED versionList
                    /\ ImagesNext \/ UNCHANGED imageVars
  OBVIOUS
<1> QED BY Zenon DEF MembersNext, memberVars, joinVars, rowVars

\* What the workspace's parts promise beside its members: invitations, login codes, worksheets,
\* their versions and images are what was written last, but for calls that overlap as named.
THEOREM RowsForCauseHolds == MembersSpec => RowsForCause
<1>1. MembersInit => InvitationInit /\ CodeInit /\ SheetsInit /\ HistoryInit /\ ImagesInit BY DEF MembersInit
<1>2. MembersSpec => InvitationSpec /\ CodeSpec /\ SheetsSpec /\ HistorySpec /\ ImagesSpec
  BY <1>1, PartsStep, PTL DEF MembersSpec, InvitationSpec, CodeSpec, SheetsSpec, HistorySpec, ImagesSpec
<1> QED
  BY <1>2, InvitationsHold, CodesHold, WorksheetsHold, HistoryHolds, ImagesHold, PTL DEF RowsForCause
=============================================================================
