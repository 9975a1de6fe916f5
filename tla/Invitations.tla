----------------------------- MODULE Invitations -----------------------------
(***************************************************************************)
(* The invitations of a workspace: an admin makes one or is handed the one *)
(* there is, and whoever has its token joins.                              *)
(*   api/accounts/api_workspace.py create_or_get_invitation                *)
(*   api/accounts/api_identity.py join_workspace                           *)
(* Neither locks what it has read.                                         *)
(***************************************************************************)
EXTENDS Naturals, FiniteSets, FiniteSetsExt

CONSTANTS
  LastInvite,  \* invitations are numbered in the order of their random ids
  Identities,  \* people who may join
  MaxUses,     \* the bound an invitation may have; 0 stands for none
  AdminCalls,  \* calls of create_or_get_invitation
  JoinCalls    \* calls of join_workspace

ASSUME InvitationsAssumption == LastInvite \in Nat \ {0} /\ MaxUses \in Nat

InviteIds == 1 .. LastInvite
NoInvite == 0
NoOne == "no one"

VARIABLES
  invite,     \* WorkspaceInvitation
  joined,     \* users of the workspace
  usage,      \* InvitationUsage: who joined by an invitation
  asking,     \* what each admin's call has read, and its answer
  joining,    \* what each joining call has read
  collisions  \* invitations made, or used, by calls that overlapped another

invitationVars == <<invite, joined, usage, asking, joining, collisions>>

Unissued == [made |-> FALSE, revoked |-> FALSE, expires |-> FALSE, expired |-> FALSE, max |-> 0, uses |-> 0]
Invitation == [made : BOOLEAN, revoked : BOOLEAN, expires : BOOLEAN, expired : BOOLEAN,
               max : 0 .. MaxUses, uses : Nat]
NotAsking == [pc |-> "free", read |-> NoInvite, force |-> FALSE, beside |-> FALSE, answer |-> NoInvite]
Asking == [pc : {"free", "looked", "create", "over"}, read : 0 .. LastInvite, force : BOOLEAN,
           beside : BOOLEAN, answer : 0 .. LastInvite]
NotJoining == [pc |-> "free", who |-> NoOne, by |-> NoInvite, uses |-> 0]
Joining == [pc : {"free", "checked", "joined", "refused"}, who : Identities \cup {NoOne},
            by : 0 .. LastInvite, uses : Nat]

InvitationTypeOK ==
  /\ invite \in [InviteIds -> Invitation]
  /\ joined \subseteq Identities
  /\ usage \in [InviteIds -> SUBSET joined]
  /\ \A i \in InviteIds : invite[i].max # 0 => invite[i].uses <= invite[i].max
  /\ asking \in [AdminCalls -> Asking] /\ joining \in [JoinCalls -> Joining]
  /\ collisions \subseteq (InviteIds \cup {NoInvite})

InvitationInit ==
  /\ invite = [i \in InviteIds |-> Unissued]
  /\ joined = {} /\ usage = [i \in InviteIds |-> {}]
  /\ asking = [a \in AdminCalls |-> NotAsking]
  /\ joining = [j \in JoinCalls |-> NotJoining]
  /\ collisions = {}
-----------------------------------------------------------------------------
\* Mutant: revoked ones as well
EveryInvite == {i \in InviteIds : invite[i].made}

\* filter(revoked_at__isnull=True): what has expired or is used up is among them
Standing == {i \in InviteIds : invite[i].made /\ ~invite[i].revoked}

\* is_valid
Valid(i) ==
  /\ i \in Standing /\ ~invite[i].expired
  /\ invite[i].max # 0 => invite[i].uses < invite[i].max

\* create_or_get_invitation: .first() of those that stand
Look(a, force) ==
  /\ asking[a].pc = "free"
  /\ LET first == IF Standing = {} THEN NoInvite ELSE Min(Standing)
     IN  asking' = [asking EXCEPT ![a] =
           [pc |-> IF first = NoInvite THEN "create" ELSE "looked", read |-> first, force |-> force,
            beside |-> \E b \in AdminCalls : asking[b].pc \in {"looked", "create"}, answer |-> NoInvite]]
  /\ UNCHANGED <<invite, joined, usage, joining, collisions>>

\* It is handed out as it is
HandOut(a) ==
  /\ asking[a].pc = "looked" /\ ~asking[a].force
  /\ asking' = [asking EXCEPT ![a].pc = "over", ![a].answer = asking[a].read]
  /\ UNCHANGED <<invite, joined, usage, joining, collisions>>

\* Mutant: without revoking it
ForceOnly(a) ==
  /\ asking[a].pc = "looked" /\ asking[a].force
  /\ asking' = [asking EXCEPT ![a].pc = "create"]
  /\ UNCHANGED <<invite, joined, usage, joining, collisions>>

\* force: the one that was read is revoked, saving that column alone
Revoke(a) ==
  /\ asking[a].pc = "looked" /\ asking[a].force
  /\ invite' = [invite EXCEPT ![asking[a].read].revoked = TRUE]
  /\ asking' = [asking EXCEPT ![a].pc = "create"]
  /\ UNCHANGED <<joined, usage, joining, collisions>>

\* The new one, with a random id
Issue(a, i, max, expires) ==
  /\ asking[a].pc = "create" /\ ~invite[i].made
  /\ invite' = [invite EXCEPT ![i] = [Unissued EXCEPT !.made = TRUE, !.max = max, !.expires = expires]]
  /\ asking' = [b \in AdminCalls |->
       IF b = a THEN [asking[a] EXCEPT !.pc = "over", !.answer = i]
       ELSE [asking[b] EXCEPT !.beside = @ \/ asking[b].pc \in {"looked", "create"}]]
  /\ collisions' = IF asking[a].beside THEN collisions \cup {NoInvite} ELSE collisions
  /\ UNCHANGED <<joined, usage, joining>>

Expire(i) ==
  /\ invite[i].expires /\ ~invite[i].expired
  /\ invite' = [invite EXCEPT ![i].expired = TRUE]
  /\ UNCHANGED <<joined, usage, asking, joining, collisions>>
-----------------------------------------------------------------------------
\* Mutant: without looking whether it is valid
CheckNothing(j, who, i) ==
  /\ joining[j].pc = "free" /\ who \notin joined /\ invite[i].made
  /\ joining' = [joining EXCEPT ![j] = [pc |-> "checked", who |-> who, by |-> i, uses |-> invite[i].uses]]
  /\ UNCHANGED <<invite, joined, usage, asking, collisions>>

\* join_workspace reads the person's user and the invitation, and checks both
Check(j, who, i) ==
  /\ joining[j].pc = "free" /\ who \notin joined /\ Valid(i)
  /\ joining' = [joining EXCEPT ![j] = [pc |-> "checked", who |-> who, by |-> i, uses |-> invite[i].uses]]
  /\ UNCHANGED <<invite, joined, usage, asking, collisions>>

\* One transaction: the user, the count that was read plus one, the usage
JoinByInvite(j) ==
  LET i == joining[j].by
  IN  /\ joining[j].pc = "checked" /\ joining[j].who \notin joined
      /\ joined' = joined \cup {joining[j].who}
      /\ usage' = [usage EXCEPT ![i] = @ \cup {joining[j].who}]
      /\ invite' = [invite EXCEPT ![i].uses = joining[j].uses + 1]
      /\ collisions' = IF Cardinality(usage[i]) # joining[j].uses THEN collisions \cup {i} ELSE collisions
      /\ joining' = [joining EXCEPT ![j].pc = "joined"]
      /\ UNCHANGED asking

\* unique_together(identity, workspace): the transaction is rolled back
JoinTwice(j) ==
  /\ joining[j].pc = "checked" /\ joining[j].who \in joined
  /\ joining' = [joining EXCEPT ![j].pc = "refused"]
  /\ UNCHANGED <<invite, joined, usage, asking, collisions>>

\* Without a token: the domain of the person's address is allowed
JoinByDomain(who) ==
  /\ who \notin joined /\ joined' = joined \cup {who}
  /\ UNCHANGED <<invite, usage, asking, joining, collisions>>

InvitationNext ==
  \/ \E a \in AdminCalls :
       \/ \E force \in BOOLEAN : Look(a, force)
       \/ HandOut(a) \/ Revoke(a)
       \/ \E i \in InviteIds, max \in 0 .. MaxUses, expires \in BOOLEAN : Issue(a, i, max, expires)
  \/ \E i \in InviteIds : Expire(i)
  \/ \E j \in JoinCalls :
       JoinByInvite(j) \/ JoinTwice(j) \/ \E who \in Identities, i \in InviteIds : Check(j, who, i)
  \/ \E who \in Identities : JoinByDomain(who)

InvitationSpec == InvitationInit /\ [][InvitationNext]_invitationVars
-----------------------------------------------------------------------------
(* What may be expected of it *)

\* More people join by an invitation than it allows only when the joins of some overlapped:
\* both read one count and both wrote the same sum.
OverusedForCause ==
  \A i \in InviteIds :
    /\ invite[i].uses = Cardinality(usage[i]) \/ i \in collisions
    /\ invite[i].max # 0 /\ Cardinality(usage[i]) > invite[i].max => i \in collisions

\* A workspace has one invitation that stands, unless two admins' calls overlapped.
OneStands == Cardinality(Standing) > 1 => NoInvite \in collisions

\* Somebody joins by an invitation that is revoked, expired or used up only when it was
\* still valid as the same call read it.
ShutForCause ==
  [][\A i \in InviteIds : usage'[i] # usage[i] /\ ~Valid(i) =>
       \E j \in JoinCalls : joining[j].by = i /\ joining[j].pc = "checked"
                             /\ (invite[i].max # 0 => joining[j].uses < invite[i].max)]_invitationVars

\* An admin is handed an invitation nobody can use only when it is an old one, or another
\* call revoked it meanwhile: the one that stands is not looked at more closely.
HandedForCause ==
  [][\A a \in AdminCalls, i \in InviteIds :
       asking'[a].pc = "over" /\ asking[a].pc # "over" /\ asking'[a].answer = i =>
         invite'[i].made /\ (~Valid(i)' => ~asking[a].force /\ asking[a].read = i)
           /\ (invite'[i].revoked => \E b \in AdminCalls \ {a} : asking[b].force /\ asking[b].read = i)]_invitationVars
=============================================================================
