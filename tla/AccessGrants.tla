---------------------------- MODULE AccessGrants ----------------------------
(***************************************************************************)
(* Who may query one database account.                                     *)
(*                                                                         *)
(* An Access row names a user or a group.  An admin inserts it as a grant, *)
(* or a user inserts it as a request that an admin approves or denies; an  *)
(* admin may revoke either.  Rows of different accounts never meet, so one *)
(* account is modelled.  Admins have access without a row and are not in   *)
(* Users.                                                                  *)
(*                                                                         *)
(* Each handler reads first and writes later, in a transaction of its own: *)
(* what it read may have changed meanwhile.                                *)
(***************************************************************************)
EXTENDS Naturals, FiniteSets

CONSTANTS
  Users,     \* members who are not admins
  Groups,    \* user groups
  RowIds,    \* primary keys of Access rows: as many rows as are ever inserted
  Workers,   \* API workers, each serving one request at a time
  Timeouts,  \* the values of timeout_hours a request may carry
  Ends,      \* the values of granted_until a grant may carry
  MaxTime,   \* bound on the clock
  NoEnd      \* granted_until is null

ASSUME TimeAssumption == /\ Timeouts \subseteq Nat \ {0} /\ Ends \subseteq Nat
                         /\ MaxTime \in Nat /\ NoEnd \notin Nat
ASSUME SubjectAssumption == Users \cap Groups = {}
ASSUME WorkersAssumption == IsFiniteSet(Workers)

VARIABLES
  now,      \* the clock, in hours
  used,     \* primary keys ever given to a row
  ids,      \* rows that exist
  rows,     \* the rows
  groups,   \* groups that exist
  members,  \* the memberships of each group
  req       \* the request each worker is serving

vars == <<now, used, ids, rows, groups, members, req>>
tables == <<used, ids, rows, groups, members>>

Subjects == Users \cup Groups
Verdicts == {"approve", "deny"}
None == "none"

Row == [subject : Subjects \cup {None}, mode : {"admin_set", "requested"}, asked : Nat,
        granted : BOOLEAN, denied : BOOLEAN, revoked : BOOLEAN, until : Nat \cup {NoEnd}]

Request == [pc : {"idle", "grant", "request", "review", "review_commit", "revoke"},
            subject : Subjects \cup {None}, until : Nat \cup {NoEnd},
            row : RowIds \cup {None}, verdict : Verdicts \cup {None}]

Idle == [pc |-> "idle", subject |-> None, until |-> NoEnd, row |-> None, verdict |-> None]

Blank == [subject |-> None, mode |-> "admin_set", asked |-> 0,
          granted |-> FALSE, denied |-> FALSE, revoked |-> FALSE, until |-> NoEnd]

TypeOK ==
  /\ now \in Nat
  /\ used \subseteq RowIds /\ ids \subseteq used
  /\ rows \in [RowIds -> Row]
  /\ groups \subseteq Groups
  /\ members \in [Groups -> SUBSET Users]
  /\ req \in [Workers -> Request]
  /\ \A i \in ids : rows[i].subject \in Users \cup groups
-----------------------------------------------------------------------------
(***************************************************************************)
(* Queries                                                                 *)
(***************************************************************************)
Expired(i) == rows[i].until # NoEnd /\ rows[i].until <= now

\* The filter of check_account_access and of get_accessible_accounts
Effective(i) == i \in ids /\ rows[i].granted /\ ~rows[i].revoked /\ ~Expired(i)

HasAccess(u) ==
  \E i \in RowIds :
    /\ Effective(i)
    /\ \/ rows[i].subject = u
       \/ \E g \in groups : rows[i].subject = g /\ u \in members[g]

\* The existing access that makes grant_access refuse
Unrevoked(s) == {i \in ids : rows[i].subject = s /\ ~rows[i].revoked}

\* The existing access that makes request_access refuse
Open(s) == {i \in Unrevoked(s) : ~rows[i].denied}

Pending(i) ==
  /\ i \in ids /\ rows[i].mode = "requested"
  /\ ~rows[i].granted /\ ~rows[i].denied /\ ~rows[i].revoked

\* The status the request history shows
Status(i) ==
  CASE rows[i].revoked -> "revoked"
    [] ~rows[i].revoked /\ rows[i].denied -> "denied"
    [] ~rows[i].revoked /\ ~rows[i].denied /\ rows[i].granted ->
         IF rows[i].until # NoEnd /\ rows[i].until < now THEN "expired" ELSE "approved"
    [] OTHER -> "pending"
-----------------------------------------------------------------------------
Init ==
  /\ now = 0
  /\ used = {} /\ ids = {} /\ rows = [i \in RowIds |-> Blank]
  /\ groups = Groups /\ members = [g \in Groups |-> {}]
  /\ req = [w \in Workers |-> Idle]

Begin(w, r) == req[w].pc = "idle" /\ req' = [req EXCEPT ![w] = r]

Return(w) == req' = [req EXCEPT ![w] = Idle]

Insert(i, r) ==
  /\ i \notin used
  /\ used' = used \cup {i} /\ ids' = ids \cup {i}
  /\ rows' = [rows EXCEPT ![i] = r]

\* A transaction that has updated a row keeps it locked until it commits
Locked(i) == \E w \in Workers : req[w].pc = "review_commit" /\ req[w].row = i

Tick == now < MaxTime /\ now' = now + 1 /\ UNCHANGED <<tables, req>>

(***************************************************************************)
(* POST /access/grant                                                      *)
(***************************************************************************)
GrantCheck(w, s, until) ==
  /\ s \in Users \cup groups
  /\ Unrevoked(s) = {}
  /\ Begin(w, [Idle EXCEPT !.pc = "grant", !.subject = s, !.until = until])
  /\ UNCHANGED <<now, tables>>

\* The insert fails on its foreign key when the group is gone
GrantInsert(w, i) ==
  /\ req[w].pc = "grant"
  /\ IF req[w].subject \in Users \cup groups
     THEN Insert(i, [Blank EXCEPT !.subject = req[w].subject, !.asked = now, !.granted = TRUE,
                                  !.until = req[w].until])
     ELSE UNCHANGED <<used, ids, rows>>
  /\ Return(w)
  /\ UNCHANGED <<now, groups, members>>

(***************************************************************************)
(* POST /access/request: the end of the access counts from the request     *)
(***************************************************************************)
\* Mutant: only a pending request stands in the way of another
RequestUnlessPending(w, u, hours) ==
  /\ {i \in Open(u) : ~rows[i].granted} = {}
  /\ Begin(w, [Idle EXCEPT !.pc = "request", !.subject = u, !.until = now + hours])
  /\ UNCHANGED <<now, tables>>

RequestCheck(w, u, hours) ==
  /\ Open(u) = {}
  /\ Begin(w, [Idle EXCEPT !.pc = "request", !.subject = u, !.until = now + hours])
  /\ UNCHANGED <<now, tables>>

RequestInsert(w, i) ==
  /\ req[w].pc = "request"
  /\ Insert(i, [Blank EXCEPT !.subject = req[w].subject, !.mode = "requested", !.asked = now,
                             !.until = req[w].until])
  /\ Return(w)
  /\ UNCHANGED <<now, groups, members>>
-----------------------------------------------------------------------------
(***************************************************************************)
(* POST /access/approve and POST /access/deny: read and validate; update   *)
(* the row; commit.                                                        *)
(***************************************************************************)
ReviewRead(w, i, verdict) ==
  /\ Pending(i)
  /\ Begin(w, [Idle EXCEPT !.pc = "review", !.row = i, !.verdict = verdict])
  /\ UNCHANGED <<now, tables>>

ReviewUpdate(w) ==
  /\ req[w].pc = "review"
  /\ ~Locked(req[w].row)
  /\ req' = [req EXCEPT ![w].pc = "review_commit"]
  /\ UNCHANGED <<now, tables>>

\* Mutant: the whole copy is saved, with the revoked_at it was read with
ReviewSaveAll(w) ==
  LET r == req[w] IN
  /\ r.pc = "review_commit"
  /\ rows' = [rows EXCEPT ![r.row] =
                IF r.verdict = "approve" THEN [@ EXCEPT !.granted = TRUE, !.revoked = FALSE]
                ELSE [@ EXCEPT !.denied = TRUE, !.revoked = FALSE]]
  /\ Return(w)
  /\ UNCHANGED <<now, used, ids, groups, members>>

\* Mutant: the timeout is counted from the approval
ReviewExtends(w) ==
  LET r == req[w] IN
  /\ r.pc = "review_commit"
  /\ rows' = [rows EXCEPT ![r.row] =
                IF r.verdict = "approve"
                THEN [@ EXCEPT !.granted = TRUE, !.until = now + (@ - rows[r.row].asked)]
                ELSE [@ EXCEPT !.denied = TRUE]]
  /\ Return(w)
  /\ UNCHANGED <<now, used, ids, groups, members>>

ReviewCommit(w) ==
  LET r == req[w] IN
  /\ r.pc = "review_commit"
  /\ rows' = [rows EXCEPT ![r.row] =
                IF r.verdict = "approve" THEN [@ EXCEPT !.granted = TRUE]
                ELSE [@ EXCEPT !.denied = TRUE]]
  /\ Return(w)
  /\ UNCHANGED <<now, used, ids, groups, members>>

(***************************************************************************)
(* POST /access/revoke                                                     *)
(***************************************************************************)
RevokeRead(w, i) ==
  /\ i \in ids /\ ~rows[i].revoked
  /\ Begin(w, [Idle EXCEPT !.pc = "revoke", !.row = i])
  /\ UNCHANGED <<now, tables>>

\* An update that finds no row any more raises and changes nothing
RevokeSave(w) ==
  LET i == req[w].row IN
  /\ req[w].pc = "revoke"
  /\ ~Locked(i)
  /\ rows' = IF i \in ids THEN [rows EXCEPT ![i].revoked = TRUE] ELSE rows
  /\ Return(w)
  /\ UNCHANGED <<now, used, ids, groups, members>>
-----------------------------------------------------------------------------
(***************************************************************************)
(* Groups: deleting one deletes its memberships and its access rows        *)
(***************************************************************************)
AddMember(g, u) ==
  /\ g \in groups
  /\ members' = [members EXCEPT ![g] = @ \cup {u}]
  /\ UNCHANGED <<now, used, ids, rows, groups, req>>

RemoveMember(g, u) ==
  /\ g \in groups /\ u \in members[g]
  /\ members' = [members EXCEPT ![g] = @ \ {u}]
  /\ UNCHANGED <<now, used, ids, rows, groups, req>>

\* Mutant: the access rows of the group stay
DeleteGroupOnly(g) ==
  /\ g \in groups
  /\ groups' = groups \ {g} /\ members' = [members EXCEPT ![g] = {}]
  /\ UNCHANGED <<now, used, ids, rows, req>>

DeleteGroup(g) ==
  /\ g \in groups
  /\ groups' = groups \ {g}
  /\ members' = [members EXCEPT ![g] = {}]
  /\ ids' = {i \in ids : rows[i].subject # g}
  /\ UNCHANGED <<now, used, rows, req>>

\* The worker dies: its transaction, if any, is rolled back
Crash(w) ==
  /\ req[w].pc # "idle"
  /\ Return(w)
  /\ UNCHANGED <<now, tables>>

Handle(w) ==
  \/ \E s \in Subjects, until \in Ends \cup {NoEnd} : GrantCheck(w, s, until)
  \/ \E u \in Users, hours \in Timeouts : RequestCheck(w, u, hours)
  \/ \E i \in RowIds : GrantInsert(w, i) \/ RequestInsert(w, i) \/ RevokeRead(w, i)
  \/ \E i \in RowIds, verdict \in Verdicts : ReviewRead(w, i, verdict)
  \/ ReviewUpdate(w)
  \/ ReviewCommit(w)
  \/ RevokeSave(w)
  \/ Crash(w)

Next ==
  \/ Tick
  \/ \E g \in Groups, u \in Users : AddMember(g, u) \/ RemoveMember(g, u)
  \/ \E g \in Groups : DeleteGroup(g)
  \/ \E w \in Workers : Handle(w)

Spec == Init /\ [][Next]_vars
-----------------------------------------------------------------------------
(***************************************************************************)
(* Properties                                                              *)
(***************************************************************************)
\* A row gives access in one unbroken stretch of time: AccessLease
phase == [i \in RowIds |->
            CASE i \notin used -> "before"
              [] i \in used /\ (i \notin ids \/ rows[i].revoked \/ Expired(i)) -> "after"
              [] OTHER -> IF rows[i].granted THEN "during" ELSE "before"]

Lease == INSTANCE AccessLease WITH RowIds <- RowIds, phase <- phase
\* Once access through a row has ended, by revocation, by its end date or with its
\* group, no approval still in flight brings it back (the handlers save with
\* update_fields, so none writes a stale column over another's decision).
ImplementsLease == Lease!Spec

\* Requests and grants overlap only as far as workers do: a subject never has more
\* open rows than there are workers (both handlers look before they insert).
OpenRowsBounded == \A s \in Subjects : Cardinality(Open(s)) <= Cardinality(Workers)

\* A requested access ends within the longest timeout of the moment it was asked
\* for, however late it is approved (approve_access leaves granted_until alone).
RequestedAccessEnds ==
  \A i \in RowIds :
    Effective(i) /\ rows[i].mode = "requested"
      => \E hours \in Timeouts : now < rows[i].asked + hours

(***************************************************************************)
(* What a message says and the code does not keep                          *)
(***************************************************************************)
\* api_access.py:361: "Access request has already been denied": a request that the
\* history shows as denied gives no access.
DeniedGivesNoAccess == \A i \in ids : Status(i) = "denied" => ~Effective(i)
=============================================================================
