------------------------- MODULE AccessGrantsProofs -------------------------
(***************************************************************************)
(* Proofs about AccessGrants, for any users, groups, rows, workers,        *)
(* timeouts and end dates.                                                 *)
(***************************************************************************)
EXTENDS AccessGrants, FiniteSetTheorems, TLAPS

\* What each stage of a request has already filled in, and that the row a review or
\* a revocation is about was read from the table.
Reviewing == {"review", "review_commit"}

StageOK(r, u) ==
  /\ r.pc = "grant" => r.subject \in Subjects
  /\ r.pc = "request" => r.subject \in Users /\ r.until \in Nat
  /\ r.pc \in Reviewing \cup {"revoke"} => r.row \in u
  /\ r.pc \in Reviewing => r.verdict \in Verdicts

TypeInv == TypeOK /\ \A w \in Workers : StageOK(req[w], used)

LEMMA IdleType == Idle \in Request /\ \A u : StageOK(Idle, u)
BY DEF Idle, Request, None, StageOK, Reviewing

LEMMA BlankType == Blank \in Row
BY DEF Blank, Row, None

\* An approval, a refusal and a revocation leave a row a row.
LEMMA RowUpdate ==
  ASSUME NEW x \in Row
  PROVE  /\ [x EXCEPT !.granted = TRUE] \in Row /\ [x EXCEPT !.denied = TRUE] \in Row
         /\ [x EXCEPT !.revoked = TRUE] \in Row
BY DEF Row

\* A step that replaces at most one worker's request, by a well-formed one.
LEMMA RequestUpdate ==
  ASSUME TypeInv, used \subseteq used', NEW w \in Workers, NEW r \in Request, StageOK(r, used'),
         req' = [req EXCEPT ![w] = r]
  PROVE  req' \in [Workers -> Request] /\ \A v \in Workers : StageOK(req'[v], used')
<1>1. \A v \in Workers : StageOK(req[v], used')
  BY DEF TypeInv, StageOK
<1> QED BY <1>1 DEF TypeInv, TypeOK

LEMMA ReturnOK ==
  ASSUME TypeInv, used \subseteq used', NEW w \in Workers, Return(w)
  PROVE  req' \in [Workers -> Request] /\ \A v \in Workers : StageOK(req'[v], used')
BY IdleType, RequestUpdate DEF Return

LEMMA InitType == Init => TypeInv
BY IdleType, BlankType DEF Init, TypeInv, TypeOK

\* The steps of one worker, one lemma each, so that later invariants may cite what
\* a step does to the tables without looking at the requests.
LEMMA HandleType ==
  ASSUME TypeInv, NEW w \in Workers, Handle(w)
  PROVE  TypeInv'
<1> DEFINE ReqOK == req' \in [Workers -> Request] /\ \A v \in Workers : StageOK(req'[v], used')
<1>1. ASSUME NEW s \in Subjects, NEW until \in Ends \cup {NoEnd}, GrantCheck(w, s, until)
      PROVE  TypeInv'
  <2> DEFINE r == [Idle EXCEPT !.pc = "grant", !.subject = s, !.until = until]
  <2>1. r \in Request /\ StageOK(r, used)
    BY TimeAssumption DEF Idle, Request, None, StageOK, Reviewing
  <2>2. req' = [req EXCEPT ![w] = r] /\ used' = used
    BY <1>1 DEF GrantCheck, Begin, tables
  <2> HIDE DEF r
  <2>3. ReqOK
    BY <2>1, <2>2, RequestUpdate
  <2> QED BY <1>1, <2>3 DEF GrantCheck, tables, TypeInv, TypeOK
<1>2. ASSUME NEW u \in Users, NEW hours \in Timeouts, RequestCheck(w, u, hours)
      PROVE  TypeInv'
  <2> DEFINE r == [Idle EXCEPT !.pc = "request", !.subject = u, !.until = now + hours]
  <2>0. now + hours \in Nat
    BY TimeAssumption DEF TypeInv, TypeOK
  <2>1. r \in Request /\ StageOK(r, used)
    BY <2>0 DEF Idle, Request, None, StageOK, Reviewing, Subjects
  <2>2. req' = [req EXCEPT ![w] = r] /\ used' = used
    BY <1>2 DEF RequestCheck, Begin, tables
  <2> HIDE DEF r
  <2>3. ReqOK
    BY <2>1, <2>2, RequestUpdate
  <2> QED BY <1>2, <2>3 DEF RequestCheck, tables, TypeInv, TypeOK
<1>3. ASSUME NEW i \in RowIds, GrantInsert(w, i)
      PROVE  TypeInv'
  <2> DEFINE x == [Blank EXCEPT !.subject = req[w].subject, !.asked = now, !.granted = TRUE,
                                !.until = req[w].until]
  <2>1. x \in Row
    BY <1>3, BlankType DEF GrantInsert, TypeInv, TypeOK, Row, Request, StageOK, None
  <2>2. \/ UNCHANGED <<used, ids, rows>>
        \/ used' = used \cup {i} /\ ids' = ids \cup {i} /\ rows' = [rows EXCEPT ![i] = x]
    BY <1>3 DEF GrantInsert, Insert
  <2>4. ids' # ids => x.subject \in Users \cup groups
    BY <1>3, <2>2, BlankType DEF GrantInsert, Row
  <2> HIDE DEF x
  <2>3. ReqOK
    BY <1>3, <2>2, ReturnOK DEF GrantInsert
  <2> QED BY <1>3, <2>1, <2>2, <2>3, <2>4 DEF GrantInsert, Insert, TypeInv, TypeOK
<1>4. ASSUME NEW i \in RowIds, RequestInsert(w, i)
      PROVE  TypeInv'
  <2> DEFINE x == [Blank EXCEPT !.subject = req[w].subject, !.mode = "requested", !.asked = now,
                                !.until = req[w].until]
  <2>1. x \in Row
    BY <1>4, BlankType DEF RequestInsert, TypeInv, TypeOK, Row, Request, StageOK, None
  <2>2. used' = used \cup {i} /\ ids' = ids \cup {i} /\ rows' = [rows EXCEPT ![i] = x]
    BY <1>4 DEF RequestInsert, Insert
  <2>4. x.subject \in Users
    BY <1>4, BlankType DEF RequestInsert, TypeInv, StageOK, Row
  <2> HIDE DEF x
  <2>3. ReqOK
    BY <1>4, <2>2, ReturnOK DEF RequestInsert
  <2> QED BY <1>4, <2>1, <2>2, <2>3, <2>4 DEF RequestInsert, TypeInv, TypeOK
<1>5. ASSUME NEW i \in RowIds, NEW verdict \in Verdicts, ReviewRead(w, i, verdict)
      PROVE  TypeInv'
  <2> DEFINE r == [Idle EXCEPT !.pc = "review", !.row = i, !.verdict = verdict]
  <2>1. r \in Request /\ StageOK(r, used)
    BY <1>5 DEF ReviewRead, Pending, Idle, Request, None, StageOK, Reviewing, TypeInv, TypeOK
  <2>2. req' = [req EXCEPT ![w] = r] /\ used' = used
    BY <1>5 DEF ReviewRead, Begin, tables
  <2> HIDE DEF r
  <2>3. ReqOK
    BY <2>1, <2>2, RequestUpdate
  <2> QED BY <1>5, <2>3 DEF ReviewRead, tables, TypeInv, TypeOK
<1>6. CASE ReviewUpdate(w)
  <2> DEFINE r == [req[w] EXCEPT !.pc = "review_commit"]
  <2>1. r \in Request /\ StageOK(r, used)
    BY <1>6 DEF ReviewUpdate, Request, StageOK, Reviewing, TypeInv, TypeOK
  <2>2. req' = [req EXCEPT ![w] = r] /\ used' = used
    BY <1>6 DEF ReviewUpdate, tables, TypeInv, TypeOK
  <2> HIDE DEF r
  <2>3. ReqOK
    BY <2>1, <2>2, RequestUpdate
  <2>4. <<req[w].row, req[w].verdict>> \in RowIds \X Verdicts
    BY <1>6 DEF ReviewUpdate, TypeInv, TypeOK, StageOK, Reviewing
  <2> QED BY <1>6, <2>3, <2>4 DEF ReviewUpdate, tables, TypeInv, TypeOK
<1>7. CASE ReviewCommit(w)
  <2>1. req[w].row \in RowIds
    BY <1>7 DEF ReviewCommit, TypeInv, TypeOK, StageOK, Reviewing
  <2>2. ReqOK
    BY <1>7, ReturnOK DEF ReviewCommit
  <2> DEFINE i == req[w].row
             approved == [rows[i] EXCEPT !.granted = TRUE]
             refused == [rows[i] EXCEPT !.denied = TRUE]
  <2>4. approved \in Row /\ refused \in Row
    <3>1. rows[i] \in Row BY <2>1 DEF TypeInv, TypeOK
    <3> QED BY <3>1, RowUpdate
  <2>5. rows' = [rows EXCEPT ![i] = approved] \/ rows' = [rows EXCEPT ![i] = refused]
    BY <1>7 DEF ReviewCommit
  <2> HIDE DEF approved, refused
  <2>3. rows' \in [RowIds -> Row]
    BY <2>1, <2>4, <2>5 DEF TypeInv, TypeOK
  <2> QED BY <1>7, <2>2, <2>3 DEF ReviewCommit, TypeInv, TypeOK
<1>8. ASSUME NEW i \in RowIds, RevokeRead(w, i)
      PROVE  TypeInv'
  <2> DEFINE r == [Idle EXCEPT !.pc = "revoke", !.row = i]
  <2>1. r \in Request /\ StageOK(r, used)
    BY <1>8 DEF RevokeRead, Idle, Request, None, StageOK, Reviewing, TypeInv, TypeOK
  <2>2. req' = [req EXCEPT ![w] = r] /\ used' = used
    BY <1>8 DEF RevokeRead, Begin, tables
  <2> HIDE DEF r
  <2>3. ReqOK
    BY <2>1, <2>2, RequestUpdate
  <2> QED BY <1>8, <2>3 DEF RevokeRead, tables, TypeInv, TypeOK
<1>9. CASE RevokeSave(w)
  <2>1. req[w].row \in RowIds
    BY <1>9 DEF RevokeSave, TypeInv, TypeOK, StageOK, Reviewing
  <2>2. ReqOK
    BY <1>9, ReturnOK DEF RevokeSave
  <2>3. rows' \in [RowIds -> Row]
    <3>1. rows \in [RowIds -> Row] BY DEF TypeInv, TypeOK
    <3>2. rows' = rows \/ rows' = [rows EXCEPT ![req[w].row].revoked = TRUE] BY <1>9 DEF RevokeSave
    <3>3. [rows[req[w].row] EXCEPT !.revoked = TRUE] \in Row BY <2>1, <3>1, RowUpdate
    <3> QED BY <3>1, <3>2, <3>3
  <2> QED BY <1>9, <2>2, <2>3 DEF RevokeSave, TypeInv, TypeOK
<1>10. CASE Crash(w)
  <2>1. ReqOK
    BY <1>10, ReturnOK DEF Crash, tables
  <2> QED BY <1>10, <2>1 DEF Crash, tables, TypeInv, TypeOK
<1> QED BY <1>1, <1>2, <1>3, <1>4, <1>5, <1>6, <1>7, <1>8, <1>9, <1>10 DEF Handle

LEMMA NextType == TypeInv /\ [Next]_vars => TypeInv'
<1> SUFFICES ASSUME TypeInv, [Next]_vars
             PROVE  TypeInv'
  OBVIOUS
<1>1. CASE Tick
  BY <1>1 DEF Tick, tables, TypeInv, TypeOK
<1>2. ASSUME NEW g \in Groups, NEW u \in Users, AddMember(g, u) \/ RemoveMember(g, u)
      PROVE  TypeInv'
  BY <1>2 DEF AddMember, RemoveMember, TypeInv, TypeOK
<1>3. ASSUME NEW g \in Groups, DeleteGroup(g)
      PROVE  TypeInv'
  BY <1>3 DEF DeleteGroup, TypeInv, TypeOK
<1>4. CASE UNCHANGED vars
  BY <1>4 DEF vars, TypeInv, TypeOK
<1> QED BY <1>1, <1>2, <1>3, <1>4, HandleType DEF Next

\* The types, and what each stage of a request relies on, in every reachable state.
LEMMA TypeInvariant == Spec => []TypeInv
BY InitType, NextType, PTL DEF Spec

\* Every reachable state is type-correct, no row comes back, and every row that is there belongs
\* to a user or to a group that still exists: a grant that outlives the check of its group is
\* refused, and a group takes its rows with it.
THEOREM TypeCorrect == Spec => []TypeOK
<1>1. TypeInv => TypeOK
  BY DEF TypeInv
<1> QED BY <1>1, TypeInvariant, PTL
-----------------------------------------------------------------------------
(***************************************************************************)
(* What a step may do to the rows that exist: decisions are only added.    *)
(***************************************************************************)
RowsStep ==
  /\ used \subseteq used' /\ now <= now'
  /\ \A i \in used :
       /\ i \in ids' => i \in ids
       /\ rows'[i].subject = rows[i].subject /\ rows'[i].mode = rows[i].mode
       /\ rows'[i].asked = rows[i].asked /\ rows'[i].until = rows[i].until
       /\ rows[i].granted => rows'[i].granted
       /\ rows[i].denied => rows'[i].denied
       /\ rows[i].revoked => rows'[i].revoked

\* A step that leaves the rows as they are, and perhaps lets time pass.
LEMMA RowsUntouched ==
  ASSUME TypeInv, UNCHANGED <<used, ids, rows>>, now' \in {now, now + 1}
  PROVE  RowsStep
BY DEF RowsStep, TypeInv, TypeOK

LEMMA RowsInserted ==
  ASSUME TypeInv, NEW i \in RowIds, NEW x, Insert(i, x), now' = now
  PROVE  RowsStep
<1>1. \A j \in used : rows'[j] = rows[j] /\ (j \in ids' => j \in ids)
  BY DEF Insert, TypeInv, TypeOK
<1> QED BY <1>1 DEF Insert, RowsStep, TypeInv, TypeOK

LEMMA RowsNext ==
  ASSUME TypeInv, [Next]_vars
  PROVE  RowsStep
<1>1. CASE Tick
  BY <1>1, RowsUntouched DEF Tick, tables
<1>2. ASSUME NEW g \in Groups, NEW u \in Users, AddMember(g, u) \/ RemoveMember(g, u)
      PROVE  RowsStep
  BY <1>2, RowsUntouched DEF AddMember, RemoveMember
<1>3. ASSUME NEW g \in Groups, DeleteGroup(g)
      PROVE  RowsStep
  BY <1>3 DEF DeleteGroup, RowsStep, TypeInv, TypeOK
<1>4. ASSUME NEW w \in Workers, Handle(w)
      PROVE  RowsStep
  <2>1. CASE UNCHANGED <<now, tables>>
    BY <2>1, RowsUntouched DEF tables
  <2>2. ASSUME NEW i \in RowIds, GrantInsert(w, i)
        PROVE  RowsStep
    BY <2>2, RowsInserted, RowsUntouched DEF GrantInsert
  <2>3. ASSUME NEW i \in RowIds, RequestInsert(w, i)
        PROVE  RowsStep
    BY <2>3, RowsInserted DEF RequestInsert
  <2>4. CASE ReviewCommit(w)
    <3> DEFINE i == req[w].row
    <3>1. i \in RowIds
      BY <2>4 DEF ReviewCommit, TypeInv, TypeOK, StageOK, Reviewing
    <3>2. /\ rows' = [rows EXCEPT ![i] = [rows[i] EXCEPT !.granted = TRUE]]
             \/ rows' = [rows EXCEPT ![i] = [rows[i] EXCEPT !.denied = TRUE]]
          /\ UNCHANGED <<now, used, ids>>
      BY <2>4 DEF ReviewCommit
    <3> HIDE DEF i
    <3> QED BY <3>1, <3>2 DEF RowsStep, TypeInv, TypeOK, Row
  <2>5. CASE RevokeSave(w)
    <3>1. req[w].row \in RowIds
      BY <2>5 DEF RevokeSave, TypeInv, TypeOK, StageOK, Reviewing
    <3> QED BY <2>5, <3>1 DEF RevokeSave, RowsStep, TypeInv, TypeOK, Row
  <2> QED BY <1>4, <2>1, <2>2, <2>3, <2>4, <2>5
          DEF Handle, GrantCheck, RequestCheck, ReviewRead, ReviewUpdate, RevokeRead, Crash
<1>5. CASE UNCHANGED vars
  BY <1>5, RowsUntouched DEF vars
<1> QED BY <1>1, <1>2, <1>3, <1>4, <1>5 DEF Next
-----------------------------------------------------------------------------
(***************************************************************************)
(* The lease: an access row is in force for one stretch of time.           *)
(***************************************************************************)
LEMMA PhaseType == phase \in [RowIds -> Lease!Phases]
BY DEF phase, Lease!Phases

LEMMA LeaseInit == Init => Lease!Init
BY DEF Init, Lease!Init, phase

LEMMA LeaseStep ==
  ASSUME TypeInv, TypeInv', RowsStep
  PROVE  Lease!Next
<1>1. phase' \in [RowIds -> Lease!Phases]
  BY DEF phase, Lease!Phases
<1>2. ASSUME NEW i \in RowIds
      PROVE  phase'[i] \in Lease!Later(phase[i])
  <2>1. CASE i \notin used
    BY <1>1, <2>1 DEF phase, Lease!Later, Lease!Phases
  <2>2. CASE i \in used /\ (i \notin ids \/ rows[i].revoked \/ Expired(i))
    <3>1. i \in used' /\ (i \notin ids' \/ rows'[i].revoked \/ Expired(i)')
      <4>1. Expired(i) => Expired(i)'
        <5>1. rows[i].until \in Nat \cup {NoEnd}
          BY DEF TypeInv, TypeOK, Row
        <5>2. rows'[i].until = rows[i].until /\ now <= now' /\ now \in Nat /\ now' \in Nat
          BY <2>2 DEF RowsStep, TypeInv, TypeOK
        <5> QED BY <5>1, <5>2 DEF Expired
      <4> QED BY <2>2, <4>1 DEF RowsStep
    <3>2. phase[i] = "after" /\ phase'[i] = "after"
      BY <2>2, <3>1 DEF phase
    <3> QED BY <3>2 DEF Lease!Later
  <2>3. CASE i \in used /\ i \in ids /\ ~rows[i].revoked /\ ~Expired(i)
    <3>1. CASE rows[i].granted
      <4>1. phase[i] = "during"
        BY <2>3, <3>1 DEF phase
      <4>2. i \in used' /\ rows'[i].granted
        BY <2>3, <3>1 DEF RowsStep
      <4>3. phase'[i] \in {"during", "after"}
        BY <4>2 DEF phase
      <4> QED BY <4>1, <4>3 DEF Lease!Later
    <3>2. CASE ~rows[i].granted
      <4>1. phase[i] = "before"
        BY <2>3, <3>2 DEF phase
      <4> QED BY <1>1, <4>1 DEF Lease!Later
    <3> QED BY <3>1, <3>2
  <2> QED BY <2>1, <2>2, <2>3
<1> QED BY <1>1, <1>2 DEF Lease!Next

\* Every access row is in force for at most one stretch of time: what ends it, a
\* revocation, its end date or the deletion of its group, ends it for good.
THEOREM LeaseImplemented == Spec => ImplementsLease
<1>1. TypeInv /\ [Next]_vars => Lease!Next
  BY NextType, RowsNext, LeaseStep
<1>2. TypeInv /\ [Next]_vars => [Lease!Next]_phase
  BY <1>1
<1> QED BY <1>2, LeaseInit, TypeInvariant, PTL DEF Spec, Lease!Spec, ImplementsLease
-----------------------------------------------------------------------------
(***************************************************************************)
(* The end of a requested access is fixed when it is asked for.            *)
(***************************************************************************)
EndsInv ==
  /\ \A i \in ids : rows[i].mode = "requested" =>
       \E hours \in Timeouts : rows[i].until \in Nat /\ rows[i].until <= rows[i].asked + hours
  /\ \A w \in Workers : req[w].pc = "request" =>
       \E hours \in Timeouts : req[w].until \in Nat /\ req[w].until <= now + hours

LEMMA EndsInit == Init => EndsInv
<1>1. Idle.pc = "idle"
  BY DEF Idle
<1> QED BY <1>1 DEF Init, EndsInv

\* A step that inserts no row and starts no request.
LEMMA EndsQuiet ==
  ASSUME TypeInv, EndsInv, RowsStep, now' \in Nat, ids' \subseteq ids,
         \A w \in Workers : req'[w].pc = "request" => req'[w] = req[w]
  PROVE  EndsInv'
<1>1. \A i \in ids' : rows'[i].mode = rows[i].mode /\ rows'[i].asked = rows[i].asked
                      /\ rows'[i].until = rows[i].until
  BY DEF RowsStep, TypeInv, TypeOK
<1>2. ASSUME NEW w \in Workers, req'[w].pc = "request"
      PROVE  \E hours \in Timeouts : req'[w].until \in Nat /\ req'[w].until <= now' + hours
  <2>1. PICK hours \in Timeouts : req[w].until \in Nat /\ req[w].until <= now + hours
    BY <1>2 DEF EndsInv
  <2>2. now <= now' /\ now \in Nat /\ hours \in Nat
    BY TimeAssumption DEF RowsStep, TypeInv, TypeOK
  <2> QED BY <1>2, <2>1, <2>2
<1> QED BY <1>1, <1>2 DEF EndsInv

LEMMA EndsHandle ==
  ASSUME TypeInv, EndsInv, RowsStep, NEW w \in Workers, Handle(w)
  PROVE  EndsInv'
<1>0. Idle.pc = "idle"
  BY DEF Idle
<1>1. ASSUME NEW s \in Subjects, NEW until \in Ends \cup {NoEnd}, GrantCheck(w, s, until)
      PROVE  EndsInv'
  <2> DEFINE r == [Idle EXCEPT !.pc = "grant", !.subject = s, !.until = until]
  <2>1. r.pc # "request"
    BY DEF Idle
  <2>2. req' = [req EXCEPT ![w] = r]
    BY <1>1 DEF GrantCheck, Begin
  <2> HIDE DEF r
  <2> QED BY <1>1, <2>1, <2>2, EndsQuiet DEF GrantCheck, tables, TypeInv, TypeOK
<1>2. ASSUME NEW u \in Users, NEW hours \in Timeouts, RequestCheck(w, u, hours)
      PROVE  EndsInv'
  <2> DEFINE r == [Idle EXCEPT !.pc = "request", !.subject = u, !.until = now + hours]
  <2>1. r.until = now + hours
    BY DEF Idle
  <2>2. req' = [req EXCEPT ![w] = r]
    BY <1>2 DEF RequestCheck, Begin
  <2> HIDE DEF r
  <2>3. now + hours \in Nat /\ now + hours <= now + hours
    BY TimeAssumption DEF TypeInv, TypeOK
  <2>4. \A v \in Workers : req'[v].pc = "request" =>
          \E h \in Timeouts : req'[v].until \in Nat /\ req'[v].until <= now + h
    BY <2>1, <2>2, <2>3 DEF EndsInv, TypeInv, TypeOK
  <2> QED BY <1>2, <2>4 DEF EndsInv, RequestCheck, tables
<1>3. ASSUME NEW i \in RowIds, GrantInsert(w, i)
      PROVE  EndsInv'
  <2> DEFINE x == [Blank EXCEPT !.subject = req[w].subject, !.asked = now, !.granted = TRUE,
                                !.until = req[w].until]
  <2>1. x.mode = "admin_set"
    BY DEF Blank
  <2>2. UNCHANGED <<ids, rows>> \/ (ids' = ids \cup {i} /\ rows' = [rows EXCEPT ![i] = x])
    BY <1>3 DEF GrantInsert, Insert
  <2> HIDE DEF x
  <2>3. \A j \in ids' : rows'[j].mode = "requested" => j \in ids /\ rows'[j] = rows[j]
    BY <2>1, <2>2 DEF TypeInv, TypeOK
  <2>4. \A v \in Workers : req'[v].pc = "request" => req'[v] = req[v]
    BY <1>0, <1>3 DEF GrantInsert, Return, TypeInv, TypeOK
  <2> QED BY <1>3, <2>3, <2>4 DEF EndsInv, GrantInsert
<1>4. ASSUME NEW i \in RowIds, RequestInsert(w, i)
      PROVE  EndsInv'
  <2> DEFINE x == [Blank EXCEPT !.subject = req[w].subject, !.mode = "requested", !.asked = now,
                                !.until = req[w].until]
  <2>1. x.asked = now /\ x.until = req[w].until
    BY DEF Blank
  <2>2. ids' = ids \cup {i} /\ rows' = [rows EXCEPT ![i] = x]
    BY <1>4 DEF RequestInsert, Insert
  <2> HIDE DEF x
  <2>5. PICK hours \in Timeouts : req[w].until \in Nat /\ req[w].until <= now + hours
    BY <1>4 DEF RequestInsert, EndsInv
  <2>3. \E h \in Timeouts : x.until \in Nat /\ x.until <= x.asked + h
    BY <2>1, <2>5
  <2>4. \A v \in Workers : req'[v].pc = "request" => req'[v] = req[v]
    BY <1>0, <1>4 DEF RequestInsert, Return, TypeInv, TypeOK
  <2> QED BY <1>4, <2>2, <2>3, <2>4 DEF EndsInv, RequestInsert, TypeInv, TypeOK
<1>5. ASSUME NEW i \in RowIds, NEW verdict \in Verdicts, ReviewRead(w, i, verdict)
      PROVE  EndsInv'
  <2> DEFINE r == [Idle EXCEPT !.pc = "review", !.row = i, !.verdict = verdict]
  <2>1. r.pc # "request"
    BY DEF Idle
  <2>2. req' = [req EXCEPT ![w] = r]
    BY <1>5 DEF ReviewRead, Begin
  <2> HIDE DEF r
  <2> QED BY <1>5, <2>1, <2>2, EndsQuiet DEF ReviewRead, tables, TypeInv, TypeOK
<1>6. CASE ReviewUpdate(w)
  BY <1>6, EndsQuiet DEF ReviewUpdate, tables, TypeInv, TypeOK, Request
<1>7. CASE ReviewCommit(w)
  BY <1>0, <1>7, EndsQuiet DEF ReviewCommit, Return, TypeInv, TypeOK
<1>8. ASSUME NEW i \in RowIds, RevokeRead(w, i)
      PROVE  EndsInv'
  <2> DEFINE r == [Idle EXCEPT !.pc = "revoke", !.row = i]
  <2>1. r.pc # "request"
    BY DEF Idle
  <2>2. req' = [req EXCEPT ![w] = r]
    BY <1>8 DEF RevokeRead, Begin
  <2> HIDE DEF r
  <2> QED BY <1>8, <2>1, <2>2, EndsQuiet DEF RevokeRead, tables, TypeInv, TypeOK
<1>9. CASE RevokeSave(w)
  BY <1>0, <1>9, EndsQuiet DEF RevokeSave, Return, TypeInv, TypeOK
<1>10. CASE Crash(w)
  BY <1>0, <1>10, EndsQuiet DEF Crash, Return, tables, TypeInv, TypeOK
<1> QED BY <1>1, <1>2, <1>3, <1>4, <1>5, <1>6, <1>7, <1>8, <1>9, <1>10 DEF Handle

LEMMA EndsNext == TypeInv /\ EndsInv /\ [Next]_vars => EndsInv'
<1> SUFFICES ASSUME TypeInv, EndsInv, [Next]_vars
             PROVE  EndsInv'
  OBVIOUS
<1>1. RowsStep
  BY RowsNext
<1>2. CASE Tick
  BY <1>1, <1>2, EndsQuiet DEF Tick, tables, TypeInv, TypeOK
<1>3. ASSUME NEW g \in Groups, NEW u \in Users, AddMember(g, u) \/ RemoveMember(g, u)
      PROVE  EndsInv'
  BY <1>1, <1>3, EndsQuiet DEF AddMember, RemoveMember, TypeInv, TypeOK
<1>4. ASSUME NEW g \in Groups, DeleteGroup(g)
      PROVE  EndsInv'
  BY <1>1, <1>4, EndsQuiet DEF DeleteGroup, TypeInv, TypeOK
<1>5. CASE UNCHANGED vars
  BY <1>1, <1>5, EndsQuiet DEF vars, TypeInv, TypeOK
<1> QED BY <1>1, <1>2, <1>3, <1>4, <1>5, EndsHandle DEF Next

\* A requested access is over by its longest timeout after the request, whenever
\* the approval comes.
THEOREM RequestedAccessEndsHolds == Spec => []RequestedAccessEnds
<1>1. TypeInv /\ EndsInv => RequestedAccessEnds
  <2> SUFFICES ASSUME TypeInv, EndsInv, NEW i \in RowIds, Effective(i), rows[i].mode = "requested"
               PROVE  \E hours \in Timeouts : now < rows[i].asked + hours
    BY DEF RequestedAccessEnds
  <2>1. PICK hours \in Timeouts : rows[i].until \in Nat /\ rows[i].until <= rows[i].asked + hours
    BY DEF Effective, EndsInv
  <2>2. now < rows[i].until
    BY <2>1, TimeAssumption DEF Effective, Expired, TypeInv, TypeOK
  <2>3. now \in Nat /\ rows[i].asked \in Nat /\ hours \in Nat
    BY TimeAssumption DEF TypeInv, TypeOK, Row
  <2> QED BY <2>1, <2>2, <2>3
<1> QED BY <1>1, EndsInit, EndsNext, TypeInvariant, PTL DEF Spec
-----------------------------------------------------------------------------
(***************************************************************************)
(* Check and insert.  OpenRowsBounded is not inductive: a worker past its  *)
(* check is about to add a row.  Counting such workers with the rows makes *)
(* it so: the first check of a wave finds no row, and a worker leaves the  *)
(* count when its row joins it.                                            *)
(***************************************************************************)
Inserting(s) == {w \in Workers : req[w].pc \in {"grant", "request"} /\ req[w].subject = s}

CountInv ==
  /\ IsFiniteSet(ids)
  /\ \A s \in Subjects : Cardinality(Open(s)) + Cardinality(Inserting(s)) <= Cardinality(Workers)

LEMMA OpenFinite ==
  ASSUME IsFiniteSet(ids), NEW s
  PROVE  IsFiniteSet(Open(s)) /\ Cardinality(Open(s)) \in Nat
<1>1. Open(s) \subseteq ids
  BY DEF Open, Unrevoked
<1> QED BY <1>1, FS_Subset, FS_CardinalityType

LEMMA InsertingFinite ==
  ASSUME NEW s
  PROVE  /\ IsFiniteSet(Inserting(s)) /\ Cardinality(Inserting(s)) \in Nat
         /\ Cardinality(Inserting(s)) <= Cardinality(Workers) /\ Cardinality(Workers) \in Nat
<1>1. Inserting(s) \subseteq Workers
  BY DEF Inserting
<1> QED BY <1>1, WorkersAssumption, FS_Subset, FS_CardinalityType

\* The count of a subject does not grow when neither of its sets does.
LEMMA CountShrinks ==
  ASSUME CountInv, NEW s \in Subjects, Open(s)' \subseteq Open(s), Inserting(s)' \subseteq Inserting(s)
  PROVE  Cardinality(Open(s)') + Cardinality(Inserting(s)') <= Cardinality(Workers)
<1>1. IsFiniteSet(Open(s)) /\ Cardinality(Open(s)) \in Nat
  BY OpenFinite DEF CountInv
<1>2. IsFiniteSet(Inserting(s)) /\ Cardinality(Inserting(s)) \in Nat /\ Cardinality(Workers) \in Nat
  BY InsertingFinite
<1>3. Cardinality(Open(s)') <= Cardinality(Open(s)) /\ Cardinality(Open(s)') \in Nat
  BY <1>1, FS_Subset, FS_CardinalityType
<1>4. Cardinality(Inserting(s)') <= Cardinality(Inserting(s)) /\ Cardinality(Inserting(s)') \in Nat
  BY <1>2, FS_Subset, FS_CardinalityType
<1> QED BY <1>1, <1>2, <1>3, <1>4 DEF CountInv

\* A step that adds no open row and sends no worker to an insert.
LEMMA CountQuiet ==
  ASSUME TypeInv, CountInv, RowsStep, ids' \subseteq ids,
         \A w \in Workers : req'[w].pc \in {"grant", "request"} => req'[w] = req[w]
  PROVE  CountInv'
<1>1. IsFiniteSet(ids')
  BY FS_Subset DEF CountInv
<1>2. ASSUME NEW s \in Subjects
      PROVE  Cardinality(Open(s)') + Cardinality(Inserting(s)') <= Cardinality(Workers)
  <2>1. Open(s)' \subseteq Open(s)
    BY DEF Open, Unrevoked, RowsStep, TypeInv, TypeOK
  <2>2. Inserting(s)' \subseteq Inserting(s)
    BY DEF Inserting
  <2> QED BY <2>1, <2>2, CountShrinks
<1> QED BY <1>1, <1>2 DEF CountInv

\* A worker passes the check of a subject that has no open row.
LEMMA CountCheck ==
  ASSUME TypeInv, CountInv, NEW w \in Workers, NEW s0 \in Subjects, Open(s0) = {},
         UNCHANGED <<ids, rows>>, NEW r, req' = [req EXCEPT ![w] = r], r.subject = s0
  PROVE  CountInv'
<1>1. ASSUME NEW s \in Subjects
      PROVE  Cardinality(Open(s)') + Cardinality(Inserting(s)') <= Cardinality(Workers)
  <2>1. CASE s = s0
    <3>1. Open(s)' = {}
      BY <2>1 DEF Open, Unrevoked
    <3>2. Inserting(s)' \subseteq Workers
      BY DEF Inserting
    <3>3. Cardinality(Inserting(s)') <= Cardinality(Workers) /\ Cardinality(Inserting(s)') \in Nat
      BY <3>2, WorkersAssumption, FS_Subset, FS_CardinalityType
    <3>4. Cardinality(Open(s)') = 0
      BY <3>1, FS_EmptySet
    <3> QED BY <3>3, <3>4
  <2>2. CASE s # s0
    <3>1. Open(s)' \subseteq Open(s)
      BY DEF Open, Unrevoked
    <3>2. Inserting(s)' \subseteq Inserting(s)
      BY <2>2 DEF Inserting, TypeInv, TypeOK
    <3> QED BY <3>1, <3>2, CountShrinks
  <2> QED BY <2>1, <2>2
<1> QED BY <1>1 DEF CountInv

\* A worker's row joins the open rows as the worker leaves the inserting ones.
LEMMA CountInsert ==
  ASSUME TypeInv, CountInv, NEW w \in Workers, NEW i \in RowIds, NEW x, Return(w),
         req[w].pc \in {"grant", "request"}, x.subject = req[w].subject,
         ids' = ids \cup {i}, rows' = [rows EXCEPT ![i] = x], i \notin used
  PROVE  CountInv'
<1> DEFINE s0 == req[w].subject
<1>1. IsFiniteSet(ids')
  BY FS_AddElement DEF CountInv
<1>2. Idle.pc = "idle"
  BY DEF Idle
<1>3. ASSUME NEW s \in Subjects
      PROVE  Cardinality(Open(s)') + Cardinality(Inserting(s)') <= Cardinality(Workers)
  <2>1. IsFiniteSet(Open(s)) /\ Cardinality(Open(s)) \in Nat
    BY OpenFinite DEF CountInv
  <2>2. IsFiniteSet(Inserting(s)) /\ Cardinality(Inserting(s)) \in Nat /\ Cardinality(Workers) \in Nat
    BY InsertingFinite
  <2>3. CASE s = s0
    <3>1. Open(s)' \subseteq Open(s) \cup {i}
      BY DEF Open, Unrevoked, TypeInv, TypeOK
    <3>2. Inserting(s)' = Inserting(s) \ {w} /\ w \in Inserting(s)
      BY <1>2, <2>3 DEF Inserting, Return, TypeInv, TypeOK
    <3>a. /\ IsFiniteSet(Open(s) \cup {i})
          /\ Cardinality(Open(s) \cup {i})
               = IF i \in Open(s) THEN Cardinality(Open(s)) ELSE Cardinality(Open(s)) + 1
      BY <2>1, FS_AddElement
    <3>3. /\ IsFiniteSet(Open(s) \cup {i}) /\ Cardinality(Open(s) \cup {i}) \in Nat
          /\ Cardinality(Open(s) \cup {i}) <= Cardinality(Open(s)) + 1
      BY <2>1, <3>a
    <3>4. Cardinality(Open(s)') <= Cardinality(Open(s)) + 1 /\ Cardinality(Open(s)') \in Nat
      BY <2>1, <3>1, <3>3, FS_Subset, FS_CardinalityType
    <3>5. Cardinality(Inserting(s)') = Cardinality(Inserting(s)) - 1
      BY <2>2, <3>2, FS_RemoveElement
    <3> QED BY <2>1, <2>2, <3>4, <3>5 DEF CountInv
  <2>4. CASE s # s0
    <3>1. Open(s)' \subseteq Open(s)
      BY <2>4 DEF Open, Unrevoked, TypeInv, TypeOK
    <3>2. Inserting(s)' \subseteq Inserting(s)
      BY <1>2 DEF Inserting, Return, TypeInv, TypeOK
    <3> QED BY <3>1, <3>2, CountShrinks
  <2> QED BY <2>3, <2>4
<1> QED BY <1>1, <1>3 DEF CountInv

LEMMA CountInit == Init => CountInv
<1> SUFFICES ASSUME Init
             PROVE  CountInv
  OBVIOUS
<1>1. IsFiniteSet(ids) /\ Cardinality({}) = 0
  BY FS_EmptySet DEF Init
<1>2. Idle.pc = "idle"
  BY DEF Idle
<1>3. \A s \in Subjects : Open(s) = {} /\ Inserting(s) = {}
  BY <1>2 DEF Init, Open, Unrevoked, Inserting
<1>4. Cardinality(Workers) \in Nat
  BY WorkersAssumption, FS_CardinalityType
<1> QED BY <1>1, <1>3, <1>4 DEF CountInv

LEMMA CountHandle ==
  ASSUME TypeInv, CountInv, RowsStep, NEW w \in Workers, Handle(w)
  PROVE  CountInv'
<1>0. Idle.pc = "idle"
  BY DEF Idle
<1>1. ASSUME NEW s \in Subjects, NEW until \in Ends \cup {NoEnd}, GrantCheck(w, s, until)
      PROVE  CountInv'
  <2> DEFINE r == [Idle EXCEPT !.pc = "grant", !.subject = s, !.until = until]
  <2>1. r.subject = s
    BY DEF Idle
  <2>2. req' = [req EXCEPT ![w] = r]
    BY <1>1 DEF GrantCheck, Begin
  <2> HIDE DEF r
  <2>3. Open(s) = {}
    BY <1>1 DEF GrantCheck, Open
  <2> QED BY <1>1, <2>1, <2>2, <2>3, CountCheck DEF GrantCheck, tables
<1>2. ASSUME NEW u \in Users, NEW hours \in Timeouts, RequestCheck(w, u, hours)
      PROVE  CountInv'
  <2> DEFINE r == [Idle EXCEPT !.pc = "request", !.subject = u, !.until = now + hours]
  <2>1. r.subject = u /\ u \in Subjects
    BY DEF Idle, Subjects
  <2>2. req' = [req EXCEPT ![w] = r]
    BY <1>2 DEF RequestCheck, Begin
  <2> HIDE DEF r
  <2> QED BY <1>2, <2>1, <2>2, CountCheck DEF RequestCheck, tables
<1>3. ASSUME NEW i \in RowIds, GrantInsert(w, i)
      PROVE  CountInv'
  <2> DEFINE x == [Blank EXCEPT !.subject = req[w].subject, !.asked = now, !.granted = TRUE,
                                !.until = req[w].until]
  <2>1. x.subject = req[w].subject
    BY DEF Blank
  <2>2. CASE UNCHANGED <<used, ids, rows>>
    <3>1. \A v \in Workers : req'[v].pc \in {"grant", "request"} => req'[v] = req[v]
      BY <1>0, <1>3 DEF GrantInsert, Return, TypeInv, TypeOK
    <3> QED BY <2>2, <3>1, CountQuiet
  <2>3. CASE i \notin used /\ ids' = ids \cup {i} /\ rows' = [rows EXCEPT ![i] = x]
    <3> HIDE DEF x
    <3> QED BY <1>3, <2>1, <2>3, CountInsert DEF GrantInsert
  <2> QED BY <1>3, <2>2, <2>3 DEF GrantInsert, Insert
<1>4. ASSUME NEW i \in RowIds, RequestInsert(w, i)
      PROVE  CountInv'
  <2> DEFINE x == [Blank EXCEPT !.subject = req[w].subject, !.mode = "requested", !.asked = now,
                                !.until = req[w].until]
  <2>1. x.subject = req[w].subject
    BY DEF Blank
  <2>2. i \notin used /\ ids' = ids \cup {i} /\ rows' = [rows EXCEPT ![i] = x]
    BY <1>4 DEF RequestInsert, Insert
  <2> HIDE DEF x
  <2> QED BY <1>4, <2>1, <2>2, CountInsert DEF RequestInsert
<1>5. ASSUME NEW i \in RowIds, NEW verdict \in Verdicts, ReviewRead(w, i, verdict)
      PROVE  CountInv'
  <2> DEFINE r == [Idle EXCEPT !.pc = "review", !.row = i, !.verdict = verdict]
  <2>1. r.pc \notin {"grant", "request"}
    BY DEF Idle
  <2>2. req' = [req EXCEPT ![w] = r]
    BY <1>5 DEF ReviewRead, Begin
  <2> HIDE DEF r
  <2> QED BY <1>5, <2>1, <2>2, CountQuiet DEF ReviewRead, tables, TypeInv, TypeOK
<1>6. CASE ReviewUpdate(w)
  BY <1>6, CountQuiet DEF ReviewUpdate, tables, TypeInv, TypeOK, Request
<1>7. CASE ReviewCommit(w)
  BY <1>0, <1>7, CountQuiet DEF ReviewCommit, Return, TypeInv, TypeOK
<1>8. ASSUME NEW i \in RowIds, RevokeRead(w, i)
      PROVE  CountInv'
  <2> DEFINE r == [Idle EXCEPT !.pc = "revoke", !.row = i]
  <2>1. r.pc \notin {"grant", "request"}
    BY DEF Idle
  <2>2. req' = [req EXCEPT ![w] = r]
    BY <1>8 DEF RevokeRead, Begin
  <2> HIDE DEF r
  <2> QED BY <1>8, <2>1, <2>2, CountQuiet DEF RevokeRead, tables, TypeInv, TypeOK
<1>9. CASE RevokeSave(w)
  BY <1>0, <1>9, CountQuiet DEF RevokeSave, Return, TypeInv, TypeOK
<1>10. CASE Crash(w)
  BY <1>0, <1>10, CountQuiet DEF Crash, Return, tables, TypeInv, TypeOK
<1> QED BY <1>1, <1>2, <1>3, <1>4, <1>5, <1>6, <1>7, <1>8, <1>9, <1>10 DEF Handle

LEMMA CountNext == TypeInv /\ CountInv /\ [Next]_vars => CountInv'
<1> SUFFICES ASSUME TypeInv, CountInv, [Next]_vars
             PROVE  CountInv'
  OBVIOUS
<1>1. RowsStep
  BY RowsNext
<1>2. CASE UNCHANGED req /\ ids' \subseteq ids
  BY <1>1, <1>2, CountQuiet
<1> QED BY <1>1, <1>2, CountHandle
        DEF Next, vars, Tick, tables, AddMember, RemoveMember, DeleteGroup

\* However the checks and inserts of concurrent requests and grants interleave, a
\* subject never holds more open rows than the API has workers.
THEOREM OpenRowsBoundedHolds == Spec => []OpenRowsBounded
<1>1. CountInv => OpenRowsBounded
  <2> SUFFICES ASSUME CountInv, NEW s \in Subjects
               PROVE  Cardinality(Open(s)) <= Cardinality(Workers)
    BY DEF OpenRowsBounded
  <2>1. Cardinality(Open(s)) \in Nat
    BY OpenFinite DEF CountInv
  <2>2. Cardinality(Inserting(s)) \in Nat /\ Cardinality(Workers) \in Nat
    BY InsertingFinite
  <2> QED BY <2>1, <2>2 DEF CountInv
<1> QED BY <1>1, CountInit, CountNext, TypeInvariant, PTL DEF Spec
=============================================================================
