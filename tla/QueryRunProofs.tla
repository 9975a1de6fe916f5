--------------------------- MODULE QueryRunProofs ---------------------------
(***************************************************************************)
(* Proofs about QueryRun, for any number of requests, rows and any limit.  *)
(* A step changes one request, or lets all of them go with the process, so *)
(* the invariant is a property of one request: what each stage of the      *)
(* handler has filled in, and how the goroutine trails behind it.          *)
(***************************************************************************)
EXTENDS MCQueryRun, FiniteSetTheorems, WellFoundedInduction, TLAPS

Before == {"none", "sent", "passed"}
Driver == {"running", "rows"}

\* What the request says for each place of its handler
Stages(r) ==
  /\ r.pc \in Before => ~r.ran /\ r.sent = 0 /\ ~r.begun
  /\ r.pc \in Before \cup Driver \cup {"panicked"} => ~r.ok
  /\ r.pc \in Before \cup Driver \cup {"ended", "panicked"} => r.audit = "none"
  /\ r.pc = "logging" => r.audit # "none"
  /\ r.pc \notin Final => r.told = "nothing"

Counts(r) ==
  /\ r.sent <= r.size /\ (r.kind = "stream" => r.sent <= Limit)
  /\ r.ok => r.sent = Cap(r)
  /\ r.begun => r.kind # "run"

Entries(r) == r.entries # 0 => r.entries = 1 /\ r.audit = "over"

Told(r) ==
  r.told = "rows" /\ r.sent # r.size =>
    \/ r.kind \in {"csv", "lines"} /\ ~r.ok /\ r.begun
    \/ r.kind # "run" /\ r.pc = "panicked" /\ r.begun

Good(r) == r \in Request /\ Stages(r) /\ Counts(r) /\ Entries(r) /\ Told(r)

Inv ==
  /\ may \in BOOLEAN /\ auditing \in BOOLEAN
  /\ service \in {"serving", "draining", "exited"}
  /\ req \in [Requests -> Request]
  /\ \A q \in Requests : Good(req[q])

\* The invariant gives the three invariants of the runs
LEMMA InvGives == ASSUME Inv PROVE TypeOK /\ WholeOrTold /\ OneEntryPerRun
<1>1. TypeOK BY DEF Inv, Good, Counts, TypeOK
<1>2. WholeOrTold BY DEF Inv, Good, Told, WholeOrTold
<1>3. OneEntryPerRun
  <2> SUFFICES ASSUME NEW q \in Requests, req[q].entries # 0
               PROVE  /\ req[q].entries = 1 /\ req[q].audit = "over"
                      /\ req[q].pc \in {"logging", "done", "killed"}
    BY DEF OneEntryPerRun
  <2>1. req[q] \in Request /\ Stages(req[q]) /\ Entries(req[q]) BY DEF Inv, Good
  <2> QED BY <2>1 DEF Entries, Stages, Request, Before, Driver
<1> QED BY <1>1, <1>2, <1>3

LEMMA InitGood == ASSUME Init PROVE Inv
<1>1. Unmade \in Request BY BoundAssumption DEF Unmade, Request
<1>2. Good(Unmade)
  BY <1>1, BoundAssumption
  DEF Good, Stages, Counts, Entries, Told, Unmade, Before, Driver, Final, Cap
<1> QED BY <1>1, <1>2 DEF Init, Inv

\* A step that gives one request a good value keeps the invariant
LEMMA StepKeeps == ASSUME Inv, NEW q \in Requests, NEW r, Good(r), Becomes(q, r) PROVE Inv'
<1>1. req' = [req EXCEPT ![q] = r] /\ UNCHANGED <<may, auditing, service>> BY DEF Becomes
<1>2. req' \in [Requests -> Request] BY <1>1 DEF Inv, Good
<1>3. \A p \in Requests : Good(req'[p]) BY <1>1 DEF Inv
<1> QED BY <1>1, <1>2, <1>3 DEF Inv

\* What the client is told of a request that is as Counts says
LEMMA OutcomeFacts ==
  ASSUME NEW r \in Request, Counts(r)
  PROVE  /\ Outcome(r) \in {"rows", "truncated", "error"}
         /\ Outcome(r) = "rows" /\ r.sent # r.size =>
              r.kind \in {"csv", "lines"} /\ ~r.ok /\ r.begun
<1>1. CASE r.ok /\ r.kind = "stream" /\ r.sent >= Limit BY <1>1 DEF Outcome
<1>2. CASE r.ok /\ ~(r.kind = "stream" /\ r.sent >= Limit)
  <2>1. r.sent = r.size BY <1>2, BoundAssumption DEF Counts, Cap, Request
  <2> QED BY <1>2, <2>1 DEF Outcome
<1>3. CASE ~r.ok BY <1>3 DEF Outcome
<1> QED BY <1>1, <1>2, <1>3

LEMMA LeaveKeeps == ASSUME Inv, NEW q \in Requests, Leave(q) PROVE Inv'
<1> DEFINE r == [req[q] EXCEPT !.gone = TRUE]
<1>1. Good(req[q]) /\ req[q] \in Request BY DEF Inv, Good
<1>2. Good(r)
  <2>1. r \in Request BY <1>1 DEF Request
  <2>2. Stages(r) BY <1>1 DEF Leave, Good, Stages, Request, Before, Driver, Final
  <2>3. Counts(r) BY <1>1 DEF Leave, Good, Counts, Stages, Request, Before, Driver, Cap
  <2>4. Entries(r) BY <1>1 DEF Leave, Good, Entries, Stages, Request, Before, Driver
  <2>5. Told(r) BY <1>1 DEF Leave, Good, Told, Stages, Request, Final
  <2> QED BY <2>1, <2>2, <2>3, <2>4, <2>5 DEF Good
<1>3. Becomes(q, r) BY DEF Leave
<1> HIDE DEF r
<1> QED BY <1>2, <1>3, StepKeeps

LEMMA CheckKeeps == ASSUME Inv, NEW q \in Requests, Check(q) PROVE Inv'
<1> DEFINE r == [req[q] EXCEPT !.pc = "passed"]
<1>1. Good(req[q]) /\ req[q] \in Request BY DEF Inv, Good
<1>2. Good(r)
  <2>1. r \in Request BY <1>1 DEF Request
  <2>2. Stages(r) BY <1>1 DEF Check, Good, Stages, Request, Before, Driver, Final
  <2>3. Counts(r) BY <1>1 DEF Check, Good, Counts, Stages, Request, Before, Driver, Cap
  <2>4. Entries(r) BY <1>1 DEF Check, Good, Entries, Stages, Request, Before, Driver
  <2>5. Told(r) BY <1>1 DEF Check, Good, Told, Stages, Request, Final
  <2> QED BY <2>1, <2>2, <2>3, <2>4, <2>5 DEF Good
<1>3. Becomes(q, r) BY DEF Check
<1> HIDE DEF r
<1> QED BY <1>2, <1>3, StepKeeps

LEMMA ConnectKeeps == ASSUME Inv, NEW q \in Requests, Connect(q) PROVE Inv'
<1> DEFINE r == [req[q] EXCEPT !.pc = "running", !.ran = TRUE]
<1>1. Good(req[q]) /\ req[q] \in Request BY DEF Inv, Good
<1>2. Good(r)
  <2>1. r \in Request BY <1>1 DEF Request
  <2>2. Stages(r) BY <1>1 DEF Connect, Good, Stages, Request, Before, Driver, Final
  <2>3. Counts(r) BY <1>1 DEF Connect, Good, Counts, Stages, Request, Before, Driver, Cap
  <2>4. Entries(r) BY <1>1 DEF Connect, Good, Entries, Stages, Request, Before, Driver
  <2>5. Told(r) BY <1>1 DEF Connect, Good, Told, Stages, Request, Final
  <2> QED BY <2>1, <2>2, <2>3, <2>4, <2>5 DEF Good
<1>3. Becomes(q, r) BY DEF Connect
<1> HIDE DEF r
<1> QED BY <1>2, <1>3, StepKeeps

LEMMA ConnectFailsKeeps == ASSUME Inv, NEW q \in Requests, ConnectFails(q) PROVE Inv'
<1> DEFINE r == [req[q] EXCEPT !.pc = "ended"]
<1>1. Good(req[q]) /\ req[q] \in Request BY DEF Inv, Good
<1>2. Good(r)
  <2>1. r \in Request BY <1>1 DEF Request
  <2>2. Stages(r) BY <1>1 DEF ConnectFails, Good, Stages, Request, Before, Driver, Final
  <2>3. Counts(r) BY <1>1 DEF ConnectFails, Good, Counts, Stages, Request, Before, Driver, Cap
  <2>4. Entries(r) BY <1>1 DEF ConnectFails, Good, Entries, Stages, Request, Before, Driver
  <2>5. Told(r) BY <1>1 DEF ConnectFails, Good, Told, Stages, Request, Final
  <2> QED BY <2>1, <2>2, <2>3, <2>4, <2>5 DEF Good
<1>3. Becomes(q, r) BY DEF ConnectFails
<1> HIDE DEF r
<1> QED BY <1>2, <1>3, StepKeeps

LEMMA ColumnsKeeps == ASSUME Inv, NEW q \in Requests, Columns(q) PROVE Inv'
<1> DEFINE b == req[q].kind \in {"stream", "csv"}
<1> DEFINE r == [req[q] EXCEPT !.pc = "rows", !.begun = b]
<1>1. Good(req[q]) /\ req[q] \in Request BY DEF Inv, Good
<1>4. b \in BOOLEAN /\ (b => req[q].kind # "run") OBVIOUS
<1>3. Becomes(q, r) BY DEF Columns
<1> HIDE DEF b
<1>2. Good(r)
  <2>1. r \in Request BY <1>1, <1>4 DEF Request
  <2>2. Stages(r) BY <1>1, <1>4 DEF Columns, Good, Stages, Request, Before, Driver, Final
  <2>3. Counts(r) BY <1>1, <1>4 DEF Columns, Good, Counts, Stages, Request, Before, Driver, Cap
  <2>4. Entries(r) BY <1>1, <1>4 DEF Columns, Good, Entries, Stages, Request, Before, Driver
  <2>5. Told(r) BY <1>1, <1>4 DEF Columns, Good, Told, Stages, Request, Final
  <2> QED BY <2>1, <2>2, <2>3, <2>4, <2>5 DEF Good
<1> HIDE DEF r
<1> QED BY <1>2, <1>3, StepKeeps

LEMMA RowKeeps == ASSUME Inv, NEW q \in Requests, Row(q) PROVE Inv'
<1> DEFINE b == req[q].kind # "run"
<1> DEFINE r == [req[q] EXCEPT !.sent = @ + 1, !.begun = b]
<1>1. Good(req[q]) /\ req[q] \in Request BY DEF Inv, Good
<1>4. req[q].sent + 1 \in 0 .. MaxRows /\ req[q].sent < req[q].size
  BY <1>1, BoundAssumption DEF Row, Request, Cap
<1>5. b \in BOOLEAN /\ (b => req[q].kind # "run") OBVIOUS
<1>3. Becomes(q, r) BY DEF Row
<1>6. Told(r) BY <1>1 DEF Row, Good, Told, Stages, Request, Final
<1> HIDE DEF b
<1>2. Good(r)
  <2>1. r \in Request BY <1>1, <1>4, <1>5 DEF Request
  <2>2. Stages(r) BY <1>1, <1>5 DEF Row, Good, Stages, Request, Before, Driver, Final
  <2>3. Counts(r)
    BY <1>1, <1>4, <1>5, BoundAssumption
    DEF Row, Good, Counts, Stages, Request, Before, Driver, Cap
  <2>4. Entries(r) BY <1>1, <1>5 DEF Row, Good, Entries, Stages, Request, Before, Driver
  <2> QED BY <1>6, <2>1, <2>2, <2>3, <2>4 DEF Good
<1> HIDE DEF r
<1> QED BY <1>2, <1>3, StepKeeps

LEMMA EndKeeps == ASSUME Inv, NEW q \in Requests, End(q) PROVE Inv'
<1> DEFINE r == [req[q] EXCEPT !.pc = "ended", !.ok = TRUE]
<1>1. Good(req[q]) /\ req[q] \in Request BY DEF Inv, Good
<1>2. Good(r)
  <2>1. r \in Request BY <1>1 DEF Request
  <2>2. Stages(r) BY <1>1 DEF End, Good, Stages, Request, Before, Driver, Final
  <2>3. Counts(r) BY <1>1 DEF End, Good, Counts, Stages, Request, Before, Driver, Cap
  <2>4. Entries(r) BY <1>1 DEF End, Good, Entries, Stages, Request, Before, Driver
  <2>5. Told(r) BY <1>1 DEF End, Good, Told, Stages, Request, Final
  <2> QED BY <2>1, <2>2, <2>3, <2>4, <2>5 DEF Good
<1>3. Becomes(q, r) BY DEF End
<1> HIDE DEF r
<1> QED BY <1>2, <1>3, StepKeeps

LEMMA BreakKeeps == ASSUME Inv, NEW q \in Requests, Break(q) PROVE Inv'
<1> DEFINE r == [req[q] EXCEPT !.pc = "ended"]
<1>1. Good(req[q]) /\ req[q] \in Request BY DEF Inv, Good
<1>2. Good(r)
  <2>1. r \in Request BY <1>1 DEF Request
  <2>2. Stages(r) BY <1>1 DEF Break, Good, Stages, Request, Before, Driver, Final
  <2>3. Counts(r) BY <1>1 DEF Break, Good, Counts, Stages, Request, Before, Driver, Cap
  <2>4. Entries(r) BY <1>1 DEF Break, Good, Entries, Stages, Request, Before, Driver
  <2>5. Told(r) BY <1>1 DEF Break, Good, Told, Stages, Request, Final
  <2> QED BY <2>1, <2>2, <2>3, <2>4, <2>5 DEF Good
<1>3. Becomes(q, r) BY DEF Break
<1> HIDE DEF r
<1> QED BY <1>2, <1>3, StepKeeps

LEMMA AuditKeeps == ASSUME Inv, NEW q \in Requests, Audit(q) PROVE Inv'
<1> DEFINE r == [req[q] EXCEPT !.pc = "logging", !.audit = "calling"]
<1>1. Good(req[q]) /\ req[q] \in Request BY DEF Inv, Good
<1>2. Good(r)
  <2>1. r \in Request BY <1>1 DEF Request
  <2>2. Stages(r) BY <1>1 DEF Audit, Good, Stages, Request, Before, Driver, Final
  <2>3. Counts(r) BY <1>1 DEF Audit, Good, Counts, Stages, Request, Before, Driver, Cap
  <2>4. Entries(r) BY <1>1 DEF Audit, Good, Entries, Stages, Request, Before, Driver
  <2>5. Told(r) BY <1>1 DEF Audit, Good, Told, Stages, Request, Final
  <2> QED BY <2>1, <2>2, <2>3, <2>4, <2>5 DEF Good
<1>3. Becomes(q, r) BY DEF Audit
<1> HIDE DEF r
<1> QED BY <1>2, <1>3, StepKeeps

LEMMA PostKeeps == ASSUME Inv, NEW q \in Requests, Post(q) PROVE Inv'
<1> DEFINE r == [req[q] EXCEPT !.audit = "posted"]
<1>1. Good(req[q]) /\ req[q] \in Request BY DEF Inv, Good
<1>2. Good(r)
  <2>1. r \in Request BY <1>1 DEF Request
  <2>2. Stages(r) BY <1>1 DEF Post, Good, Stages, Request, Before, Driver, Final
  <2>3. Counts(r) BY <1>1 DEF Post, Good, Counts, Stages, Request, Before, Driver, Cap
  <2>4. Entries(r) BY <1>1 DEF Post, Good, Entries, Stages, Request, Before, Driver
  <2>5. Told(r) BY <1>1 DEF Post, Good, Told, Stages, Request, Final
  <2> QED BY <2>1, <2>2, <2>3, <2>4, <2>5 DEF Good
<1>3. Becomes(q, r) BY DEF Post
<1> HIDE DEF r
<1> QED BY <1>2, <1>3, StepKeeps

LEMMA CallFailsKeeps == ASSUME Inv, NEW q \in Requests, CallFails(q) PROVE Inv'
<1> DEFINE r == [req[q] EXCEPT !.audit = "over"]
<1>1. Good(req[q]) /\ req[q] \in Request BY DEF Inv, Good
<1>2. Good(r)
  <2>1. r \in Request BY <1>1 DEF Request
  <2>2. Stages(r) BY <1>1 DEF CallFails, Good, Stages, Request, Before, Driver, Final
  <2>3. Counts(r) BY <1>1 DEF CallFails, Good, Counts, Stages, Request, Before, Driver, Cap
  <2>4. Entries(r) BY <1>1 DEF CallFails, Good, Entries, Stages, Request, Before, Driver
  <2>5. Told(r) BY <1>1 DEF CallFails, Good, Told, Stages, Request, Final
  <2> QED BY <2>1, <2>2, <2>3, <2>4, <2>5 DEF Good
<1>3. Becomes(q, r) BY DEF CallFails
<1> HIDE DEF r
<1> QED BY <1>2, <1>3, StepKeeps

LEMMA RefuseKeeps == ASSUME Inv, NEW q \in Requests, Refuse(q) PROVE Inv'
<1> DEFINE answer == Tells(req[q], "error")
<1> DEFINE r == [req[q] EXCEPT !.pc = "done", !.told = answer]
<1>1. Good(req[q]) /\ req[q] \in Request BY DEF Inv, Good
<1>4. answer \in {"nothing", "error"}
  BY DEF Tells
<1> HIDE DEF answer
<1>2. Good(r)
  <2>1. r \in Request BY <1>1, <1>4 DEF Request
  <2>2. Stages(r) BY <1>1, <1>4 DEF Refuse, Good, Stages, Request, Before, Driver, Final
  <2>3. Counts(r) BY <1>1 DEF Refuse, Good, Counts, Stages, Request, Before, Driver, Cap
  <2>4. Entries(r) BY <1>1 DEF Refuse, Good, Entries, Stages, Request, Before, Driver
  <2>5. Told(r) BY <1>1, <1>4 DEF Refuse, Good, Told, Stages, Request, Final
  <2> QED BY <2>1, <2>2, <2>3, <2>4, <2>5 DEF Good
<1>3. Becomes(q, r) BY DEF Refuse, answer
<1> HIDE DEF r
<1> QED BY <1>2, <1>3, StepKeeps

LEMMA AnswerKeeps == ASSUME Inv, NEW q \in Requests, Answer(q) PROVE Inv'
<1> DEFINE answer == Tells(req[q], Outcome(req[q]))
<1> DEFINE r == [req[q] EXCEPT !.pc = "done", !.told = answer]
<1>1. Good(req[q]) /\ req[q] \in Request BY DEF Inv, Good
<1>4. /\ answer \in {"nothing", "rows", "truncated", "error"}
      /\ answer = "rows" /\ req[q].sent # req[q].size =>
           req[q].kind \in {"csv", "lines"} /\ ~req[q].ok /\ req[q].begun
  BY <1>1, OutcomeFacts DEF Tells, Good
<1> HIDE DEF answer
<1>2. Good(r)
  <2>1. r \in Request
    <3>1. PICK x \in Request : x = req[q] BY <1>1
    <3>2. PICK a \in {"nothing", "rows", "truncated", "error"} : a = answer BY <1>4
    <3>3. [x EXCEPT !.pc = "done", !.told = a] \in Request BY DEF Request
    <3> QED BY <3>1, <3>2, <3>3
  <2>2. Stages(r) BY <1>1, <1>4 DEF Answer, Good, Stages, Request, Before, Driver, Final
  <2>3. Counts(r) BY <1>1 DEF Answer, Good, Counts, Stages, Request, Before, Driver, Cap
  <2>4. Entries(r) BY <1>1 DEF Answer, Good, Entries, Stages, Request, Before, Driver
  <2>5. Told(r) BY <1>1, <1>4 DEF Answer, Good, Told, Stages, Request, Final
  <2> QED BY <2>1, <2>2, <2>3, <2>4, <2>5 DEF Good
<1>3. Becomes(q, r) BY DEF Answer, answer
<1> HIDE DEF r
<1> QED BY <1>2, <1>3, StepKeeps

LEMMA RecordKeeps == ASSUME Inv, NEW q \in Requests, Record(q) PROVE Inv'
<1> DEFINE n == IF may /\ auditing THEN req[q].entries + 1 ELSE req[q].entries
<1> DEFINE r == [req[q] EXCEPT !.audit = "over", !.entries = n]
<1>1. Good(req[q]) /\ req[q] \in Request BY DEF Inv, Good
<1>4. n \in {0, 1} /\ n \in Nat
  BY <1>1 DEF Record, Good, Entries, Request
<1> HIDE DEF n
<1>2. Good(r)
  <2>1. r \in Request BY <1>1, <1>4 DEF Request
  <2>2. Stages(r) BY <1>1 DEF Record, Good, Stages, Request, Before, Driver, Final
  <2>3. Counts(r) BY <1>1 DEF Record, Good, Counts, Stages, Request, Before, Driver, Cap
  <2>4. Entries(r) BY <1>1, <1>4 DEF Record, Good, Entries, Stages, Request, Before, Driver
  <2>5. Told(r) BY <1>1 DEF Record, Good, Told, Stages, Request, Final
  <2> QED BY <2>1, <2>2, <2>3, <2>4, <2>5 DEF Good
<1>3. Becomes(q, r) BY DEF Record, n
<1> HIDE DEF r
<1> QED BY <1>2, <1>3, StepKeeps

LEMMA PanicKeeps == ASSUME Inv, NEW q \in Requests, Panic(q) PROVE Inv'
<1> DEFINE answer == Tells(req[q], IF req[q].begun THEN "rows" ELSE "error")
<1> DEFINE r == [req[q] EXCEPT !.pc = "panicked", !.told = answer]
<1>1. Good(req[q]) /\ req[q] \in Request BY DEF Inv, Good
<1>3. Becomes(q, r) BY DEF Panic
<1>4. answer \in {"nothing", "rows", "error"} /\ (answer = "rows" => req[q].begun)
  BY DEF Tells
<1> HIDE DEF answer
<1>2. Good(r)
  <2>1. r \in Request BY <1>1, <1>4 DEF Request
  <2>2. Stages(r) BY <1>1, <1>4 DEF Panic, Good, Stages, Request, Before, Driver, Final
  <2>3. Counts(r) BY <1>1, <1>4 DEF Panic, Good, Counts, Stages, Request, Before, Driver, Cap
  <2>4. Entries(r) BY <1>1, <1>4 DEF Panic, Good, Entries, Stages, Request, Before, Driver
  <2>5. Told(r) BY <1>1, <1>4 DEF Panic, Good, Told, Counts, Stages, Request, Final
  <2> QED BY <2>1, <2>2, <2>3, <2>4, <2>5 DEF Good
<1> HIDE DEF r
<1> QED BY <1>2, <1>3, StepKeeps

LEMMA SubmitKeeps == ASSUME Inv, NEW q \in Requests, Submit(q) PROVE Inv'
<1>0. PICK kind \in {"run", "stream", "csv", "lines"}, n \in 0 .. MaxRows :
        Becomes(q, [req[q] EXCEPT !.pc = "sent", !.kind = kind, !.size = n])
  BY DEF Submit
<1> DEFINE r == [req[q] EXCEPT !.pc = "sent", !.kind = kind, !.size = n]
<1>1. Good(req[q]) /\ req[q] \in Request /\ req[q].pc = "none" BY DEF Inv, Good, Submit
<1>2. Good(r)
  <2>1. r \in Request BY <1>1 DEF Request
  <2>2. Stages(r) BY <1>1 DEF Good, Stages, Request, Before, Driver, Final
  <2>3. Counts(r)
    BY <1>1, BoundAssumption DEF Good, Counts, Stages, Request, Before, Driver, Cap
  <2>4. Entries(r) BY <1>1 DEF Good, Entries, Stages, Request, Before, Driver
  <2>5. Told(r) BY <1>1 DEF Good, Told, Stages, Request, Final
  <2> QED BY <2>1, <2>2, <2>3, <2>4, <2>5 DEF Good
<1>3. Becomes(q, r) BY <1>0
<1> HIDE DEF r
<1> QED BY <1>2, <1>3, StepKeeps

LEMMA KilledGood == ASSUME NEW x, Good(x) PROVE Good(Killed(x))
<1> DEFINE pc == IF x.pc \in Handled THEN "killed" ELSE x.pc
<1> DEFINE told == IF x.pc \in Handled THEN Tells(x, "error") ELSE x.told
<1> DEFINE audit == IF x.audit = "calling" THEN "over" ELSE x.audit
<1> DEFINE r == [x EXCEPT !.pc = pc, !.told = told, !.audit = audit]
<1>1. x \in Request BY DEF Good
<1>2. /\ pc \in {x.pc, "killed"} /\ (x.pc \in Handled <=> pc # x.pc)
      /\ pc \in {"none", "done", "panicked", "killed"}
  BY <1>1 DEF Request, Handled
<1>3. /\ told \in {"nothing", "error", x.told} /\ (pc = x.pc => told = x.told)
      /\ (pc # x.pc => told # "rows")
  BY <1>1, <1>2 DEF Tells
<1>4. /\ audit \in {"over", x.audit} /\ (x.audit = "none" <=> audit = "none")
      /\ (x.audit = "over" => audit = "over")
  OBVIOUS
<1>5. Killed(x) = r BY DEF Killed
<1> HIDE DEF pc, told, audit
<1>6. r \in Request
  <2>1. PICK p \in {"none", "done", "panicked", "killed"} : p = pc BY <1>2
  <2>2. PICK t \in {"nothing", "rows", "truncated", "error"} : t = told BY <1>1, <1>3 DEF Request
  <2>3. PICK a \in {"none", "calling", "posted", "over"} : a = audit BY <1>1, <1>4 DEF Request
  <2>4. [x EXCEPT !.pc = p, !.told = t, !.audit = a] \in Request BY <1>1 DEF Request
  <2> QED BY <2>1, <2>2, <2>3, <2>4
<1>7. /\ r.pc = pc /\ r.told = told /\ r.audit = audit /\ r.kind = x.kind
      /\ r.size = x.size /\ r.sent = x.sent /\ r.begun = x.begun /\ r.ok = x.ok
      /\ r.ran = x.ran /\ r.entries = x.entries
  BY <1>1 DEF Request
<1> HIDE DEF r
<1>8. Stages(r)
  BY <1>1, <1>2, <1>3, <1>4, <1>7 DEF Good, Stages, Request, Before, Driver, Final, Handled
<1>9. Counts(r) BY <1>1, <1>7 DEF Good, Counts, Cap
<1>10. Entries(r) BY <1>1, <1>4, <1>7 DEF Good, Entries
<1>11. Told(r) BY <1>1, <1>2, <1>3, <1>7 DEF Good, Told
<1> QED BY <1>5, <1>6, <1>8, <1>9, <1>10, <1>11 DEF Good

LEMMA ExitKeeps == ASSUME Inv, Exit PROVE Inv'
<1>1. \A q \in Requests : Good(req[q]) BY DEF Inv
<1>2. \A q \in Requests : Good(Killed(req[q])) BY <1>1, KilledGood
<1>3. req' = [q \in Requests |-> Killed(req[q])] BY DEF Exit
<1>4. \A q \in Requests : Killed(req[q]) \in Request BY <1>2 DEF Good
<1> HIDE DEF Killed
<1>5. req' \in [Requests -> Request] BY <1>3, <1>4
<1>6. \A q \in Requests : Good(req'[q]) BY <1>2, <1>3
<1> QED BY <1>5, <1>6 DEF Exit, Inv

LEMMA NextKeeps == ASSUME Inv, [Next]_vars PROVE Inv'
<1>1. CASE UNCHANGED vars BY <1>1 DEF vars, Inv
<1>2. CASE ChangeAccess BY <1>2 DEF ChangeAccess, Inv
<1>3. CASE ChangeSettings BY <1>3 DEF ChangeSettings, Inv
<1>4. CASE Drain BY <1>4 DEF Drain, Inv
<1>5. CASE Exit BY <1>5, ExitKeeps
<1>6. ASSUME NEW q \in Requests,
             \/ Submit(q) \/ Leave(q)
             \/ Check(q) \/ Refuse(q) \/ Connect(q) \/ ConnectFails(q)
             \/ Columns(q) \/ Row(q) \/ End(q) \/ Break(q) \/ Panic(q)
             \/ Audit(q) \/ Answer(q)
             \/ Post(q) \/ Record(q) \/ CallFails(q)
      PROVE  Inv'
  BY <1>6, SubmitKeeps, LeaveKeeps, CheckKeeps, RefuseKeeps, ConnectKeeps, ConnectFailsKeeps,
     ColumnsKeeps, RowKeeps, EndKeeps, BreakKeeps, PanicKeeps, AuditKeeps, AnswerKeeps,
     PostKeeps, RecordKeeps, CallFailsKeeps
<1> QED BY <1>1, <1>2, <1>3, <1>4, <1>5, <1>6 DEF Next
-----------------------------------------------------------------------------
LEMMA InvHolds == Spec => []Inv
<1>1. Init => Inv BY InitGood
<1>2. Inv /\ [Next]_vars => Inv' BY NextKeeps
<1> QED BY <1>1, <1>2, PTL DEF Spec

\* Every reachable state is type-correct, and no stream passes its limit (the loop over the
\* rows of the drivers).
THEOREM TypeCorrect == Spec => []TypeOK
<1>1. Inv => TypeOK BY InvGives
<1> QED BY <1>1, InvHolds, PTL

\* An answer that the client takes for the whole result is the whole result, but for the two
\* named cases, whatever the number of requests and rows and whatever the limit.
THEOREM WholeOrToldHolds == Spec => []WholeOrTold
<1>1. Inv => WholeOrTold BY InvGives
<1> QED BY <1>1, InvHolds, PTL

\* A query is recorded once at most, and only after it has ended (the goroutine of the
\* handler and log_query).
THEOREM OneEntryPerRunHolds == Spec => []OneEntryPerRun
<1>1. Inv => OneEntryPerRun BY InvGives
<1> QED BY <1>1, InvHolds, PTL
-----------------------------------------------------------------------------
(***************************************************************************)
(* The ways a query stays out of the audit log                             *)
(***************************************************************************)
\* A request comes to be missed by a step of its own, which leaves it without an entry
LEMMA MissedIsOwn ==
  ASSUME Inv, NEW q \in Requests, NEW p \in Requests, NEW r \in Request, Becomes(p, r),
         ~Missed(q), Missed(q)'
  PROVE  p = q /\ r.entries = 0
<1>1. req' = [req EXCEPT ![p] = r] BY DEF Becomes
<1>2. req \in [Requests -> Request] BY DEF Inv
<1>3. p = q BY <1>1, <1>2 DEF Missed
<1>4. req'[q] = r BY <1>1, <1>2, <1>3
<1> QED BY <1>3, <1>4 DEF Missed

\* The API records a query whose user may use the account, while auditing is on
LEMMA RecordMisses ==
  ASSUME Inv, NEW q \in Requests, NEW p \in Requests, Record(p), ~Missed(q), Missed(q)'
  PROVE  req[q].audit = "posted" /\ (~may \/ ~auditing)
<1> DEFINE n == IF may /\ auditing THEN req[p].entries + 1 ELSE req[p].entries
<1> DEFINE r == [req[p] EXCEPT !.audit = "over", !.entries = n]
<1>1. req[p] \in Request BY DEF Inv
<1>2. n \in Nat /\ (may /\ auditing => n # 0) BY <1>1 DEF Request
<1>3. Becomes(p, r) BY DEF Record
<1> HIDE DEF n
<1>4. r \in Request /\ r.entries = n BY <1>1, <1>2 DEF Request
<1> HIDE DEF r
<1>5. p = q /\ r.entries = 0 BY <1>3, <1>4, MissedIsOwn
<1> QED BY <1>2, <1>4, <1>5 DEF Record

\* The other steps of the handler and the post end nothing that should have been recorded
LEMMA OthersMissNothing ==
  ASSUME Inv, NEW q \in Requests, NEW p \in Requests,
         \/ Submit(p) \/ Leave(p) \/ Check(p) \/ Refuse(p) \/ Connect(p) \/ ConnectFails(p)
         \/ Columns(p) \/ Row(p) \/ End(p) \/ Break(p) \/ Audit(p) \/ Answer(p) \/ Post(p),
         ~Missed(q), Missed(q)'
  PROVE  FALSE
<1>1. Stages(req[q]) /\ req[q] \in Request BY DEF Inv, Good
<1>2. req \in [Requests -> Request] BY DEF Inv
<1>3. CASE Submit(p)
  <2>1. PICK kind \in {"run", "stream", "csv", "lines"}, n \in 0 .. MaxRows :
          Becomes(p, [req[p] EXCEPT !.pc = "sent", !.kind = kind, !.size = n])
    BY <1>3 DEF Submit
  <2>2. CASE p = q
    <3>1. PICK x \in Request : x = req[q] BY <1>1
    <3>2. x.pc = "none" /\ ~x.ran BY <1>1, <1>3, <2>2, <3>1 DEF Submit, Stages, Before
    <3>3. req'[q] = [x EXCEPT !.pc = "sent", !.kind = kind, !.size = n] BY <1>2, <2>1, <2>2, <3>1 DEF Becomes
    <3>4. [x EXCEPT !.pc = "sent", !.kind = kind, !.size = n].ran = x.ran BY DEF Request
    <3> QED BY <3>2, <3>3, <3>4 DEF Missed
  <2>3. CASE p # q BY <1>2, <2>1, <2>3 DEF Becomes, Missed
  <2> QED BY <2>2, <2>3
<1> USE <1>1, <1>2 DEF Becomes, Missed, Stages, Before, Driver, Final, Request
<1>4. CASE Leave(p) BY <1>4 DEF Leave, Handled
<1>5. CASE Check(p) BY <1>5 DEF Check
<1>6. CASE Refuse(p) BY <1>6 DEF Refuse
<1>7. CASE Connect(p) BY <1>7 DEF Connect
<1>8. CASE ConnectFails(p) BY <1>8 DEF ConnectFails
<1>9. CASE Columns(p) BY <1>9 DEF Columns
<1>10. CASE Row(p) BY <1>10 DEF Row
<1>11. CASE End(p) BY <1>11 DEF End
<1>12. CASE Break(p) BY <1>12 DEF Break
<1>13. CASE Audit(p) BY <1>13 DEF Audit
<1>14. CASE Answer(p) BY <1>14 DEF Answer
<1>15. CASE Post(p) BY <1>15 DEF Post
<1> QED BY <1>3, <1>4, <1>5, <1>6, <1>7, <1>8, <1>9, <1>10, <1>11, <1>12, <1>13, <1>14, <1>15

\* Every query that is missed is missed for one of the named causes, for any number of
\* requests: errors, deadlines and clients that leave are never among them (the goroutine of
\* the handler, LogQuery, log_query, main).
THEOREM MissedForCauseHolds == Spec => MissedForCause
<1>1. ASSUME Inv, [Next]_vars, NEW q \in Requests, ~Missed(q), Missed(q)'
      PROVE  \/ req[q].audit = "posted" /\ (~may \/ ~auditing)
             \/ CallFails(q) \/ Panic(q) \/ Exit
  <2>1. ASSUME req' = req PROVE FALSE BY <1>1, <2>1 DEF Missed
  <2>2. ASSUME NEW p \in Requests, Record(p)
        PROVE  req[q].audit = "posted" /\ (~may \/ ~auditing)
    BY <1>1, <2>2, RecordMisses
  <2>3. ASSUME NEW p \in Requests, CallFails(p) \/ Panic(p) PROVE p = q
    BY <1>1, <2>3 DEF CallFails, Panic, Becomes, Missed, Inv
  <2>4. ASSUME NEW p \in Requests,
               \/ Submit(p) \/ Leave(p) \/ Check(p) \/ Refuse(p) \/ Connect(p)
               \/ ConnectFails(p) \/ Columns(p) \/ Row(p) \/ End(p) \/ Break(p)
               \/ Audit(p) \/ Answer(p) \/ Post(p)
        PROVE  FALSE
    BY <1>1, <2>4, OthersMissNothing
  <2>5. CASE ChangeAccess \/ ChangeSettings \/ Drain \/ UNCHANGED vars
    BY <2>1, <2>5 DEF ChangeAccess, ChangeSettings, Drain, vars
  <2>6. CASE Exit BY <2>6
  <2>7. CASE \E p \in Requests :
               \/ Submit(p) \/ Leave(p)
               \/ Check(p) \/ Refuse(p) \/ Connect(p) \/ ConnectFails(p)
               \/ Columns(p) \/ Row(p) \/ End(p) \/ Break(p) \/ Panic(p)
               \/ Audit(p) \/ Answer(p)
               \/ Post(p) \/ Record(p) \/ CallFails(p)
    BY <2>2, <2>3, <2>4, <2>7
  <2> QED BY <1>1, <2>5, <2>6, <2>7 DEF Next
<1>2. Inv /\ [Next]_vars =>
        [\A q \in Requests :
           ~Missed(q) /\ Missed(q)' =>
             \/ req[q].audit = "posted" /\ (~may \/ ~auditing)
             \/ CallFails(q) \/ Panic(q) \/ Exit]_vars
  BY <1>1
<1> QED BY <1>2, InvHolds, PTL DEF Spec, MissedForCause
-----------------------------------------------------------------------------
(***************************************************************************)
(* That every request settles rests on weak fairness, of which the prover  *)
(* knows nothing.  What it rests on besides is proved: a number that every *)
(* step of a request's stage lowers, so that the steps that must come are  *)
(* not undone, and that is zero when the request has settled.              *)
(***************************************************************************)
\* How far a handler is from its end, and the call of /log from its own
Depth(pc) ==
  CASE pc = "sent" -> 9
    [] pc = "passed" -> 8
    [] pc = "running" -> 7
    [] pc = "rows" -> 6
    [] pc = "ended" -> 5
    [] pc = "logging" -> 1
    [] OTHER -> 0

Pending(audit) ==
  CASE audit = "calling" -> 3
    [] audit = "posted" -> 2
    [] OTHER -> 0

Ahead(x) == Depth(x.pc) + Pending(x.audit)

SameStage(x, y) == y.pc = x.pc /\ y.audit = x.audit

\* The steps that fairness asks for
Settle(q) == Refuse(q) \/ ConnectFails(q) \/ Break(q) \/ Audit(q) \/ Answer(q) \/ CallFails(q)

SettlingCountsDown ==
  [][\A q \in Requests :
       /\ Settle(q) => Ahead(req'[q]) < Ahead(req[q])
       /\ req[q].pc # "none" => SameStage(req[q], req'[q]) \/ Ahead(req'[q]) < Ahead(req[q])]_vars

SettledAtZero ==
  \A q \in Requests :
    /\ Ahead(req[q]) \in Nat
    /\ Ahead(req[q]) = 0 /\ req[q].pc # "none" =>
         req[q].pc \in Final /\ req[q].audit \in {"none", "over"}

\* The ways from one stage to a later one
HandlerOn(x, y) ==
  /\ y.audit = x.audit
  /\ \/ x.pc = "sent" /\ y.pc \in {"passed", "done"}
     \/ x.pc = "passed" /\ y.pc \in {"running", "ended", "panicked"}
     \/ x.pc = "running" /\ y.pc \in {"rows", "ended", "panicked"}
     \/ x.pc = "rows" /\ y.pc \in {"ended", "panicked"}
     \/ x.pc = "logging" /\ y.pc = "done"

CallOn(x, y) ==
  /\ y.pc = x.pc
  /\ \/ x.audit = "calling" /\ y.audit \in {"posted", "over"}
     \/ x.audit = "posted" /\ y.audit = "over"

Reports(x, y) == x.pc = "ended" /\ x.audit = "none" /\ y.pc = "logging" /\ y.audit = "calling"

Dies(x, y) == x.pc \in Handled /\ y.pc = "killed" /\ y.audit \in {x.audit, "over"}

Onward(x, y) == HandlerOn(x, y) \/ CallOn(x, y) \/ Reports(x, y) \/ Dies(x, y)

LEMMA DepthsAre ==
  /\ Depth("sent") = 9 /\ Depth("passed") = 8 /\ Depth("running") = 7 /\ Depth("rows") = 6
  /\ Depth("ended") = 5 /\ Depth("logging") = 1
  /\ Depth("none") = 0 /\ Depth("done") = 0 /\ Depth("panicked") = 0 /\ Depth("killed") = 0
  /\ Pending("calling") = 3 /\ Pending("posted") = 2 /\ Pending("none") = 0 /\ Pending("over") = 0
BY DEF Depth, Pending

LEMMA DepthsType ==
  /\ \A x \in Request : Depth(x.pc) \in Nat /\ Pending(x.audit) \in Nat
  /\ \A x \in Request : x.pc \in Handled => Depth(x.pc) >= 1
BY DepthsAre DEF Request, Handled

LEMMA OnwardFalls ==
  ASSUME NEW x \in Request, NEW y, Onward(x, y)
  PROVE  Ahead(y) < Ahead(x)
<1>1. Depth(x.pc) \in Nat /\ Pending(x.audit) \in Nat BY DepthsType
<1>2. CASE HandlerOn(x, y)
  <2>1. Depth(y.pc) < Depth(x.pc) BY <1>2, DepthsAre DEF HandlerOn
  <2>2. Depth(y.pc) \in Nat BY <1>2, DepthsAre DEF HandlerOn
  <2>3. Pending(y.audit) = Pending(x.audit) BY <1>2 DEF HandlerOn
  <2> QED BY <1>1, <2>1, <2>2, <2>3 DEF Ahead
<1>3. CASE CallOn(x, y)
  <2>1. Pending(y.audit) < Pending(x.audit) /\ Pending(y.audit) \in Nat BY <1>3, DepthsAre DEF CallOn
  <2>2. Depth(y.pc) = Depth(x.pc) BY <1>3 DEF CallOn
  <2> QED BY <1>1, <2>1, <2>2 DEF Ahead
<1>4. CASE Reports(x, y) BY <1>4, DepthsAre DEF Reports, Ahead
<1>5. CASE Dies(x, y)
  <2>1. Depth(y.pc) = 0 /\ Depth(x.pc) >= 1 BY <1>5, DepthsAre, DepthsType DEF Dies
  <2>2. Pending(y.audit) <= Pending(x.audit) /\ Pending(y.audit) \in Nat BY <1>1, <1>5, DepthsAre DEF Dies
  <2> QED BY <1>1, <2>1, <2>2 DEF Ahead
<1> QED BY <1>2, <1>3, <1>4, <1>5 DEF Onward

\* A step of one request changes no other, and makes it what it says
LEMMA BecomesIs ==
  ASSUME Inv, NEW q \in Requests, NEW p \in Requests, NEW r, Becomes(p, r)
  PROVE  (p = q => req'[q] = r) /\ (p # q => req'[q] = req[q])
<1>1. req \in [Requests -> Request] BY DEF Inv
<1> QED BY <1>1 DEF Becomes

\* The steps fairness asks for go onward
LEMMA SettleGoesOn ==
  ASSUME Inv, NEW q \in Requests, Settle(q)
  PROVE  Onward(req[q], req'[q])
<1>1. PICK x \in Request : x = req[q] BY DEF Inv
<1>2. Stages(x) BY <1>1 DEF Inv, Good
<1>3. CASE Refuse(q)
  <2>1. PICK a : Becomes(q, [x EXCEPT !.pc = "done", !.told = a]) BY <1>1, <1>3 DEF Refuse
  <2>2. req'[q] = [x EXCEPT !.pc = "done", !.told = a] BY <2>1, BecomesIs
  <2>3. req'[q].pc = "done" /\ req'[q].audit = x.audit BY <2>2 DEF Request
  <2>4. x.pc = "sent" BY <1>1, <1>3 DEF Refuse
  <2> QED BY <1>1, <2>3, <2>4 DEF Onward, HandlerOn
<1>4. CASE ConnectFails(q)
  <2>1. req'[q] = [x EXCEPT !.pc = "ended"] BY <1>1, <1>4, BecomesIs DEF ConnectFails
  <2>2. req'[q].pc = "ended" /\ req'[q].audit = x.audit BY <2>1 DEF Request
  <2>3. x.pc = "passed" BY <1>1, <1>4 DEF ConnectFails
  <2> QED BY <1>1, <2>2, <2>3 DEF Onward, HandlerOn
<1>5. CASE Break(q)
  <2>1. req'[q] = [x EXCEPT !.pc = "ended"] BY <1>1, <1>5, BecomesIs DEF Break
  <2>2. req'[q].pc = "ended" /\ req'[q].audit = x.audit BY <2>1 DEF Request
  <2>3. x.pc \in {"running", "rows"} BY <1>1, <1>5 DEF Break
  <2> QED BY <1>1, <2>2, <2>3 DEF Onward, HandlerOn
<1>6. CASE Audit(q)
  <2>1. req'[q] = [x EXCEPT !.pc = "logging", !.audit = "calling"] BY <1>1, <1>6, BecomesIs DEF Audit
  <2>2. req'[q].pc = "logging" /\ req'[q].audit = "calling" BY <2>1 DEF Request
  <2>3. x.pc = "ended" BY <1>1, <1>6 DEF Audit
  <2>4. x.audit = "none" BY <1>2, <2>3 DEF Stages
  <2> QED BY <1>1, <2>2, <2>3, <2>4 DEF Onward, Reports
<1>7. CASE Answer(q)
  <2>1. PICK a : Becomes(q, [x EXCEPT !.pc = "done", !.told = a]) BY <1>1, <1>7 DEF Answer
  <2>2. req'[q] = [x EXCEPT !.pc = "done", !.told = a] BY <2>1, BecomesIs
  <2>3. req'[q].pc = "done" /\ req'[q].audit = x.audit BY <2>2 DEF Request
  <2>4. x.pc = "logging" BY <1>1, <1>7 DEF Answer
  <2> QED BY <1>1, <2>3, <2>4 DEF Onward, HandlerOn
<1>8. CASE CallFails(q)
  <2>1. req'[q] = [x EXCEPT !.audit = "over"] BY <1>1, <1>8, BecomesIs DEF CallFails
  <2>2. req'[q].pc = x.pc /\ req'[q].audit = "over" BY <2>1 DEF Request
  <2>3. x.audit \in {"calling", "posted"} BY <1>1, <1>8 DEF CallFails
  <2> QED BY <1>1, <2>2, <2>3 DEF Onward, CallOn
<1> QED BY <1>3, <1>4, <1>5, <1>6, <1>7, <1>8 DEF Settle

\* So do the other steps of a request that change its stage
LEMMA OthersGoOn ==
  ASSUME Inv, NEW q \in Requests, req[q].pc # "none",
         \/ Submit(q) \/ Leave(q) \/ Check(q) \/ Connect(q) \/ Columns(q) \/ Row(q) \/ End(q)
         \/ Panic(q) \/ Post(q) \/ Record(q)
  PROVE  SameStage(req[q], req'[q]) \/ Onward(req[q], req'[q])
<1>1. PICK x \in Request : x = req[q] BY DEF Inv
<1>2. CASE Submit(q) BY <1>2 DEF Submit
<1>3. CASE Leave(q)
  <2>1. req'[q] = [x EXCEPT !.gone = TRUE] BY <1>1, <1>3, BecomesIs DEF Leave
  <2>2. req'[q].pc = x.pc /\ req'[q].audit = x.audit BY <2>1 DEF Request
  <2> QED BY <1>1, <2>2 DEF SameStage
<1>4. CASE Check(q)
  <2>1. req'[q] = [x EXCEPT !.pc = "passed"] BY <1>1, <1>4, BecomesIs DEF Check
  <2>2. req'[q].pc = "passed" /\ req'[q].audit = x.audit BY <2>1 DEF Request
  <2>3. x.pc = "sent" BY <1>1, <1>4 DEF Check
  <2> QED BY <1>1, <2>2, <2>3 DEF Onward, HandlerOn
<1>5. CASE Connect(q)
  <2>1. req'[q] = [x EXCEPT !.pc = "running", !.ran = TRUE] BY <1>1, <1>5, BecomesIs DEF Connect
  <2>2. req'[q].pc = "running" /\ req'[q].audit = x.audit BY <2>1 DEF Request
  <2>3. x.pc = "passed" BY <1>1, <1>5 DEF Connect
  <2> QED BY <1>1, <2>2, <2>3 DEF Onward, HandlerOn
<1>6. CASE Columns(q)
  <2>1. PICK b : Becomes(q, [x EXCEPT !.pc = "rows", !.begun = b]) BY <1>1, <1>6 DEF Columns
  <2>2. req'[q] = [x EXCEPT !.pc = "rows", !.begun = b] BY <2>1, BecomesIs
  <2>3. req'[q].pc = "rows" /\ req'[q].audit = x.audit BY <2>2 DEF Request
  <2>4. x.pc = "running" BY <1>1, <1>6 DEF Columns
  <2> QED BY <1>1, <2>3, <2>4 DEF Onward, HandlerOn
<1>7. CASE Row(q)
  <2>1. PICK n, b : Becomes(q, [x EXCEPT !.sent = n, !.begun = b]) BY <1>1, <1>7 DEF Row
  <2>2. req'[q] = [x EXCEPT !.sent = n, !.begun = b] BY <2>1, BecomesIs
  <2>3. req'[q].pc = x.pc /\ req'[q].audit = x.audit BY <2>2 DEF Request
  <2> QED BY <1>1, <2>3 DEF SameStage
<1>8. CASE End(q)
  <2>1. req'[q] = [x EXCEPT !.pc = "ended", !.ok = TRUE] BY <1>1, <1>8, BecomesIs DEF End
  <2>2. req'[q].pc = "ended" /\ req'[q].audit = x.audit BY <2>1 DEF Request
  <2>3. x.pc = "rows" BY <1>1, <1>8 DEF End
  <2> QED BY <1>1, <2>2, <2>3 DEF Onward, HandlerOn
<1>9. CASE Panic(q)
  <2>1. PICK a : Becomes(q, [x EXCEPT !.pc = "panicked", !.told = a]) BY <1>1, <1>9 DEF Panic
  <2>2. req'[q] = [x EXCEPT !.pc = "panicked", !.told = a] BY <2>1, BecomesIs
  <2>3. req'[q].pc = "panicked" /\ req'[q].audit = x.audit BY <2>2 DEF Request
  <2>4. x.pc \in {"passed", "running", "rows"} BY <1>1, <1>9 DEF Panic
  <2> QED BY <1>1, <2>3, <2>4 DEF Onward, HandlerOn
<1>10. CASE Post(q)
  <2>1. req'[q] = [x EXCEPT !.audit = "posted"] BY <1>1, <1>10, BecomesIs DEF Post
  <2>2. req'[q].pc = x.pc /\ req'[q].audit = "posted" BY <2>1 DEF Request
  <2>3. x.audit = "calling" BY <1>1, <1>10 DEF Post
  <2> QED BY <1>1, <2>2, <2>3 DEF Onward, CallOn
<1>11. CASE Record(q)
  <2>1. PICK n : Becomes(q, [x EXCEPT !.audit = "over", !.entries = n]) BY <1>1, <1>11 DEF Record
  <2>2. req'[q] = [x EXCEPT !.audit = "over", !.entries = n] BY <2>1, BecomesIs
  <2>3. req'[q].pc = x.pc /\ req'[q].audit = "over" BY <2>2 DEF Request
  <2>4. x.audit = "posted" BY <1>1, <1>11 DEF Record
  <2> QED BY <1>1, <2>3, <2>4 DEF Onward, CallOn
<1> QED BY <1>2, <1>3, <1>4, <1>5, <1>6, <1>7, <1>8, <1>9, <1>10, <1>11

\* What the end of the process makes of a request
LEMMA KilledGoesOn ==
  ASSUME NEW x \in Request
  PROVE  SameStage(x, Killed(x)) \/ Onward(x, Killed(x))
<1> DEFINE pc == IF x.pc \in Handled THEN "killed" ELSE x.pc
           told == IF x.pc \in Handled THEN Tells(x, "error") ELSE x.told
           audit == IF x.audit = "calling" THEN "over" ELSE x.audit
<1>1. Killed(x) = [x EXCEPT !.pc = pc, !.told = told, !.audit = audit] BY DEF Killed
<1>2. x.pc \in Handled => pc = "killed" OBVIOUS
<1>3. x.pc \notin Handled => pc = x.pc OBVIOUS
<1>4. x.audit = "calling" => audit = "over" OBVIOUS
<1>5. x.audit # "calling" => audit = x.audit OBVIOUS
<1> HIDE DEF pc, told, audit
<1>6. Killed(x).pc = pc /\ Killed(x).audit = audit BY <1>1 DEF Request
<1> HIDE DEF Killed
<1>7. CASE x.pc \in Handled BY <1>2, <1>4, <1>5, <1>6, <1>7 DEF Onward, Dies
<1>8. CASE x.pc \notin Handled /\ x.audit = "calling" BY <1>3, <1>4, <1>6, <1>8 DEF Onward, CallOn
<1>9. CASE x.pc \notin Handled /\ x.audit # "calling" BY <1>3, <1>5, <1>6, <1>9 DEF SameStage
<1> QED BY <1>7, <1>8, <1>9

\* Every step leaves a request in its stage or takes it onward
LEMMA StageStep ==
  ASSUME Inv, [Next]_vars, NEW q \in Requests, req[q].pc # "none"
  PROVE  SameStage(req[q], req'[q]) \/ Onward(req[q], req'[q])
<1> DEFINE On == SameStage(req[q], req'[q]) \/ Onward(req[q], req'[q])
<1>1. CASE req' = req BY <1>1 DEF SameStage
<1>2. CASE Exit
  <2>1. req'[q] = Killed(req[q]) BY <1>2 DEF Exit
  <2>2. req[q] \in Request BY DEF Inv
  <2> QED BY <2>1, <2>2, KilledGoesOn
<1>3. ASSUME NEW p \in Requests,
             \/ Submit(p) \/ Leave(p)
             \/ Check(p) \/ Refuse(p) \/ Connect(p) \/ ConnectFails(p)
             \/ Columns(p) \/ Row(p) \/ End(p) \/ Break(p) \/ Panic(p)
             \/ Audit(p) \/ Answer(p)
             \/ Post(p) \/ Record(p) \/ CallFails(p)
      PROVE  On
  <2>1. CASE p # q
    <3>1. PICK r : Becomes(p, r)
      BY <1>3 DEF Submit, Leave, Check, Refuse, Connect, ConnectFails, Columns, Row, End, Break,
                  Panic, Audit, Answer, Post, Record, CallFails
    <3>2. req'[q] = req[q] BY <2>1, <3>1, BecomesIs
    <3> QED BY <3>2 DEF SameStage
  <2>2. CASE p = q /\ Settle(q) BY <2>2, SettleGoesOn
  <2>3. CASE p = q /\ ~Settle(q)
    <3>1. \/ Submit(q) \/ Leave(q) \/ Check(q) \/ Connect(q) \/ Columns(q) \/ Row(q) \/ End(q)
          \/ Panic(q) \/ Post(q) \/ Record(q)
      BY <1>3, <2>3 DEF Settle
    <3> QED BY <3>1, OthersGoOn
  <2> QED BY <2>1, <2>2, <2>3
<1>4. CASE ChangeAccess \/ ChangeSettings \/ Drain \/ UNCHANGED vars
  BY <1>1, <1>4 DEF ChangeAccess, ChangeSettings, Drain, vars
<1> QED BY <1>2, <1>3, <1>4 DEF Next

\* Each step that a deadline brings takes a request nearer its end, and no step of another
\* request, of the client or of the process takes it back (the deadlines of handlers/query.go,
\* handlers/stream.go and client/api.go).
LEMMA SettlingSteps == Spec => SettlingCountsDown
<1>1. ASSUME Inv, [Next]_vars, NEW q \in Requests
      PROVE  /\ Settle(q) => Ahead(req'[q]) < Ahead(req[q])
             /\ req[q].pc # "none" => SameStage(req[q], req'[q]) \/ Ahead(req'[q]) < Ahead(req[q])
  <2>1. req[q] \in Request BY <1>1 DEF Inv
  <2>2. Settle(q) => Ahead(req'[q]) < Ahead(req[q]) BY <1>1, <2>1, SettleGoesOn, OnwardFalls
  <2>3. req[q].pc # "none" => SameStage(req[q], req'[q]) \/ Ahead(req'[q]) < Ahead(req[q])
    BY <1>1, <2>1, StageStep, OnwardFalls
  <2> QED BY <2>2, <2>3
<1>2. Inv /\ [Next]_vars =>
        [\A q \in Requests :
           /\ Settle(q) => Ahead(req'[q]) < Ahead(req[q])
           /\ req[q].pc # "none" => SameStage(req[q], req'[q]) \/ Ahead(req'[q]) < Ahead(req[q])]_vars
  BY <1>1
<1> QED BY <1>2, InvHolds, PTL DEF Spec, SettlingCountsDown

\* A request that has none of these steps before it has its answer, and its report is over.
LEMMA SettledStates == Spec => []SettledAtZero
<1>1. ASSUME Inv, NEW q \in Requests
      PROVE  /\ Ahead(req[q]) \in Nat
             /\ Ahead(req[q]) = 0 /\ req[q].pc # "none" =>
                  req[q].pc \in Final /\ req[q].audit \in {"none", "over"}
  <2>1. PICK x \in Request : x = req[q] BY <1>1 DEF Inv
  <2>2. Depth(x.pc) \in Nat /\ Pending(x.audit) \in Nat BY DepthsType
  <2>3. Ahead(x) \in Nat /\ (Ahead(x) = 0 => Depth(x.pc) = 0 /\ Pending(x.audit) = 0) BY <2>2 DEF Ahead
  <2>4. Depth(x.pc) = 0 /\ x.pc # "none" => x.pc \in Final BY DepthsAre DEF Request, Final
  <2>5. Pending(x.audit) = 0 => x.audit \in {"none", "over"} BY DepthsAre DEF Request
  <2> QED BY <2>1, <2>3, <2>4, <2>5
<1>2. Inv => SettledAtZero BY <1>1 DEF SettledAtZero
<1> QED BY <1>2, InvHolds, PTL

\* A query settles by steps that a deadline brings, each nearer the end, and at the end
\* it has its answer and its report is over.
THEOREM SettlingHolds == Spec => SettlingCountsDown /\ []SettledAtZero
BY SettlingSteps, SettledStates
-----------------------------------------------------------------------------
(* TableDesign: a new table's form and its statements *)

LEMMA MinIsLeast ==
  ASSUME NEW S \in SUBSET Nat, S # {}
  PROVE  Min(S) \in S /\ \A y \in S : Min(S) <= y
<1>1. PICK x \in S : \A y \in S : <<y, x>> \notin OpToRel(<, Nat)
  BY NatLessThanWellFounded, WFMin
<1>2. ASSUME NEW y \in S, y < x PROVE FALSE
  <2>1. <<y, x>> \in Nat \X Nat OBVIOUS
  <2>2. <<y, x>>[1] < <<y, x>>[2] BY <1>2
  <2>3. <<y, x>> \in OpToRel(<, Nat) BY <2>1, <2>2, Zenon DEF OpToRel
  <2> QED BY <1>1, <2>3
<1>3. \A y \in S : x <= y BY <1>2
<1> QED BY <1>3 DEF Min

LEMMA OneLess ==
  ASSUME NEW S, NEW s \in Seq(S), NEW i \in DOMAIN s
  PROVE  RemoveAt(s, i) \in Seq(S) /\ Len(RemoveAt(s, i)) = Len(s) - 1
<1>1. i \in 1 .. Len(s) /\ Len(s) \in Nat OBVIOUS
<1>2. SubSeq(s, 1, i - 1) \in Seq(S) /\ Len(SubSeq(s, 1, i - 1)) = i - 1 BY <1>1
<1>3. SubSeq(s, i + 1, Len(s)) \in Seq(S) /\ Len(SubSeq(s, i + 1, Len(s))) = Len(s) - i BY <1>1
<1>4. RemoveAt(s, i) \in Seq(S) BY <1>2, <1>3 DEF RemoveAt
<1>5. Len(RemoveAt(s, i)) = (i - 1) + (Len(s) - i) BY <1>2, <1>3 DEF RemoveAt
<1> QED BY <1>1, <1>4, <1>5

\* The table of a form with these foreign keys, and those it has before the i-th is added
Drafted(f, foreign) == [Created(f) EXCEPT !.foreign = foreign]
AddedBefore(f, i) == {f.foreign[j].column : j \in {k \in Left(f, 0) : k < i}}

\* While foreign keys are added the table has those that came before
OnTheWay == step \in Left(asked, 0) /\ base = Drafted(asked, AddedBefore(asked, step))

DesignInv ==
  /\ DesignTypeOK /\ RefusedForCause
  /\ outcome = "made" => base = Drawn(asked) /\ ~formTab
  /\ outcome = "running" /\ step # 0 => OnTheWay
  /\ outcome = "halfway" => OnTheWay

LEMMA FormsType ==
  ASSUME NEW f, IsForm(f)
  PROVE  /\ f.columns \in Seq(FormColumn) /\ Len(f.columns) \in Nat /\ DOMAIN f.columns = 1 .. Len(f.columns)
         /\ f.foreign \in Seq(FormForeignKey) /\ Len(f.foreign) \in Nat /\ DOMAIN f.foreign = 1 .. Len(f.foreign)
         /\ f.indexes \in Seq(SUBSET ColumnNames)
         /\ \A i \in DOMAIN f.columns : f.columns[i] \in FormColumn
         /\ \A i \in DOMAIN f.foreign : f.foreign[i] \in FormForeignKey
         /\ Left(f, 0) \in SUBSET (1 .. MaxForeign)
<1>1. /\ f.columns \in Seq(FormColumn) /\ f.foreign \in Seq(FormForeignKey)
      /\ f.indexes \in Seq(SUBSET ColumnNames) /\ Len(f.foreign) <= MaxForeign
  BY DEF IsForm
<1>2. /\ Len(f.columns) \in Nat /\ DOMAIN f.columns = 1 .. Len(f.columns)
      /\ Len(f.foreign) \in Nat /\ DOMAIN f.foreign = 1 .. Len(f.foreign)
  BY <1>1
<1>3. Left(f, 0) \in SUBSET (1 .. MaxForeign) BY <1>1, <1>2, FormAssumption DEF Left
<1> QED BY <1>1, <1>2, <1>3

LEMMA MadeGives ==
  ASSUME NEW f, IsForm(f), NEW foreign \in SUBSET ColumnNames
  PROVE  /\ Drafted(f, foreign) \in TableMade
         /\ Drafted(f, foreign).columns = Available(f) /\ Drafted(f, foreign).foreign = foreign
         /\ Drafted(f, {}) = Created(f)
<1>1. Available(f) \in SUBSET ColumnNames BY FormsType DEF Available, Defined, FormColumn
<1>2. {f.columns[i].name : i \in KeyColumns(f)} \in SUBSET ColumnNames
  BY FormsType DEF KeyColumns, Defined, FormColumn
<1>3. DefinedIndexes(f) \in SUBSET SUBSET ColumnNames BY FormsType DEF DefinedIndexes, ToSet
<1>4. Created(f) \in TableMade BY <1>1, <1>2, <1>3 DEF Created, TableMade
<1>5. PICK c : c = Created(f) OBVIOUS
<1>6. c.columns = Available(f) /\ c.foreign = {} BY <1>5 DEF Created
<1>7. c \in TableMade BY <1>4, <1>5
<1>8. [c EXCEPT !.foreign = {}] = c BY <1>6, <1>7 DEF TableMade
<1>9. [c EXCEPT !.foreign = foreign] \in TableMade BY <1>7 DEF TableMade
<1>10. [c EXCEPT !.foreign = foreign].columns = c.columns /\ [c EXCEPT !.foreign = foreign].foreign = foreign
  BY <1>7 DEF TableMade
<1> QED BY <1>5, <1>6, <1>8, <1>9, <1>10 DEF Drafted

LEMMA DraftedAdds ==
  ASSUME NEW f, IsForm(f), NEW foreign \in SUBSET ColumnNames, NEW d
  PROVE  [Drafted(f, foreign) EXCEPT !.foreign = @ \cup {d}] = Drafted(f, foreign \cup {d})
<1>1. PICK c : c = Created(f) OBVIOUS
<1>2. DOMAIN c = {"there", "columns", "key", "indexes", "foreign"}
  BY <1>1 DEF Created
<1>3. [[c EXCEPT !.foreign = foreign] EXCEPT !.foreign = @ \cup {d}] = [c EXCEPT !.foreign = foreign \cup {d}]
  BY <1>2
<1> QED BY <1>1, <1>3 DEF Drafted

\* What is drawn, column by column and key by key
LEMMA DrawnIs ==
  ASSUME NEW f, IsForm(f)
  PROVE  Drawn(f) = Drafted(f, {f.foreign[j].column : j \in Left(f, 0)})
<1> DEFINE named == {c \in ToSet(f.columns) : c.name # Unnamed}
           foreign == {fk.column : fk \in {g \in ToSet(f.foreign) : Complete(g)}}
<1>1. {c.name : c \in named} = Available(f) BY DEF Available, Defined, ToSet
<1>2. {c.name : c \in {d \in named : d.key}} = {f.columns[i].name : i \in KeyColumns(f)}
  BY DEF KeyColumns, Defined, ToSet
<1>3. foreign = {f.foreign[j].column : j \in Left(f, 0)}
  <2>1. \A j \in DOMAIN f.foreign : j > 0 BY FormsType
  <2> QED BY <2>1 DEF Left, ToSet
<1>4. Drawn(f) = [there |-> TRUE, columns |-> Available(f), key |-> {f.columns[i].name : i \in KeyColumns(f)},
                  indexes |-> DefinedIndexes(f), foreign |-> foreign]
  BY <1>1, <1>2 DEF Drawn, DefinedIndexes
<1> HIDE DEF foreign
<1>5. Drafted(f, foreign) =
        [there |-> TRUE, columns |-> Available(f), key |-> {f.columns[i].name : i \in KeyColumns(f)},
         indexes |-> DefinedIndexes(f), foreign |-> foreign]
  <2>1. PICK a, k, x, y : a = Available(f) /\ k = {f.columns[i].name : i \in KeyColumns(f)}
                         /\ x = DefinedIndexes(f) /\ y = foreign
    OBVIOUS
  <2>2. \A t : [[there |-> t, columns |-> a, key |-> k, indexes |-> x, foreign |-> {}] EXCEPT !.foreign = y]
                = [there |-> t, columns |-> a, key |-> k, indexes |-> x, foreign |-> y]
    OBVIOUS
  <2>3. Created(f) = [there |-> TRUE, columns |-> a, key |-> k, indexes |-> x, foreign |-> {}]
    BY <2>1 DEF Created
  <2> QED BY <2>1, <2>2, <2>3 DEF Drafted
<1> QED BY <1>3, <1>4, <1>5

LEMMA ForeignNames ==
  ASSUME NEW f, IsForm(f), NEW i
  PROVE  AddedBefore(f, i) \in SUBSET ColumnNames /\ {f.foreign[j].column : j \in Left(f, 0)} \in SUBSET ColumnNames
BY FormsType DEF AddedBefore, Left, Complete, FormForeignKey

\* The foreign keys between two that follow each other are none
LEMMA NextForeign ==
  ASSUME NEW f, IsForm(f), NEW i \in Nat
  PROVE  /\ Left(f, i) = {} => AddedBefore(f, i + 1) = {f.foreign[j].column : j \in Left(f, 0)}
         /\ Left(f, i) # {} => /\ Min(Left(f, i)) \in Left(f, 0)
                               /\ AddedBefore(f, Min(Left(f, i))) = AddedBefore(f, i + 1)
<1>0. \A j \in Left(f, 0) : j \in Nat /\ (j > i => j \in Left(f, i)) BY FormsType DEF Left
<1>1. Left(f, i) \subseteq Left(f, 0) /\ \A j \in Left(f, i) : j > i BY FormsType DEF Left
<1>2. ASSUME Left(f, i) = {} PROVE AddedBefore(f, i + 1) = {f.foreign[j].column : j \in Left(f, 0)}
  <2>1. \A j \in Left(f, 0) : j < i + 1 BY <1>0, <1>2
  <2>2. {k \in Left(f, 0) : k < i + 1} = Left(f, 0) BY <2>1
  <2> QED BY <2>2 DEF AddedBefore
<1>3. ASSUME Left(f, i) # {}
      PROVE  /\ Min(Left(f, i)) \in Left(f, 0)
             /\ AddedBefore(f, Min(Left(f, i))) = AddedBefore(f, i + 1)
  <2>1. Left(f, i) \in SUBSET Nat BY <1>0, <1>1
  <2>2. PICK m : m = Min(Left(f, i)) OBVIOUS
  <2>3. m \in Left(f, i) /\ \A y \in Left(f, i) : m <= y BY <1>3, <2>1, <2>2, MinIsLeast
  <2>4. \A j \in Left(f, 0) : j < m <=> j < i + 1 BY <1>0, <1>1, <2>1, <2>3
  <2>5. {k \in Left(f, 0) : k < m} = {k \in Left(f, 0) : k < i + 1} BY <2>4
  <2>6. AddedBefore(f, m) = AddedBefore(f, i + 1) BY <2>5 DEF AddedBefore
  <2> QED BY <1>1, <2>2, <2>3, <2>6
<1> QED BY <1>2, <1>3

\* A key that is in two columns or in none
LEMMA KeysAreTwo ==
  ASSUME NEW f, IsForm(f), ~(KeyClauses(f) <= 1)
  PROVE  \E i, j \in KeyColumns(f) : i # j
<1>1. SUFFICES ASSUME \A i, j \in KeyColumns(f) : i = j PROVE FALSE OBVIOUS
<1>2. CASE KeyColumns(f) = {}
  <2>1. Cardinality(KeyColumns(f)) = 0 BY <1>2, FS_EmptySet
  <2> QED BY <2>1 DEF KeyClauses
<1>3. CASE KeyColumns(f) # {}
  <2>1. PICK i : KeyColumns(f) = {i} BY <1>1, <1>3
  <2>2. Cardinality(KeyColumns(f)) = 1 BY <2>1, FS_Singleton
  <2> QED BY <2>2 DEF KeyClauses
<1> QED BY <1>2, <1>3

LEMMA FormChanged ==
  ASSUME NEW f, IsForm(f)
  PROVE  /\ IsForm([f EXCEPT !.named = TRUE])
         /\ \A c \in Seq(FormColumn) : Len(c) \in 1 .. MaxColumns => IsForm([f EXCEPT !.columns = c])
         /\ \A c \in Seq(SUBSET ColumnNames) : Len(c) <= 1 => IsForm([f EXCEPT !.indexes = c])
         /\ \A c \in Seq(FormForeignKey) : Len(c) <= MaxForeign => IsForm([f EXCEPT !.foreign = c])
<1> DEFINE Forms == [named : BOOLEAN, columns : Seq(FormColumn), indexes : Seq(SUBSET ColumnNames),
                     foreign : Seq(FormForeignKey)]
<1>1. /\ f \in Forms /\ Len(f.columns) \in 1 .. MaxColumns /\ Len(f.indexes) <= 1 /\ Len(f.foreign) <= MaxForeign
      /\ \A g : g \in Forms /\ Len(g.columns) \in 1 .. MaxColumns /\ Len(g.indexes) <= 1 /\ Len(g.foreign) <= MaxForeign
             => IsForm(g)
  BY DEF IsForm
<1>2. IsForm([f EXCEPT !.named = TRUE])
  <2> DEFINE g == [f EXCEPT !.named = TRUE]
  <2>1. g \in Forms BY <1>1
  <2>2. g.columns = f.columns /\ g.indexes = f.indexes /\ g.foreign = f.foreign BY <1>1
  <2> HIDE DEF g, Forms
  <2>3. IsForm(g) BY <1>1, <2>1, <2>2
  <2> QED BY <2>3 DEF g
<1>3. ASSUME NEW c \in Seq(FormColumn), Len(c) \in 1 .. MaxColumns PROVE IsForm([f EXCEPT !.columns = c])
  <2> DEFINE g == [f EXCEPT !.columns = c]
  <2>1. g \in Forms BY <1>1
  <2>2. g.columns = c /\ g.indexes = f.indexes /\ g.foreign = f.foreign BY <1>1
  <2> HIDE DEF g, Forms
  <2>3. IsForm(g) BY <1>1, <1>3, <2>1, <2>2
  <2> QED BY <2>3 DEF g
<1>4. ASSUME NEW c \in Seq(SUBSET ColumnNames), Len(c) <= 1 PROVE IsForm([f EXCEPT !.indexes = c])
  <2> DEFINE g == [f EXCEPT !.indexes = c]
  <2>1. g \in Forms BY <1>1
  <2>2. g.columns = f.columns /\ g.indexes = c /\ g.foreign = f.foreign BY <1>1
  <2> HIDE DEF g, Forms
  <2>3. IsForm(g) BY <1>1, <1>4, <2>1, <2>2
  <2> QED BY <2>3 DEF g
<1>5. ASSUME NEW c \in Seq(FormForeignKey), Len(c) <= MaxForeign PROVE IsForm([f EXCEPT !.foreign = c])
  <2> DEFINE g == [f EXCEPT !.foreign = c]
  <2>1. g \in Forms BY <1>1
  <2>2. g.columns = f.columns /\ g.indexes = f.indexes /\ g.foreign = c BY <1>1
  <2> HIDE DEF g, Forms
  <2>3. IsForm(g) BY <1>1, <1>5, <2>1, <2>2
  <2> QED BY <2>3 DEF g
<1> QED BY <1>2, <1>3, <1>4, <1>5

LEMMA ChangeKeeps == ASSUME DesignInv, NEW f, IsForm(f), Change(f) PROVE DesignInv'
<1>1. edits' \in 0 .. MaxEdits BY FormAssumption DEF Change, DesignInv, DesignTypeOK
<1>2. DesignTypeOK' BY <1>1 DEF Change, DesignInv, DesignTypeOK
<1>3. RefusedForCause' BY DEF Change, DesignInv, RefusedForCause
<1>4. outcome # "made" BY DEF Change, DesignInv
<1>5. outcome' = outcome /\ step' = step /\ asked' = asked /\ base' = base BY DEF Change
<1>6. OnTheWay <=> OnTheWay' BY <1>5 DEF OnTheWay
<1> QED BY <1>2, <1>3, <1>4, <1>5, <1>6 DEF DesignInv

LEMMA EditsKeep == ASSUME DesignInv, Edits PROVE DesignInv'
<1>0. IsForm(form) BY DEF DesignInv, DesignTypeOK
<1>1. /\ form.columns \in Seq(FormColumn) /\ Len(form.columns) \in 1 .. MaxColumns
      /\ form.indexes \in Seq(SUBSET ColumnNames) /\ Len(form.indexes) <= 1
      /\ form.foreign \in Seq(FormForeignKey) /\ Len(form.foreign) <= MaxForeign
      /\ Len(form.columns) \in Nat /\ Len(form.foreign) \in Nat /\ Len(form.indexes) \in Nat
  BY <1>0 DEF IsForm
<1>2. CASE NameTable BY <1>0, <1>2, FormChanged, ChangeKeeps DEF NameTable
<1>3. CASE AddColumn
  <2>0. PICK r : r = [name |-> Unnamed, key |-> FALSE] OBVIOUS
  <2>1. PICK c : c = Append(form.columns, r) OBVIOUS
  <2>2. r \in FormColumn BY <2>0 DEF FormColumn
  <2>3. c \in Seq(FormColumn) /\ Len(c) = Len(form.columns) + 1 BY <1>1, <2>1, <2>2
  <2>4. Len(c) \in 1 .. MaxColumns BY <1>1, <1>3, <2>3, FormAssumption DEF AddColumn
  <2>5. Change([form EXCEPT !.columns = c]) BY <1>3, <2>0, <2>1 DEF AddColumn
  <2> QED BY <1>0, <2>3, <2>4, <2>5, FormChanged, ChangeKeeps
<1>4. ASSUME NEW i \in DOMAIN form.columns, RemoveColumn(i) PROVE DesignInv'
  <2>1. PICK c : c = RemoveAt(form.columns, i) OBVIOUS
  <2>2. c \in Seq(FormColumn) /\ Len(c) = Len(form.columns) - 1 BY <1>1, <2>1, OneLess
  <2>3. Len(c) \in 1 .. MaxColumns BY <1>1, <1>4, <2>2, FormAssumption DEF RemoveColumn
  <2>4. Change([form EXCEPT !.columns = c]) BY <1>4, <2>1 DEF RemoveColumn
  <2> QED BY <1>0, <2>2, <2>3, <2>4, FormChanged, ChangeKeeps
<1>5. ASSUME NEW i \in DOMAIN form.columns, NEW x \in FormColumn, UpdateColumn(i, x) PROVE DesignInv'
  <2>1. PICK c : c = [form.columns EXCEPT ![i] = x] OBVIOUS
  <2>2. c \in Seq(FormColumn) /\ Len(c) = Len(form.columns) BY <1>1, <2>1
  <2>4. Change([form EXCEPT !.columns = c]) BY <1>5, <2>1 DEF UpdateColumn
  <2> QED BY <1>0, <1>1, <2>2, <2>4, FormChanged, ChangeKeeps
<1>6. CASE AddIndex
  <2>1. PICK c : c = <<{}>> OBVIOUS
  <2>2. c \in Seq(SUBSET ColumnNames) /\ Len(c) = 1 BY <2>1
  <2>3. Change([form EXCEPT !.indexes = c]) BY <1>6, <2>1 DEF AddIndex
  <2>4. Len(c) <= 1 BY <2>2
  <2>5. IsForm([form EXCEPT !.indexes = c]) BY <1>0, <2>2, <2>4, FormChanged
  <2> QED BY <2>3, <2>5, ChangeKeeps
<1>7. CASE RemoveIndex
  <2>1. PICK c : c = <<>> OBVIOUS
  <2>2. c \in Seq(SUBSET ColumnNames) /\ Len(c) = 0 BY <2>1
  <2>3. Change([form EXCEPT !.indexes = c]) BY <1>7, <2>1 DEF RemoveIndex
  <2>4. Len(c) <= 1 BY <2>2
  <2>5. IsForm([form EXCEPT !.indexes = c]) BY <1>0, <2>2, <2>4, FormChanged
  <2> QED BY <2>3, <2>5, ChangeKeeps
<1>8. ASSUME NEW x \in ColumnNames, ToggleIndexColumn(x) PROVE DesignInv'
  <2>1. PICK d : d = SymDiff(form.indexes[1], {x}) OBVIOUS
  <2>2. PICK c : c = [form.indexes EXCEPT ![1] = d] OBVIOUS
  <2>3. Len(form.indexes) = 1 /\ form.indexes[1] \in SUBSET ColumnNames
    <3>1. form.indexes # <<>> BY <1>8 DEF ToggleIndexColumn
    <3>2. PICK q : q = form.indexes OBVIOUS
    <3>3. PICK n : n = Len(q) OBVIOUS
    <3>4. q \in Seq(SUBSET ColumnNames) /\ n \in Nat /\ n <= 1 BY <1>1, <3>2, <3>3
    <3>5. n # 0 BY <3>1, <3>2, <3>3, <3>4
    <3>6. n = 1 BY <3>4, <3>5
    <3>8. \A i \in 1 .. n : q[i] \in SUBSET ColumnNames BY <3>3, <3>4
    <3>7. q[1] \in SUBSET ColumnNames BY <3>6, <3>8
    <3> QED BY <3>2, <3>3, <3>6, <3>7
  <2>4. d \in SUBSET ColumnNames BY <2>1, <2>3 DEF SymDiff
  <2>5. c \in Seq(SUBSET ColumnNames) /\ Len(c) = Len(form.indexes) BY <1>1, <2>2, <2>3, <2>4
  <2>6. Change([form EXCEPT !.indexes = c]) BY <1>8, <2>1, <2>2 DEF ToggleIndexColumn
  <2> QED BY <1>0, <1>1, <2>5, <2>6, FormChanged, ChangeKeeps
<1>9. CASE AddForeignKey
  <2>0. PICK r : r = [column |-> Unnamed, chosen |-> FALSE] OBVIOUS
  <2>1. PICK c : c = Append(form.foreign, r) OBVIOUS
  <2>2. r \in FormForeignKey BY <2>0 DEF FormForeignKey
  <2>3. c \in Seq(FormForeignKey) /\ Len(c) = Len(form.foreign) + 1 BY <1>1, <2>1, <2>2
  <2>4. Len(c) <= MaxForeign BY <1>1, <1>9, <2>3, FormAssumption DEF AddForeignKey
  <2>5. Change([form EXCEPT !.foreign = c]) BY <1>9, <2>0, <2>1 DEF AddForeignKey
  <2> QED BY <1>0, <2>3, <2>4, <2>5, FormChanged, ChangeKeeps
<1>10. ASSUME NEW i \in DOMAIN form.foreign, RemoveForeignKey(i) PROVE DesignInv'
  <2>1. PICK c : c = RemoveAt(form.foreign, i) OBVIOUS
  <2>2. c \in Seq(FormForeignKey) /\ Len(c) = Len(form.foreign) - 1 BY <1>1, <2>1, OneLess
  <2>3. Len(c) <= MaxForeign BY <1>1, <2>2, FormAssumption
  <2>4. Change([form EXCEPT !.foreign = c]) BY <1>10, <2>1 DEF RemoveForeignKey
  <2> QED BY <1>0, <2>2, <2>3, <2>4, FormChanged, ChangeKeeps
<1>11. ASSUME NEW i \in DOMAIN form.foreign, NEW x \in FormForeignKey, UpdateForeignKey(i, x)
       PROVE  DesignInv'
  <2>1. PICK c : c = [form.foreign EXCEPT ![i] = x] OBVIOUS
  <2>2. c \in Seq(FormForeignKey) /\ Len(c) = Len(form.foreign) BY <1>1, <2>1
  <2>4. Change([form EXCEPT !.foreign = c]) BY <1>11, <2>1 DEF UpdateForeignKey
  <2> QED BY <1>0, <1>1, <2>2, <2>4, FormChanged, ChangeKeeps
<1> QED BY <1>2, <1>3, <1>4, <1>5, <1>6, <1>7, <1>8, <1>9, <1>10, <1>11 DEF Edits

\* After a statement the next foreign key is added to what is there, or the table is made
LEMMA GoOnKeeps ==
  ASSUME DesignInv, NEW i \in Nat, GoOn(i), outcome = "running",
         base' = Drafted(asked, AddedBefore(asked, i + 1)), UNCHANGED <<engine, form, edits, asked>>
  PROVE  DesignInv'
<1>0. IsForm(asked) BY DEF DesignInv, DesignTypeOK
<1>1. base' \in TableMade BY <1>0, ForeignNames, MadeGives
<1>2. CASE Left(asked, i) = {}
  <2>1. outcome' = "made" /\ formTab' = FALSE /\ step' = step BY <1>2 DEF GoOn, Finish
  <2>2. base' = Drawn(asked) BY <1>0, <1>2, NextForeign, DrawnIs
  <2>3. DesignTypeOK' BY <1>1, <2>1 DEF DesignInv, DesignTypeOK
  <2>4. RefusedForCause' BY <2>1 DEF RefusedForCause
  <2> QED BY <2>1, <2>2, <2>3, <2>4 DEF DesignInv
<1>3. CASE Left(asked, i) # {}
  <2>1. step' = Min(Left(asked, i)) /\ outcome' = outcome /\ formTab' = formTab
    BY <1>3 DEF GoOn
  <2>2. step' \in Left(asked, 0) /\ AddedBefore(asked, step') = AddedBefore(asked, i + 1)
    BY <1>0, <1>3, <2>1, NextForeign
  <2>3. step' \in 0 .. MaxForeign BY <1>0, <2>2, FormsType
  <2>4. DesignTypeOK' BY <1>1, <2>1, <2>3 DEF DesignInv, DesignTypeOK
  <2>5. OnTheWay' BY <2>2 DEF OnTheWay
  <2>6. RefusedForCause' BY <2>1 DEF RefusedForCause
  <2> QED BY <2>1, <2>4, <2>5, <2>6 DEF DesignInv
<1> QED BY <1>2, <1>3

LEMMA CreateKeeps == ASSUME DesignInv, Create PROVE DesignInv'
<1>0. IsForm(asked) BY DEF DesignInv, DesignTypeOK
<1>1. CASE Creatable(asked)
  <2>1. base' = Created(asked) /\ GoOn(0) BY <1>1 DEF Create
  <2>2. {k \in Left(asked, 0) : k < 1} = {}
    <3>1. \A k \in Left(asked, 0) : k \in 1 .. MaxForeign BY <1>0, FormsType
    <3> QED BY <3>1
  <2>3. AddedBefore(asked, 0 + 1) = {} BY <2>2 DEF AddedBefore
  <2>4. base' = Drafted(asked, AddedBefore(asked, 0 + 1)) BY <1>0, <2>1, <2>3, MadeGives
  <2> QED BY <2>1, <2>4, GoOnKeeps DEF Create
<1>2. CASE ~Creatable(asked)
  <2>1. /\ outcome' = "refused" /\ base' = base /\ step' = step /\ formTab' = formTab
        /\ engine' = engine /\ form' = form /\ edits' = edits /\ asked' = asked
    BY <1>2 DEF Create
  <2>2. \/ base.there
        \/ \E i, j \in Defined(asked) : i # j /\ asked.columns[i].name = asked.columns[j].name
        \/ ~(KeyClauses(asked) <= 1)
        \/ \E c \in DefinedIndexes(asked) : c = {} \/ ~(c \subseteq Available(asked))
        \/ engine = "mysql" /\ DefinedIndexes(asked) # {}
    BY <1>2 DEF Creatable
  <2>3. \A c \in DefinedIndexes(asked) : c \in ToSet(asked.indexes) /\ c # {} BY DEF DefinedIndexes
  <2>5. RefusedForCause'
    <3>2. \/ base.there
          \/ \E i, j \in DOMAIN asked.columns :
               /\ i # j /\ Unnamed \notin {asked.columns[i].name, asked.columns[j].name}
               /\ \/ asked.columns[i].name = asked.columns[j].name
                  \/ asked.columns[i].key /\ asked.columns[j].key
          \/ \E columns \in ToSet(asked.indexes) :
               (engine = "mysql" /\ columns # {}) \/ ~(columns \subseteq Available(asked))
      <4>1. CASE \E i, j \in Defined(asked) : i # j /\ asked.columns[i].name = asked.columns[j].name
        BY <4>1 DEF Defined
      <4>2. CASE ~(KeyClauses(asked) <= 1)
        <5>1. \E i, j \in KeyColumns(asked) : i # j BY <1>0, <4>2, KeysAreTwo
        <5> QED BY <5>1 DEF KeyColumns, Defined
      <4>3. CASE base.there BY <4>3
      <4>4. CASE \E c \in DefinedIndexes(asked) : c = {} \/ ~(c \subseteq Available(asked))
        BY <2>3, <4>4
      <4>5. CASE engine = "mysql" /\ DefinedIndexes(asked) # {} BY <2>3, <4>5
      <4> QED BY <2>2, <4>1, <4>2, <4>3, <4>4, <4>5
    <3>3. base' = base /\ asked' = asked /\ engine' = engine BY <2>1
    <3> QED BY <3>2, <3>3 DEF RefusedForCause
  <2>6. DesignTypeOK' BY <2>1 DEF DesignInv, DesignTypeOK
  <2> QED BY <2>1, <2>5, <2>6 DEF DesignInv
<1> QED BY <1>1, <1>2

LEMMA AddForeignKeeps == ASSUME DesignInv, AddForeign PROVE DesignInv'
<1>0. IsForm(asked) BY DEF DesignInv, DesignTypeOK
<1>1. outcome = "running" /\ step # 0 /\ OnTheWay
  BY DEF DesignInv, DesignTypeOK, AddForeign
<1>2. PICK fk : fk = asked.foreign[step] OBVIOUS
<1>3. CASE base' = [base EXCEPT !.foreign = @ \cup {fk.column}] /\ GoOn(step)
  <2>1. AddedBefore(asked, step + 1) = AddedBefore(asked, step) \cup {fk.column}
    <3>1. PICK n \in Left(asked, 0) : n = step BY <1>1 DEF OnTheWay
    <3>2. \A k \in Left(asked, 0) : k \in Nat BY <1>0, FormsType
    <3>3. {k \in Left(asked, 0) : k < n + 1} = {k \in Left(asked, 0) : k < n} \cup {n}
      BY <3>1, <3>2
    <3>4. AddedBefore(asked, n + 1) = AddedBefore(asked, n) \cup {asked.foreign[n].column}
      BY <3>3 DEF AddedBefore
    <3> QED BY <1>2, <3>1, <3>4
  <2>2. AddedBefore(asked, step) \in SUBSET ColumnNames BY <1>0, ForeignNames
  <2>3. base' = Drafted(asked, AddedBefore(asked, step) \cup {fk.column})
    <3>1. PICK F \in SUBSET ColumnNames : F = AddedBefore(asked, step) BY <2>2
    <3>2. base = Drafted(asked, F) BY <1>1, <3>1 DEF OnTheWay
    <3>3. PICK d : d = fk.column OBVIOUS
    <3>4. PICK b : b = Drafted(asked, F) OBVIOUS
    <3>5. base' = [b EXCEPT !.foreign = @ \cup {d}] BY <1>3, <3>2, <3>3, <3>4
    <3>6. [b EXCEPT !.foreign = @ \cup {d}] = Drafted(asked, F \cup {d}) BY <1>0, <3>4, DraftedAdds
    <3> QED BY <3>1, <3>3, <3>5, <3>6
  <2>4. base' = Drafted(asked, AddedBefore(asked, step + 1)) BY <2>1, <2>3
  <2>5. step \in Nat BY FormAssumption DEF DesignInv, DesignTypeOK
  <2> QED BY <1>1, <1>3, <2>4, <2>5, GoOnKeeps DEF AddForeign
<1>4. CASE outcome' = "halfway" /\ UNCHANGED <<base, step, formTab>>
  <2>1. base' = base /\ asked' = asked /\ step' = step BY <1>4 DEF AddForeign
  <2>2. OnTheWay' BY <1>1, <2>1 DEF OnTheWay
  <2>3. DesignTypeOK' BY <1>4 DEF AddForeign, DesignInv, DesignTypeOK
  <2>4. RefusedForCause' BY <1>4 DEF RefusedForCause
  <2> QED BY <1>4, <2>2, <2>3, <2>4 DEF DesignInv
<1> QED BY <1>2, <1>3, <1>4 DEF AddForeign

LEMMA InitDesign == DesignInit => DesignInv
<1> SUFFICES ASSUME DesignInit PROVE DesignInv OBVIOUS
<1>1. PICK r, c, x : r = [name |-> Unnamed, key |-> FALSE] /\ c = <<r>> /\ x = <<>> OBVIOUS
<1>2. r \in FormColumn BY <1>1 DEF FormColumn
<1>3. c \in Seq(FormColumn) /\ Len(c) = 1 BY <1>1, <1>2
<1>4. x \in Seq(SUBSET ColumnNames) /\ x \in Seq(FormForeignKey) /\ Len(x) = 0 BY <1>1
<1>5. \A t \in BOOLEAN : IsForm([named |-> t, columns |-> c, indexes |-> x, foreign |-> x])
  <2> TAKE t \in BOOLEAN
  <2>1. PICK f : f = [named |-> t, columns |-> c, indexes |-> x, foreign |-> x] OBVIOUS
  <2>2. f \in [named : BOOLEAN, columns : Seq(FormColumn), indexes : Seq(SUBSET ColumnNames),
               foreign : Seq(FormForeignKey)]
    BY <1>3, <1>4, <2>1
  <2>3. f.columns = c /\ f.indexes = x /\ f.foreign = x BY <2>1
  <2>4. 1 \in 1 .. MaxColumns /\ 0 <= MaxForeign /\ 0 <= 1 BY FormAssumption
  <2>5. IsForm(f) BY <1>3, <1>4, <2>2, <2>3, <2>4 DEF IsForm
  <2> QED BY <2>1, <2>5
<1>6. IsForm(EmptyForm) BY <1>1, <1>5 DEF EmptyForm
<1>7. \A t \in BOOLEAN : [there |-> t, columns |-> {}, key |-> {}, indexes |-> {}, foreign |-> {}] \in TableMade
  BY DEF TableMade
<1>8. NoTable \in TableMade BY <1>7 DEF NoTable
<1>9. 0 \in 0 .. MaxEdits /\ 0 \in 0 .. MaxForeign BY FormAssumption
<1>10. DesignTypeOK BY <1>6, <1>8, <1>9 DEF DesignInit, DesignTypeOK
<1> QED BY <1>10 DEF DesignInit, DesignInv, RefusedForCause

LEMMA DesignStep == DesignInv /\ [DesignNext]_designVars => DesignInv'
<1> SUFFICES ASSUME DesignInv, [DesignNext]_designVars PROVE DesignInv' OBVIOUS
<1>0. IsForm(asked) BY DEF DesignInv, DesignTypeOK
<1>1. CASE CreateTable
  <2>1. 0 \in 0 .. MaxForeign BY FormAssumption
  <2>2. DesignTypeOK' BY <1>1, <2>1 DEF CreateTable, DesignInv, DesignTypeOK
  <2>3. RefusedForCause' BY <1>1 DEF CreateTable, RefusedForCause
  <2>4. outcome' = "running" /\ step' = 0 BY <1>1 DEF CreateTable
  <2> QED BY <2>2, <2>3, <2>4 DEF DesignInv
<1>2. CASE Trouble
  <2>1. outcome' = "trouble" BY <1>2 DEF Trouble
  <2>2. Created(asked) \in TableMade BY <1>0, MadeGives
  <2>3. base' \in TableMade BY <1>2, <2>2 DEF Trouble, DesignInv, DesignTypeOK
  <2>4. DesignTypeOK' BY <1>2, <2>1, <2>3 DEF Trouble, DesignInv, DesignTypeOK
  <2>5. RefusedForCause' BY <2>1 DEF RefusedForCause
  <2> QED BY <2>1, <2>4, <2>5 DEF DesignInv
<1>3. CASE Cancel
  <2>1. /\ formTab' = FALSE /\ outcome' = outcome /\ step' = step /\ asked' = asked /\ base' = base
        /\ engine' = engine /\ form' = form /\ edits' = edits
    BY <1>3 DEF Cancel
  <2>2. DesignTypeOK' BY <2>1 DEF DesignInv, DesignTypeOK
  <2>3. RefusedForCause' BY <2>1 DEF DesignInv, RefusedForCause
  <2>4. OnTheWay <=> OnTheWay' BY <2>1 DEF OnTheWay
  <2> QED BY <2>1, <2>2, <2>3, <2>4 DEF DesignInv
<1>4. CASE UNCHANGED designVars
  <2>1. /\ formTab' = formTab /\ outcome' = outcome /\ step' = step /\ asked' = asked /\ base' = base
        /\ engine' = engine /\ form' = form /\ edits' = edits
    BY <1>4 DEF designVars
  <2>2. DesignTypeOK' BY <2>1 DEF DesignInv, DesignTypeOK
  <2>3. RefusedForCause' BY <2>1 DEF DesignInv, RefusedForCause
  <2>4. OnTheWay <=> OnTheWay' BY <2>1 DEF OnTheWay
  <2> QED BY <2>1, <2>2, <2>3, <2>4 DEF DesignInv
<1> QED BY <1>1, <1>2, <1>3, <1>4, EditsKeep, CreateKeeps, AddForeignKeeps DEF DesignNext

LEMMA DesignGives == DesignInv => DesignTypeOK /\ MadeAsDrawn /\ HalfwayIsPart /\ RefusedForCause
<1> SUFFICES ASSUME DesignInv PROVE MadeAsDrawn /\ HalfwayIsPart BY DEF DesignInv
<1>0. IsForm(asked) BY DEF DesignInv, DesignTypeOK
<1>1. MadeAsDrawn BY DEF DesignInv, MadeAsDrawn
<1>2. HalfwayIsPart
  <2>1. SUFFICES ASSUME OnTheWay
                 PROVE  /\ base = [Drawn(asked) EXCEPT !.foreign = base.foreign]
                        /\ base.foreign \subseteq Drawn(asked).foreign
    BY DEF DesignInv, HalfwayIsPart
  <2>2. PICK F \in SUBSET ColumnNames : F = AddedBefore(asked, step) BY <1>0, ForeignNames
  <2>3. PICK G \in SUBSET ColumnNames : G = {asked.foreign[j].column : j \in Left(asked, 0)}
    BY <1>0, ForeignNames
  <2>4. base = Drafted(asked, F) /\ Drawn(asked) = Drafted(asked, G) BY <1>0, <2>1, <2>2, <2>3, DrawnIs DEF OnTheWay
  <2>5. base.foreign = F /\ Drawn(asked).foreign = G BY <1>0, <2>4, MadeGives
  <2>6. F \subseteq G BY <2>2, <2>3 DEF AddedBefore
  <2>7. PICK c \in TableMade : c = Created(asked) BY <1>0, MadeGives
  <2>8. [[c EXCEPT !.foreign = G] EXCEPT !.foreign = F] = [c EXCEPT !.foreign = F]
    BY <2>7 DEF TableMade
  <2>9. [Drawn(asked) EXCEPT !.foreign = F] = base BY <2>4, <2>7, <2>8 DEF Drafted
  <2> QED BY <2>5, <2>6, <2>9
<1> QED BY <1>1, <1>2

\* A new table's form, for any number of columns, foreign keys and changes.
THEOREM DesignHolds == DesignSpec => [](DesignTypeOK /\ MadeAsDrawn /\ HalfwayIsPart /\ RefusedForCause)
BY InitDesign, DesignStep, DesignGives, PTL DEF DesignSpec
-----------------------------------------------------------------------------
(* ColumnEdits: the Edit Column dialog *)

\* Where the column stands unless a try failed halfway: as it was when the dialog was opened,
\* with what has been run of the statements, or with all of them
Progress ==
  /\ state \in {"typing", "failed"} => stored = opened
  /\ state = "closed" => stored = opened
  /\ state = "running" => stored = IF todo = Statements THEN opened ELSE Effect("alter", opened)
  /\ state = "saved" => IF server = "postgres" THEN stored = typedIn
                        ELSE stored = AlteredMySQL(opened) /\ ~Differs("comment")

ColumnInv ==
  /\ ColumnTypeOK
  /\ halfway => tries # 0 /\ (tries = 1 => state \in {"typing", "failed"})
  /\ state = "closed" => typedIn = opened
  /\ state = "running" => todo = Statements \/ (Len(Statements) = 2 /\ todo = <<"comment">>)
  /\ state = "running" => todo # <<>> /\ tries # 0
  /\ ~halfway => Progress
  /\ halfway /\ state = "failed" /\ tries = 1 => stored = Effect("alter", opened)

LEMMA PairIs == ASSUME NEW S, NEW a \in S, NEW b \in S PROVE <<a>> \o <<b>> = <<a, b>>
<1>1. PICK u, v, w : u = <<a>> /\ v = <<b>> /\ w = <<a, b>> OBVIOUS
<1>2. u \in Seq(S) /\ v \in Seq(S) /\ w \in Seq(S) /\ Len(u) = 1 /\ Len(v) = 1 /\ Len(w) = 2
  BY <1>1
<1>3. u \o v \in Seq(S) /\ Len(u \o v) = 2 BY <1>2
<1>4. (u \o v)[1] = a /\ (u \o v)[2] = b BY <1>1, <1>2
<1>5. w[1] = a /\ w[2] = b BY <1>1
<1>6. PICK z : z = u \o v OBVIOUS
<1>7. z = w BY <1>2, <1>3, <1>4, <1>5, <1>6
<1> QED BY <1>1, <1>6, <1>7

LEMMA StatementsAre ==
  \/ /\ Statements = <<>> /\ ~Differs("comment") /\ \A field \in Altered : ~Differs(field)
  \/ /\ Statements = <<"alter">> /\ ~Differs("comment") /\ \E field \in Altered : Differs(field)
  \/ /\ Statements = <<"comment">> /\ Differs("comment") /\ \A field \in Altered : ~Differs(field)
  \/ /\ Statements = <<"alter", "comment">> /\ Differs("comment") /\ \E field \in Altered : Differs(field)
<1>1. CASE \E field \in Altered : Differs(field)
  <2>1. CASE Differs("comment")
    <3>1. Statements = <<"alter">> \o <<"comment">> BY <1>1, <2>1 DEF Statements
    <3>2. <<"alter">> \o <<"comment">> = <<"alter", "comment">>
      <4>1. "alter" \in {"alter", "comment"} /\ "comment" \in {"alter", "comment"} OBVIOUS
      <4> QED BY <4>1, PairIs, Zenon
    <3> QED BY <1>1, <2>1, <3>1, <3>2
  <2>2. CASE ~Differs("comment")
    <3>1. Statements = <<"alter">> \o <<>> BY <1>1, <2>2 DEF Statements
    <3>2. <<"alter">> \o <<>> = <<"alter">> OBVIOUS
    <3> QED BY <1>1, <2>2, <3>1, <3>2
  <2> QED BY <2>1, <2>2
<1>2. CASE ~ \E field \in Altered : Differs(field)
  <2>1. CASE Differs("comment")
    <3>1. Statements = <<>> \o <<"comment">> BY <1>2, <2>1 DEF Statements
    <3>2. <<>> \o <<"comment">> = <<"comment">> OBVIOUS
    <3> QED BY <1>2, <2>1, <3>1, <3>2
  <2>2. CASE ~Differs("comment")
    <3>1. Statements = <<>> \o <<>> BY <1>2, <2>2 DEF Statements
    <3>2. <<>> \o <<>> = <<>> OBVIOUS
    <3> QED BY <1>2, <2>2, <3>1, <3>2
  <2> QED BY <2>1, <2>2
<1> QED BY <1>1, <1>2

LEMMA ColumnsAre ==
  ASSUME ColumnTypeOK, NEW column \in Column
  PROVE  /\ AlteredPostgres(column) \in Column /\ AlteredMySQL(column) \in Column
         /\ \A statement : Effect(statement, column) \in Column
<1>1. typedIn \in Column /\ Fallback \in DataTypes BY FallbackAssumption DEF ColumnTypeOK
<1>2. AlteredPostgres(column) \in Column BY <1>1 DEF AlteredPostgres, Column
<1>3. AlteredMySQL(column) \in Column BY <1>1 DEF AlteredMySQL, Column
<1>4. [column EXCEPT !.comment = typedIn.comment] \in Column BY <1>1 DEF Column
<1> QED BY <1>2, <1>3, <1>4 DEF Effect

\* What does not differ is as it was when the dialog was opened
LEMMA DiffersGives ==
  ASSUME ColumnTypeOK
  PROVE  /\ Differs("type") <=> typedIn.type # opened.type
         /\ Differs("nullable") <=> typedIn.nullable # opened.nullable
         /\ Differs("default") <=> typedIn.default # opened.default
         /\ Differs("comment") <=> typedIn.comment # opened.comment
         /\ (\A field \in Altered : ~Differs(field)) <=>
              /\ typedIn.type = opened.type /\ typedIn.nullable = opened.nullable
              /\ typedIn.default = opened.default
<1>1. /\ Differs("type") <=> typedIn.type # opened.type
      /\ Differs("nullable") <=> typedIn.nullable # opened.nullable
      /\ Differs("default") <=> typedIn.default # opened.default
      /\ Differs("comment") <=> typedIn.comment # opened.comment
  BY DEF Differs
<1>2. (\A field \in Altered : ~Differs(field)) <=> ~Differs("type") /\ ~Differs("nullable") /\ ~Differs("default")
  BY DEF Altered
<1> QED BY <1>1, <1>2

\* The fields of a column that was altered
LEMMA AlteredGives ==
  ASSUME ColumnTypeOK
  PROVE  /\ AlteredPostgres(opened).type = typedIn.type
         /\ AlteredPostgres(opened).nullable = typedIn.nullable
         /\ AlteredPostgres(opened).default = typedIn.default
         /\ AlteredPostgres(opened).comment = opened.comment
         /\ LET modify == Differs("type") \/ Differs("nullable") IN
            /\ AlteredMySQL(opened).type = IF ~modify THEN opened.type ELSE IF Differs("type") THEN typedIn.type ELSE Fallback
            /\ AlteredMySQL(opened).nullable = IF ~modify THEN opened.nullable ELSE IF Differs("nullable") THEN typedIn.nullable ELSE TRUE
            /\ AlteredMySQL(opened).default = IF Differs("default") THEN typedIn.default ELSE IF modify THEN NoDefault ELSE opened.default
            /\ AlteredMySQL(opened).comment = IF modify THEN NoComment ELSE opened.comment
<1>1. PICK o \in Column : o = opened BY DEF ColumnTypeOK
<1>2. PICK t \in Column : t = typedIn BY DEF ColumnTypeOK
<1>3. /\ AlteredPostgres(opened).type = typedIn.type
      /\ AlteredPostgres(opened).nullable = typedIn.nullable
      /\ AlteredPostgres(opened).default = typedIn.default
      /\ AlteredPostgres(opened).comment = opened.comment
  BY <1>1 DEF AlteredPostgres, Column
<1> DEFINE modify == Differs("type") \/ Differs("nullable")
<1>4. PICK m \in Column :
        /\ m = [o EXCEPT !.type = IF Differs("type") THEN typedIn.type ELSE Fallback,
                         !.nullable = IF Differs("nullable") THEN typedIn.nullable ELSE TRUE,
                         !.default = NoDefault, !.comment = NoComment]
        /\ m.type = IF Differs("type") THEN typedIn.type ELSE Fallback
        /\ m.nullable = IF Differs("nullable") THEN typedIn.nullable ELSE TRUE
        /\ m.default = NoDefault /\ m.comment = NoComment
  <2>1. PICK a \in DataTypes : a = IF Differs("type") THEN typedIn.type ELSE Fallback
    BY <1>2, FallbackAssumption DEF Column
  <2>2. PICK b \in BOOLEAN : b = IF Differs("nullable") THEN typedIn.nullable ELSE TRUE
    BY <1>2 DEF Column
  <2>3. PICK m : m = [o EXCEPT !.type = a, !.nullable = b, !.default = NoDefault, !.comment = NoComment]
    OBVIOUS
  <2>4. m \in Column BY <2>3 DEF Column
  <2>5. m.type = a /\ m.nullable = b /\ m.default = NoDefault /\ m.comment = NoComment
    BY <2>3 DEF Column
  <2> QED BY <2>1, <2>2, <2>3, <2>4, <2>5
<1>5. PICK x \in Column : x = IF modify THEN m ELSE o OBVIOUS
<1>6. AlteredMySQL(opened) = [x EXCEPT !.default = IF Differs("default") THEN typedIn.default ELSE @]
  BY <1>1, <1>4, <1>5 DEF AlteredMySQL
<1>7. /\ AlteredMySQL(opened).type = x.type /\ AlteredMySQL(opened).nullable = x.nullable
      /\ AlteredMySQL(opened).default = IF Differs("default") THEN typedIn.default ELSE x.default
      /\ AlteredMySQL(opened).comment = x.comment
  BY <1>6 DEF Column
<1>8. /\ AlteredMySQL(opened).type = IF ~modify THEN opened.type ELSE IF Differs("type") THEN typedIn.type ELSE Fallback
      /\ AlteredMySQL(opened).nullable = IF ~modify THEN opened.nullable ELSE IF Differs("nullable") THEN typedIn.nullable ELSE TRUE
      /\ AlteredMySQL(opened).default = IF Differs("default") THEN typedIn.default ELSE IF modify THEN NoDefault ELSE opened.default
      /\ AlteredMySQL(opened).comment = IF modify THEN NoComment ELSE opened.comment
  BY <1>1, <1>4, <1>5, <1>7
<1> QED BY <1>3, <1>8

LEMMA ColumnIs ==
  ASSUME NEW c \in Column, NEW d \in Column, c.type = d.type, c.nullable = d.nullable,
         c.default = d.default, c.comment = d.comment
  PROVE  c = d
BY DEF Column

\* As long as nobody types, what is to be run and what it does stay as they are
LEMMA FormStays ==
  ASSUME typedIn' = typedIn, opened' = opened, server' = server
  PROVE  /\ Statements' = Statements /\ Effect("alter", opened)' = Effect("alter", opened)
         /\ AlteredMySQL(opened)' = AlteredMySQL(opened) /\ Differs("comment")' = Differs("comment")
<1>1. Statements' = Statements BY DEF Statements, Differs, Altered
<1>2. AlteredMySQL(opened)' = AlteredMySQL(opened) BY DEF AlteredMySQL, Differs
<1>3. AlteredPostgres(opened)' = AlteredPostgres(opened) BY DEF AlteredPostgres
<1>4. Effect("alter", opened)' = Effect("alter", opened) BY <1>2, <1>3 DEF Effect
<1>5. Differs("comment")' = Differs("comment") BY DEF Differs
<1> QED BY <1>1, <1>2, <1>4, <1>5

LEMMA InitColumn == ColumnInit => ColumnInv
<1> SUFFICES ASSUME ColumnInit PROVE ColumnInv OBVIOUS
<1>1. todo \in Seq({"alter", "comment"}) /\ Len(todo) = 0 BY DEF ColumnInit
<1>2. stored \in Column /\ opened = stored /\ typedIn = opened BY DEF ColumnInit
<1>3. tries \in 0 .. MaxTries BY FallbackAssumption DEF ColumnInit
<1>4. Len(todo) <= 2 BY <1>1
<1>5. ColumnTypeOK BY <1>1, <1>2, <1>3, <1>4 DEF ColumnInit, ColumnTypeOK
<1> QED BY <1>5 DEF ColumnInit, ColumnInv, Progress

LEMMA TypeKeeps ==
  ASSUME ColumnInv, state \in {"typing", "failed"}, typedIn' \in Column, state' = "typing",
         UNCHANGED <<server, stored, opened, todo, tries, halfway>>
  PROVE  ColumnInv'
<1>1. ColumnTypeOK' BY DEF ColumnInv, ColumnTypeOK
<1>2. ~halfway => stored = opened BY DEF ColumnInv, Progress
<1>3. ~halfway' => Progress' BY <1>2 DEF Progress
<1>4. halfway' => tries' # 0 /\ (tries' = 1 => state' \in {"typing", "failed"}) BY DEF ColumnInv
<1>5. state' # "closed" /\ state' # "running" /\ state' # "failed" OBVIOUS
<1> QED BY <1>1, <1>3, <1>4, <1>5 DEF ColumnInv

LEMMA SubmitColumnKeeps == ColumnInv /\ SubmitColumn => ColumnInv'
<1> SUFFICES ASSUME ColumnInv, SubmitColumn PROVE ColumnInv' OBVIOUS
<1>0. ColumnTypeOK BY DEF ColumnInv
<1>1. typedIn' = typedIn /\ opened' = opened /\ server' = server /\ stored' = stored /\ halfway' = halfway
      /\ todo' = Statements /\ tries' = tries + 1
  BY DEF SubmitColumn
<1>2. Statements' = Statements BY <1>1, FormStays
<1>3. ~halfway => stored = opened BY DEF ColumnInv, Progress, SubmitColumn
<1>4. Statements \in Seq({"alter", "comment"}) /\ Len(Statements) <= 2
  <2>1. PICK a, c : a = "alter" /\ c = "comment" OBVIOUS
  <2>2. /\ <<>> \in Seq({a, c}) /\ <<a>> \in Seq({a, c}) /\ <<c>> \in Seq({a, c}) /\ <<a, c>> \in Seq({a, c})
        /\ Len(<<>>) <= 2 /\ Len(<<a>>) <= 2 /\ Len(<<c>>) <= 2 /\ Len(<<a, c>>) <= 2
    OBVIOUS
  <2>3. Statements = <<>> \/ Statements = <<a>> \/ Statements = <<c>> \/ Statements = <<a, c>>
    BY <2>1, StatementsAre
  <2>4. PICK r : r = Statements OBVIOUS
  <2>5. r \in Seq({a, c}) /\ Len(r) <= 2 BY <2>2, <2>3, <2>4
  <2> QED BY <2>1, <2>4, <2>5
<1>5. tries \in Nat /\ tries' \in 0 .. MaxTries /\ tries' # 0
  BY <1>0, <1>1, FallbackAssumption DEF SubmitColumn, ColumnTypeOK
<1>6. ColumnTypeOK' BY <1>0, <1>1, <1>4, <1>5 DEF SubmitColumn, ColumnTypeOK
<1>7. halfway => tries' # 1 BY <1>1, <1>5 DEF ColumnInv
<1>8. CASE Statements = <<>>
  <2>1. state' = "closed" BY <1>8 DEF SubmitColumn
  <2>2. ~Differs("comment") /\ \A field \in Altered : ~Differs(field) BY <1>8, StatementsAre
  <2>3. typedIn = opened BY <1>0, <2>2, DiffersGives, ColumnIs DEF ColumnTypeOK
  <2> QED BY <1>1, <1>3, <1>5, <1>6, <1>7, <2>1, <2>3 DEF ColumnInv, Progress
<1>9. CASE Statements # <<>>
  <2>1. state' = "running" BY <1>9 DEF SubmitColumn
  <2> QED BY <1>1, <1>2, <1>3, <1>5, <1>6, <1>7, <1>9, <2>1 DEF ColumnInv, Progress
<1> QED BY <1>8, <1>9

LEMMA RunStatementKeeps == ASSUME ColumnInv, RunStatement PROVE ColumnInv'
<1>0. /\ ColumnTypeOK /\ state = "running" /\ todo # <<>> /\ tries # 0
      /\ todo = Statements \/ (Len(Statements) = 2 /\ todo = <<"comment">>)
      /\ (halfway => tries # 1)
      /\ (~halfway => stored = IF todo = Statements THEN opened ELSE Effect("alter", opened))
      /\ opened \in Column /\ typedIn \in Column /\ stored \in Column
  BY DEF ColumnInv, ColumnTypeOK, RunStatement, Progress
<1>1. typedIn' = typedIn /\ opened' = opened /\ server' = server /\ tries' = tries
  BY DEF RunStatement
<1>2. /\ Statements' = Statements /\ Effect("alter", opened)' = Effect("alter", opened)
      /\ AlteredMySQL(opened)' = AlteredMySQL(opened) /\ Differs("comment")' = Differs("comment")
  BY <1>1, FormStays
<1>3. CASE /\ Possible(Head(todo)) /\ stored' = Effect(Head(todo), stored) /\ todo' = Tail(todo)
           /\ state' = (IF Tail(todo) = <<>> THEN "saved" ELSE "running") /\ halfway' = halfway
  <2>1. stored' \in Column BY <1>0, <1>3, ColumnsAre
  <2>2. todo' \in Seq({"alter", "comment"}) /\ Len(todo') <= 2
    BY <1>0, <1>3 DEF ColumnTypeOK
  <2>3. ColumnTypeOK' BY <1>0, <1>1, <1>3, <2>1, <2>2 DEF ColumnTypeOK
  <2>4. ASSUME state' = "saved",
               ~halfway => IF server = "postgres" THEN stored' = typedIn
                           ELSE stored' = AlteredMySQL(opened) /\ ~Differs("comment")
        PROVE  ColumnInv'
    BY <1>0, <1>1, <1>2, <1>3, <2>3, <2>4 DEF ColumnInv, Progress
  <2>5. CASE Statements = <<"alter">>
    <3>1. todo = <<"alter">> BY <1>0, <2>5
    <3>2. Head(todo) = "alter" /\ Tail(todo) = <<>> BY <3>1
    <3>3. ~Differs("comment") BY <2>5, StatementsAre
    <3>4. ~halfway => stored = opened BY <1>0, <2>5, <3>1
    <3>5. ~halfway => stored' = IF server = "mysql" THEN AlteredMySQL(opened) ELSE AlteredPostgres(opened)
      BY <1>3, <3>2, <3>4 DEF Effect
    <3>6. AlteredPostgres(opened) = typedIn
      <4>1. typedIn.comment = opened.comment BY <1>0, <3>3, DiffersGives
      <4>2. AlteredPostgres(opened) \in Column BY <1>0, ColumnsAre
      <4> QED BY <1>0, <4>1, <4>2, AlteredGives, ColumnIs
    <3>7. ~halfway => IF server = "postgres" THEN stored' = typedIn
                      ELSE stored' = AlteredMySQL(opened) /\ ~Differs("comment")
      BY <1>0, <3>3, <3>5, <3>6 DEF ColumnTypeOK
    <3> QED BY <1>3, <2>4, <3>2, <3>7
  <2>6. CASE Statements = <<"alter", "comment">> /\ todo = Statements
    <3>1. Head(todo) = "alter" /\ Tail(todo) = <<"comment">> BY <2>6
    <3>2. Len(Statements) = 2 /\ Tail(todo) # <<>> /\ Tail(todo) # Statements BY <2>6, <3>1
    <3>3. state' = "running" /\ todo' = <<"comment">> /\ todo' # <<>> /\ todo' # Statements'
      BY <1>2, <1>3, <3>1, <3>2
    <3>4. ~halfway => stored' = Effect("alter", opened) BY <1>0, <1>3, <2>6, <3>1
    <3> QED BY <1>0, <1>1, <1>2, <1>3, <2>3, <3>2, <3>3, <3>4 DEF ColumnInv, Progress
  <2>7. CASE todo = <<"comment">>
    <3>1. Head(todo) = "comment" /\ Tail(todo) = <<>> BY <2>7
    <3>2. server = "postgres" BY <1>0, <1>3, <3>1 DEF Possible, ColumnTypeOK
    <3>3. stored' = [stored EXCEPT !.comment = typedIn.comment] BY <1>3, <3>1 DEF Effect
    <3>4. stored'.type = stored.type /\ stored'.nullable = stored.nullable
          /\ stored'.default = stored.default /\ stored'.comment = typedIn.comment
      BY <1>0, <3>3 DEF Column
    <3>5. ~halfway => stored.type = typedIn.type /\ stored.nullable = typedIn.nullable
                      /\ stored.default = typedIn.default
      <4>1. CASE todo = Statements
        <5>1. \A field \in Altered : ~Differs(field) BY <2>7, <4>1, StatementsAre
        <5> QED BY <1>0, <4>1, <5>1, DiffersGives
      <4>2. CASE todo # Statements
        <5>1. ~halfway => stored = AlteredPostgres(opened) BY <1>0, <3>2, <4>2 DEF Effect
        <5> QED BY <1>0, <5>1, AlteredGives
      <4> QED BY <4>1, <4>2
    <3>6. ~halfway => stored' = typedIn BY <1>0, <2>1, <3>4, <3>5, ColumnIs
    <3> QED BY <1>3, <2>4, <3>1, <3>2, <3>6
  <2> QED BY <1>0, <2>5, <2>6, <2>7, StatementsAre
<1>4. CASE /\ state' = "failed" /\ halfway' = (halfway \/ Len(todo) < Len(Statements))
           /\ UNCHANGED <<stored, todo>>
  <2>1. halfway' \in BOOLEAN BY <1>0, <1>4 DEF ColumnTypeOK
  <2>2. ColumnTypeOK' BY <1>0, <1>1, <1>4, <2>1 DEF ColumnTypeOK
  <2>3. Len(todo) < Len(Statements) <=> todo # Statements
    <3>1. Len(<<"comment">>) = 1 OBVIOUS
    <3>2. CASE todo = Statements
      <4>1. Len(Statements) \in Nat BY StatementsAre
      <4> QED BY <3>2, <4>1
    <3>3. CASE Len(Statements) = 2 /\ todo = <<"comment">>
      <4>1. todo # Statements BY <3>1, <3>3
      <4> QED BY <3>1, <3>3, <4>1
    <3> QED BY <1>0, <3>2, <3>3
  <2>4. ~halfway' => stored' = opened' BY <1>0, <1>1, <1>4, <2>3
  <2>5. halfway' /\ tries' = 1 => stored' = Effect("alter", opened)
    BY <1>0, <1>1, <1>4, <2>3
  <2> QED BY <1>0, <1>1, <1>2, <1>4, <2>2, <2>4, <2>5 DEF ColumnInv, Progress
<1> QED BY <1>3, <1>4 DEF RunStatement

LEMMA ColumnStep == ColumnInv /\ [ColumnNext]_columnVars => ColumnInv'
<1> SUFFICES ASSUME ColumnInv, [ColumnNext]_columnVars PROVE ColumnInv' OBVIOUS
<1>0. ColumnTypeOK /\ typedIn \in Column BY DEF ColumnInv, ColumnTypeOK
<1>1. CASE TypeAny
  <2>1. typedIn' \in Column BY <1>0, <1>1 DEF TypeAny, TypeIn, Column
  <2>2. /\ state \in {"typing", "failed"} /\ state' = "typing"
        /\ UNCHANGED <<server, stored, opened, todo, tries, halfway>>
    BY <1>1 DEF TypeAny, TypeIn
  <2> QED BY <2>1, <2>2, TypeKeeps
<1>2. CASE UNCHANGED columnVars
  <2>1. /\ typedIn' = typedIn /\ opened' = opened /\ server' = server /\ stored' = stored
        /\ halfway' = halfway /\ todo' = todo /\ tries' = tries /\ state' = state
    BY <1>2 DEF columnVars
  <2>2. /\ Statements' = Statements /\ Effect("alter", opened)' = Effect("alter", opened)
        /\ AlteredMySQL(opened)' = AlteredMySQL(opened) /\ Differs("comment")' = Differs("comment")
    BY <2>1, FormStays
  <2>3. ColumnTypeOK' BY <1>0, <2>1 DEF ColumnTypeOK
  <2>4. Progress => Progress' BY <2>1, <2>2 DEF Progress
  <2>5. /\ halfway' => tries' # 0 /\ (tries' = 1 => state' \in {"typing", "failed"})
        /\ state' = "closed" => typedIn' = opened'
    BY <2>1 DEF ColumnInv
  <2>6. /\ state' = "running" => todo' = Statements' \/ (Len(Statements') = 2 /\ todo' = <<"comment">>)
        /\ state' = "running" => todo' # <<>> /\ tries' # 0
    BY <2>1, <2>2 DEF ColumnInv
  <2>7. halfway' /\ state' = "failed" /\ tries' = 1 => stored' = Effect("alter", opened)'
    BY <2>1, <2>2 DEF ColumnInv
  <2>8. ~halfway' => Progress' BY <2>1, <2>4 DEF ColumnInv
  <2> QED BY <2>3, <2>5, <2>6, <2>7, <2>8 DEF ColumnInv
<1>3. CASE SubmitColumn BY <1>3, SubmitColumnKeeps
<1>4. CASE RunStatement BY <1>4, RunStatementKeeps
<1> QED BY <1>1, <1>2, <1>3, <1>4 DEF ColumnNext

LEMMA ColumnGives == ColumnInv => ColumnTypeOK /\ SavedAsTyped /\ LostByModify /\ FailedIsPrefix
<1> SUFFICES ASSUME ColumnInv PROVE SavedAsTyped /\ LostByModify /\ FailedIsPrefix BY DEF ColumnInv
<1>0. /\ ColumnTypeOK /\ stored \in Column /\ typedIn \in Column /\ opened \in Column
      /\ halfway \in BOOLEAN /\ server \in {"postgres", "mysql"}
  BY DEF ColumnInv, ColumnTypeOK
<1>1. SavedAsTyped BY <1>0 DEF ColumnInv, Progress, SavedAsTyped
<1>2. LostByModify
  <2> SUFFICES ASSUME state = "saved", server = "mysql", tries = 1
               PROVE  /\ \A field \in Altered : Differs(field) => stored[field] = typedIn[field]
                      /\ stored = typedIn \/ Differs("type") \/ Differs("nullable")
                      /\ stored.type \in {typedIn.type, Fallback} /\ stored.nullable \in {typedIn.nullable, TRUE}
                      /\ stored.default \in {typedIn.default, NoDefault} /\ stored.comment \in {typedIn.comment, NoComment}
    BY DEF LostByModify
  <2>1. ~halfway BY DEF ColumnInv
  <2>2. stored = AlteredMySQL(opened) /\ ~Differs("comment") BY <2>1 DEF ColumnInv, Progress
  <2>3. /\ stored.type = IF ~(Differs("type") \/ Differs("nullable")) THEN opened.type ELSE IF Differs("type") THEN typedIn.type ELSE Fallback
        /\ stored.nullable = IF ~(Differs("type") \/ Differs("nullable")) THEN opened.nullable ELSE IF Differs("nullable") THEN typedIn.nullable ELSE TRUE
        /\ stored.default = IF Differs("default") THEN typedIn.default ELSE IF Differs("type") \/ Differs("nullable") THEN NoDefault ELSE opened.default
        /\ stored.comment = IF Differs("type") \/ Differs("nullable") THEN NoComment ELSE opened.comment
    BY <1>0, <2>2, AlteredGives
  <2>4. /\ Differs("type") \/ typedIn.type = opened.type
        /\ Differs("nullable") \/ typedIn.nullable = opened.nullable
        /\ Differs("default") \/ typedIn.default = opened.default
        /\ typedIn.comment = opened.comment
    BY <1>0, <2>2, DiffersGives
  <2>5. \A field \in Altered : Differs(field) => stored[field] = typedIn[field]
    <3>1. Differs("type") => stored.type = typedIn.type BY <2>3
    <3>2. Differs("nullable") => stored.nullable = typedIn.nullable BY <2>3
    <3>3. Differs("default") => stored.default = typedIn.default BY <2>3
    <3> QED BY <3>1, <3>2, <3>3 DEF Altered
  <2>6. stored = typedIn \/ Differs("type") \/ Differs("nullable")
    <3> SUFFICES ASSUME ~Differs("type"), ~Differs("nullable") PROVE stored = typedIn OBVIOUS
    <3>1. /\ stored.type = typedIn.type /\ stored.nullable = typedIn.nullable
          /\ stored.default = typedIn.default /\ stored.comment = typedIn.comment
      BY <2>3, <2>4
    <3> QED BY <1>0, <3>1, ColumnIs
  <2>7. stored.type \in {typedIn.type, Fallback} /\ stored.nullable \in {typedIn.nullable, TRUE}
    BY <2>3, <2>4
  <2>8. stored.default \in {typedIn.default, NoDefault} /\ stored.comment \in {typedIn.comment, NoComment}
    BY <2>3, <2>4
  <2> QED BY <2>5, <2>6, <2>7, <2>8
<1>3. FailedIsPrefix BY <1>0 DEF ColumnInv, Progress, FailedIsPrefix
<1> QED BY <1>1, <1>2, <1>3

\* The Edit Column dialog, for any types, defaults and comments and any number of tries.
THEOREM ColumnHolds == ColumnSpec => [](ColumnTypeOK /\ SavedAsTyped /\ LostByModify /\ FailedIsPrefix)
BY InitColumn, ColumnStep, ColumnGives, PTL DEF ColumnSpec

\* A table or a column that was saved is as its form drew it, one that failed halfway is a
\* part of it, and a refusal or a loss has one of the causes that are named.
THEOREM StatementsFitHolds == AllSpec => []StatementsFit
<1>1. AllInit => DesignInv /\ ColumnInv BY InitDesign, InitColumn DEF AllInit
<1>2. DesignInv /\ ColumnInv /\ [AllNext]_allVars => (DesignInv /\ ColumnInv)'
  <2>1. [AllNext]_allVars => [DesignNext]_designVars /\ [ColumnNext]_columnVars
    BY DEF AllNext, allVars, formVars
  <2> QED BY <2>1, DesignStep, ColumnStep
<1>3. DesignInv /\ ColumnInv => StatementsFit BY DesignGives, ColumnGives DEF StatementsFit
<1> QED BY <1>1, <1>2, <1>3, PTL DEF AllSpec
-----------------------------------------------------------------------------
(* StructureEdits: the structure of a table and the dialogs that change it *)

FetchState == [on : BOOLEAN, columns : Count, rest : Count, before : SUBSET Fetches, late : BOOLEAN]
SubState ==
  [pc : {"free", "sent", "ran", "refused", "over"}, dialog : Dialogs, left : 0 .. 2, done : 0 .. 2,
   here : {"dialog", "pane", "gone"}]
EntryState == [status : {"none", "loading", "success", "error"}, columns : Count, rest : Count]
MadeState == [columns : Count \ {Unknown}, rest : Count \ {Unknown}]
AllState == [on : BOOLEAN, columns : Count]

\* The reading asked for last is on, came behind no other and sees the table as it is
Fresh(f) == fetch[f].columns \in {Unknown, made.columns} /\ fetch[f].rest \in {Unknown, made.rest}
LastToAsk(n) ==
  /\ n \in Reading /\ ~fetch[n].late /\ Fresh(n)
  /\ \A g \in Reading : n \notin fetch[g].before /\ (g = n \/ g \in fetch[n].before \/ fetch[g].late)
AllLate == \A g \in Reading : fetch[g].late
EntryFits == entry.status = "success" => entry.columns = made.columns /\ entry.rest = made.rest
Quiet == \A s \in Submissions : sub[s].done = 0
Spoilt == {"failed", "overtaken", "blank"}

\* With no change under way the reading asked for last is still to come, or it came and stayed
ShownSettled ==
  Quiet /\ causes \cap Spoilt = {} => (\E n \in Reading : LastToAsk(n)) \/ (AllLate /\ EntryFits)

SubsFit ==
  \A s \in Submissions :
    /\ sub[s].pc = "free" => sub[s].done = 0
    /\ sub[s].pc = "sent" => sub[s].left # 0 /\ sub[s].left + sub[s].done <= 2
    /\ sub[s].pc = "ran" => sub[s].left # 0 /\ sub[s].left + sub[s].done <= 3 /\ sub[s].done # 0

DropIsWhole == made.columns = Blank <=> made.rest = Blank
BeforeIsOn == \A f \in Fetches : fetch[f].before \subseteq Reading
AllAreRead == loadAll.on /\ "overlapped" \notin causes => loadAll.columns \in {Unknown, made.columns}

StructureInv ==
  /\ StructureTypeOK /\ SubsFit /\ DropIsWhole /\ BeforeIsOn /\ AllAreRead
  /\ ShownSettled /\ KnownForCause /\ LoadingIsRead

LEMMA CountsAre ==
  /\ MaxChanges \in Nat /\ Unknown \in Count /\ Blank \in Count /\ Unknown # Blank
  /\ \A c \in Count : c \in Int
  /\ \A c \in Count \ {Unknown, Blank} : c \in 0 .. MaxChanges
  /\ \A c \in 0 .. MaxChanges : c < MaxChanges => c + 1 \in Count \ {Unknown, Blank}
  /\ 0 \in Count \ {Unknown, Blank}
BY ChangesAssumption DEF Count, Unknown, Blank

LEMMA FetchFields ==
  ASSUME NEW x \in FetchState
  PROVE  /\ x.on \in BOOLEAN /\ x.columns \in Count /\ x.rest \in Count
         /\ x.before \in SUBSET Fetches /\ x.late \in BOOLEAN
BY DEF FetchState

LEMMA SubFields ==
  ASSUME NEW x \in SubState
  PROVE  /\ x.pc \in {"free", "sent", "ran", "refused", "over"} /\ x.dialog \in Dialogs
         /\ x.left \in 0 .. 2 /\ x.done \in 0 .. 2 /\ x.here \in {"dialog", "pane", "gone"}
BY DEF SubState

LEMMA StructureTypes ==
  ASSUME StructureTypeOK
  PROVE  /\ made \in MadeState /\ made.columns \in Count \ {Unknown} /\ made.rest \in Count \ {Unknown}
         /\ entry \in EntryState /\ entry.columns \in Count /\ entry.rest \in Count
         /\ (entry.status = "success" => entry.columns # Unknown)
         /\ known \in Count /\ loadAll \in AllState /\ loadAll.columns \in Count
         /\ fetch \in [Fetches -> FetchState] /\ \A f \in Fetches : fetch[f] \in FetchState
         /\ sub \in [Submissions -> SubState] /\ \A s \in Submissions : sub[s] \in SubState
         /\ pane \in {"structure", "data", "closed"} /\ dialog \subseteq Dialogs /\ typed \subseteq dialog
         /\ causes \subseteq {"failed", "overtaken", "blank", "overlapped"}
<1>1. /\ made \in MadeState /\ entry \in EntryState /\ known \in Count /\ loadAll \in AllState
      /\ fetch \in [Fetches -> FetchState] /\ sub \in [Submissions -> SubState]
      /\ pane \in {"structure", "data", "closed"} /\ dialog \subseteq Dialogs /\ typed \subseteq dialog
      /\ causes \subseteq {"failed", "overtaken", "blank", "overlapped"}
      /\ (entry.status = "success" => entry.columns # Unknown)
  BY DEF StructureTypeOK, MadeState, EntryState, AllState, FetchState, SubState
<1>2. PICK m \in MadeState, e \in EntryState, a \in AllState : m = made /\ e = entry /\ a = loadAll BY <1>1
<1>3. m.columns \in Count \ {Unknown} /\ m.rest \in Count \ {Unknown} BY DEF MadeState
<1>4. e.columns \in Count /\ e.rest \in Count BY DEF EntryState
<1>5. a.columns \in Count BY DEF AllState
<1> QED BY <1>1, <1>2, <1>3, <1>4, <1>5

LEMMA StructureTypesNext ==
  ASSUME made' \in MadeState, entry' \in EntryState, known' \in Count, loadAll' \in AllState,
         fetch' \in [Fetches -> FetchState], sub' \in [Submissions -> SubState],
         pane' \in {"structure", "data", "closed"}, dialog' \subseteq Dialogs, typed' \subseteq dialog',
         causes' \subseteq {"failed", "overtaken", "blank", "overlapped"},
         entry'.status = "success" => entry'.columns # Unknown
  PROVE  StructureTypeOK'
BY DEF StructureTypeOK, MadeState, EntryState, AllState, FetchState, SubState

\* A reading begins
LEMMA DescribeIs ==
  ASSUME StructureTypeOK, NEW f \in Fetches, ~fetch[f].on, Describe(f)
  PROVE  /\ fetch' \in [Fetches -> FetchState]
         /\ fetch'[f].on /\ fetch'[f].columns = Unknown /\ fetch'[f].rest = Unknown
         /\ fetch'[f].before = Reading /\ ~fetch'[f].late
         /\ \A g \in Fetches : g # f => fetch'[g] = fetch[g]
         /\ Reading' = Reading \cup {f}
<1>1. PICK t \in BOOLEAN, u \in BOOLEAN : t = TRUE /\ u = FALSE OBVIOUS
<1>2. PICK R \in SUBSET Fetches : R = Reading BY DEF Reading
<1>3. PICK c \in Count : c = Unknown BY CountsAre
<1>4. PICK E \in SUBSET Fetches : E = {} OBVIOUS
<1>5. PICK z : z = [on |-> u, columns |-> c, rest |-> c, before |-> E, late |-> u] OBVIOUS
<1>6. z \in FetchState /\ z.columns = c /\ z.rest = c /\ z.late = u BY <1>5 DEF FetchState
<1>7. PICK n \in FetchState :
        /\ n.on = t /\ n.columns = c /\ n.rest = c /\ n.before = R /\ n.late = u
        /\ fetch' = [fetch EXCEPT ![f] = n]
  <2>1. PICK n : n = [z EXCEPT !.on = t, !.before = R] OBVIOUS
  <2>2. n \in FetchState BY <1>6, <2>1 DEF FetchState
  <2>3. n.on = t /\ n.columns = c /\ n.rest = c /\ n.before = R /\ n.late = u
    BY <1>6, <2>1 DEF FetchState
  <2>4. z = NoFetch BY <1>1, <1>3, <1>4, <1>5, Zenon DEF NoFetch
  <2>5. fetch' = [fetch EXCEPT ![f] = n] BY <1>1, <1>2, <2>1, <2>4, Zenon DEF Describe
  <2> QED BY <2>2, <2>3, <2>5
<1>8. fetch' \in [Fetches -> FetchState] /\ fetch'[f] = n /\ \A g \in Fetches : g # f => fetch'[g] = fetch[g]
  BY <1>7, StructureTypes
<1>9. fetch'[f].on BY <1>1, <1>7, <1>8
<1>10. ~fetch'[f].late BY <1>1, <1>7, <1>8
<1>11. Reading' = Reading \cup {f} BY <1>8, <1>9 DEF Reading
<1> QED BY <1>2, <1>3, <1>7, <1>8, <1>9, <1>10, <1>11

\* A reading ends
LEMMA EndedIs ==
  ASSUME StructureTypeOK, NEW f \in Fetches, fetch' = Ended(f)
  PROVE  /\ fetch' \in [Fetches -> FetchState] /\ ~fetch'[f].on /\ fetch'[f].before = {}
         /\ Reading' = Reading \ {f}
         /\ \A g \in Fetches : g # f =>
              /\ fetch'[g].on = fetch[g].on /\ fetch'[g].columns = fetch[g].columns
              /\ fetch'[g].rest = fetch[g].rest /\ fetch'[g].before = fetch[g].before \ {f}
              /\ (fetch'[g].late <=> fetch[g].late \/ g \in fetch[f].before)
<1>1. PICK t \in BOOLEAN : t = FALSE OBVIOUS
<1>2. PICK c \in Count : c = Unknown BY CountsAre
<1>3. PICK E \in SUBSET Fetches : E = {} OBVIOUS
<1>4. PICK n : n = [on |-> t, columns |-> c, rest |-> c, before |-> E, late |-> t] OBVIOUS
<1>5. n \in FetchState BY <1>4 DEF FetchState
<1>6. n.on = t /\ n.before = E BY <1>4
<1>7. n = NoFetch BY <1>1, <1>2, <1>3, <1>4, Zenon DEF NoFetch
<1>8. fetch'[f] = n BY <1>7 DEF Ended
<1>9. ASSUME NEW g \in Fetches, g # f
      PROVE  /\ fetch'[g] \in FetchState
             /\ fetch'[g].on = fetch[g].on /\ fetch'[g].columns = fetch[g].columns
             /\ fetch'[g].rest = fetch[g].rest /\ fetch'[g].before = fetch[g].before \ {f}
             /\ (fetch'[g].late <=> fetch[g].late \/ g \in fetch[f].before)
  <2>1. PICK x \in FetchState : x = fetch[g] BY StructureTypes
  <2>2. PICK l \in BOOLEAN : l = (x.late \/ g \in fetch[f].before) OBVIOUS
  <2>3. PICK B \in SUBSET Fetches : B = x.before \ {f} BY FetchFields
  <2>4. PICK y : y = [x EXCEPT !.before = B, !.late = l] OBVIOUS
  <2>5. y \in FetchState BY <2>4 DEF FetchState
  <2>6. y.on = x.on /\ y.columns = x.columns /\ y.rest = x.rest /\ y.before = B /\ y.late = l
    BY <2>4 DEF FetchState
  <2>7. fetch'[g] = y
    <3>1. fetch'[g] = [fetch[g] EXCEPT !.before = @ \ {f}, !.late = @ \/ g \in fetch[f].before]
      BY <1>9 DEF Ended
    <3> QED BY <2>1, <2>2, <2>3, <2>4, <3>1, Zenon
  <2>8. fetch'[g].late <=> fetch[g].late \/ g \in fetch[f].before BY <2>1, <2>2, <2>6, <2>7, Zenon
  <2> QED BY <2>1, <2>3, <2>5, <2>6, <2>7, <2>8
<1>10. fetch' \in [Fetches -> FetchState]
  <2>1. \A g \in Fetches : fetch'[g] \in FetchState BY <1>5, <1>8, <1>9
  <2>2. fetch' = [g \in Fetches |-> fetch'[g]] BY DEF Ended
  <2> QED BY <2>1, <2>2
<1>11. ~fetch'[f].on BY <1>1, <1>6, <1>8
<1>12. Reading' = Reading \ {f} BY <1>9, <1>11 DEF Reading
<1> QED BY <1>3, <1>6, <1>8, <1>9, <1>10, <1>11, <1>12

\* Dialogs that are not drawn forget only where their submissions came from
LEMMA UndrawnIs ==
  ASSUME NEW t \in [Submissions -> SubState], NEW h \in {"dialog", "pane", "gone"}, NEW u, u = Undrawn(t, h)
  PROVE  /\ u \in [Submissions -> SubState]
         /\ \A s \in Submissions : /\ u[s].pc = t[s].pc /\ u[s].dialog = t[s].dialog
                                   /\ u[s].left = t[s].left /\ u[s].done = t[s].done
<1>1. ASSUME NEW s \in Submissions
      PROVE  /\ u[s] \in SubState /\ u[s].pc = t[s].pc /\ u[s].dialog = t[s].dialog
             /\ u[s].left = t[s].left /\ u[s].done = t[s].done
  <2>1. PICK x \in SubState : x = t[s] OBVIOUS
  <2>2. PICK y : y = [x EXCEPT !.here = h] OBVIOUS
  <2>3. y \in SubState BY <2>2 DEF SubState
  <2>4. y.pc = x.pc /\ y.dialog = x.dialog /\ y.left = x.left /\ y.done = x.done BY <2>2 DEF SubState
  <2>5. u[s] = x \/ u[s] = y BY <2>1, <2>2 DEF Undrawn
  <2> QED BY <2>1, <2>3, <2>4, <2>5
<1>2. u = [s \in Submissions |-> u[s]] BY DEF Undrawn
<1> QED BY <1>1, <1>2
-----------------------------------------------------------------------------
(* What is shown settles: a reading begins, reads, ends *)

LEMMA SettledBegins ==
  ASSUME StructureTypeOK, BeforeIsOn, NEW f \in Fetches, ~fetch[f].on, Describe(f), made' = made
  PROVE  ShownSettled' /\ BeforeIsOn' /\ Reading' # {}
<1>1. /\ fetch'[f].on /\ fetch'[f].columns = Unknown /\ fetch'[f].rest = Unknown
      /\ fetch'[f].before = Reading /\ ~fetch'[f].late
      /\ \A g \in Fetches : g # f => fetch'[g] = fetch[g]
      /\ Reading' = Reading \cup {f}
  BY DescribeIs
<1>2. f \notin Reading BY DEF Reading
<1>3. Reading \subseteq Fetches BY DEF Reading
<1>4. Fresh(f)' BY <1>1 DEF Fresh
<1>5. LastToAsk(f)'
  <2>1. ASSUME NEW g \in Reading' PROVE f \notin fetch'[g].before /\ (g = f \/ g \in fetch'[f].before)
    <3>1. CASE g = f BY <1>1, <1>2, <3>1
    <3>2. CASE g # f
      <4>1. g \in Reading /\ g \in Fetches BY <1>1, <1>3, <3>2
      <4>2. fetch[g].before \subseteq Reading BY <4>1 DEF BeforeIsOn
      <4> QED BY <1>1, <1>2, <3>2, <4>1, <4>2
    <3> QED BY <3>1, <3>2
  <2> QED BY <1>1, <1>4, <2>1 DEF LastToAsk
<1>6. BeforeIsOn'
  <2>1. ASSUME NEW g \in Fetches PROVE fetch'[g].before \subseteq Reading'
    <3>1. CASE g = f BY <1>1, <3>1
    <3>2. CASE g # f
      <4>1. fetch'[g] = fetch[g] /\ fetch[g].before \subseteq Reading BY <1>1, <3>2 DEF BeforeIsOn
      <4> QED BY <1>1, <4>1
    <3> QED BY <3>1, <3>2
  <2> QED BY <2>1 DEF BeforeIsOn
<1>7. f \in Reading' BY <1>1
<1> QED BY <1>5, <1>6, <1>7 DEF ShownSettled

\* Readings that stay as they stand to each other, and read nothing that is not there
LEMMA SettledReads ==
  ASSUME ShownSettled, BeforeIsOn, made' = made, entry' = entry, causes \subseteq causes',
         Quiet' => Quiet \/ causes' \cap Spoilt # {},
         \A g \in Fetches : /\ fetch'[g].on = fetch[g].on /\ fetch'[g].before = fetch[g].before
                            /\ fetch'[g].late = fetch[g].late,
         causes' \cap Spoilt = {} => \A g \in Fetches : Fresh(g) => Fresh(g)'
  PROVE  ShownSettled' /\ BeforeIsOn'
<1>1. Reading' = Reading BY DEF Reading
<1>2. Reading \subseteq Fetches BY DEF Reading
<1>3. BeforeIsOn' BY <1>1 DEF BeforeIsOn
<1>4. ASSUME Quiet', causes' \cap Spoilt = {}
      PROVE  (\E n \in Reading' : LastToAsk(n)') \/ (AllLate' /\ EntryFits')
  <2>1. Quiet /\ causes \cap Spoilt = {} BY <1>4
  <2>2. CASE \E n \in Reading : LastToAsk(n)
    <3>1. PICK n \in Reading : LastToAsk(n) BY <2>2
    <3>2. n \in Fetches BY <1>2
    <3>3. Fresh(n)' BY <1>4, <3>1, <3>2 DEF LastToAsk
    <3>4. LastToAsk(n)' BY <1>1, <1>2, <3>1, <3>2, <3>3 DEF LastToAsk
    <3> QED BY <1>1, <3>4
  <2>3. CASE AllLate /\ EntryFits
    <3>1. AllLate' BY <1>1, <1>2, <2>3 DEF AllLate
    <3>2. EntryFits' BY <2>3 DEF EntryFits
    <3> QED BY <3>1, <3>2
  <2> QED BY <2>1, <2>2, <2>3 DEF ShownSettled
<1> QED BY <1>3, <1>4 DEF ShownSettled

LEMMA SettledSame ==
  ASSUME ShownSettled, BeforeIsOn, made' = made, entry' = entry, fetch' = fetch, causes \subseteq causes',
         Quiet' => Quiet \/ causes' \cap Spoilt # {}
  PROVE  ShownSettled' /\ BeforeIsOn'
<1>1. \A g \in Fetches : Fresh(g) => Fresh(g)' BY DEF Fresh
<1>2. \A g \in Fetches : /\ fetch'[g].on = fetch[g].on /\ fetch'[g].before = fetch[g].before
                         /\ fetch'[g].late = fetch[g].late
  OBVIOUS
<1> QED BY <1>1, <1>2, SettledReads

LEMMA SettledEnds ==
  ASSUME StructureTypeOK, ShownSettled, BeforeIsOn, NEW f \in Fetches, fetch[f].on, fetch' = Ended(f),
         made' = made, causes \subseteq causes', Quiet' => Quiet,
         Fresh(f) => EntryFits', fetch[f].late => EntryFits' \/ causes' \cap Spoilt # {}
  PROVE  ShownSettled' /\ BeforeIsOn'
<1>1. /\ ~fetch'[f].on /\ fetch'[f].before = {} /\ Reading' = Reading \ {f}
      /\ \A g \in Fetches : g # f =>
           /\ fetch'[g].on = fetch[g].on /\ fetch'[g].columns = fetch[g].columns
           /\ fetch'[g].rest = fetch[g].rest /\ fetch'[g].before = fetch[g].before \ {f}
           /\ (fetch'[g].late <=> fetch[g].late \/ g \in fetch[f].before)
  BY EndedIs
<1>2. Reading \subseteq Fetches /\ f \in Reading BY DEF Reading
<1>3. BeforeIsOn' BY <1>1 DEF BeforeIsOn
<1>4. ASSUME Quiet', causes' \cap Spoilt = {}
      PROVE  (\E n \in Reading' : LastToAsk(n)') \/ (AllLate' /\ EntryFits')
  <2>1. Quiet /\ causes \cap Spoilt = {} BY <1>4
  <2>2. ASSUME NEW n \in Reading, LastToAsk(n), n # f PROVE LastToAsk(n)'
    <3>1. n \in Fetches BY <1>2
    <3>2. /\ ~fetch[n].late /\ Fresh(n) /\ n \notin fetch[f].before
          /\ \A g \in Reading : n \notin fetch[g].before /\ (g = n \/ g \in fetch[n].before \/ fetch[g].late)
      BY <1>2, <2>2 DEF LastToAsk
    <3>3. n \in Reading' /\ ~fetch'[n].late BY <1>1, <2>2, <3>1, <3>2
    <3>4. Fresh(n)' BY <1>1, <2>2, <3>1, <3>2 DEF Fresh
    <3>5. ASSUME NEW g \in Reading' PROVE n \notin fetch'[g].before /\ (g = n \/ g \in fetch'[n].before \/ fetch'[g].late)
      <4>1. g \in Reading /\ g # f /\ g \in Fetches BY <1>1, <1>2
      <4>2. n \notin fetch[g].before /\ (g = n \/ g \in fetch[n].before \/ fetch[g].late) BY <3>2, <4>1
      <4>3. fetch'[g].before = fetch[g].before \ {f} /\ fetch'[n].before = fetch[n].before \ {f}
        BY <1>1, <2>2, <3>1, <4>1
      <4>4. fetch[g].late => fetch'[g].late BY <1>1, <4>1
      <4> QED BY <4>1, <4>2, <4>3, <4>4
    <3> QED BY <3>3, <3>4, <3>5 DEF LastToAsk
  <2>3. CASE LastToAsk(f)
    <3>1. Fresh(f) BY <2>3 DEF LastToAsk
    <3>2. \A g \in Reading' : fetch'[g].late
      <4>1. ASSUME NEW g \in Reading' PROVE fetch'[g].late
        <5>1. g \in Reading /\ g # f /\ g \in Fetches BY <1>1, <1>2
        <5>2. g \in fetch[f].before \/ fetch[g].late BY <2>3, <5>1 DEF LastToAsk
        <5> QED BY <1>1, <5>1, <5>2
      <4> QED BY <4>1
    <3> QED BY <3>1, <3>2 DEF AllLate
  <2>4. CASE AllLate /\ EntryFits
    <3>1. EntryFits' BY <1>2, <1>4, <2>4 DEF AllLate
    <3>2. ASSUME NEW g \in Reading' PROVE fetch'[g].late
      <4>1. g \in Reading /\ g # f /\ g \in Fetches BY <1>1, <1>2
      <4>2. fetch[g].late BY <2>4, <4>1 DEF AllLate
      <4> QED BY <1>1, <4>1, <4>2
    <3> QED BY <3>1, <3>2 DEF AllLate
  <2>5. CASE \E n \in Reading : LastToAsk(n)
    <3>1. PICK n \in Reading : LastToAsk(n) BY <2>5
    <3>2. CASE n = f BY <2>3, <3>1, <3>2
    <3>3. CASE n # f BY <2>2, <3>1, <3>3 DEF LastToAsk
    <3> QED BY <3>2, <3>3
  <2> QED BY <2>1, <2>4, <2>5 DEF ShownSettled
<1> QED BY <1>3, <1>4 DEF ShownSettled
-----------------------------------------------------------------------------
(* The steps *)

LEMMA SubsSameIs ==
  ASSUME \A s \in Submissions : /\ sub'[s].pc = sub[s].pc /\ sub'[s].dialog = sub[s].dialog
                                /\ sub'[s].left = sub[s].left /\ sub'[s].done = sub[s].done
  PROVE  /\ SubsFit => SubsFit'
         /\ Quiet' <=> Quiet
         /\ Changing("column")' <=> Changing("column")
<1>1. SubsFit => SubsFit' BY DEF SubsFit
<1>2. Quiet' <=> Quiet BY DEF Quiet
<1>3. Changing("column")' <=> Changing("column") BY DEF Changing
<1> QED BY <1>1, <1>2, <1>3

LEMMA KnownSame ==
  ASSUME KnownForCause, made'.columns = made.columns, known' \in {known, Unknown}, causes \subseteq causes',
         Changing("column") => Changing("column")' \/ "failed" \in causes' \/ known' = Unknown
  PROVE  KnownForCause'
BY DEF KnownForCause

LEMMA EntryStatus ==
  ASSUME NEW e \in EntryState, NEW t \in {"none", "loading", "success", "error"}, NEW x,
         x = [e EXCEPT !.status = t]
  PROVE  x \in EntryState /\ x.status = t /\ x.columns = e.columns
BY DEF EntryState

\* Nothing but dialogs and panes
LEMMA DrawnKeeps ==
  ASSUME StructureInv, pane' \in {"structure", "data", "closed"}, dialog' \subseteq Dialogs,
         typed' \subseteq dialog', UNCHANGED <<made, entry, known, loadAll, fetch, sub, causes>>
  PROVE  StructureInv'
<1>1. /\ StructureTypeOK /\ SubsFit /\ DropIsWhole /\ BeforeIsOn /\ AllAreRead
      /\ ShownSettled /\ KnownForCause /\ LoadingIsRead
  BY DEF StructureInv
<1>2. /\ made' = made /\ entry' = entry /\ known' = known /\ loadAll' = loadAll /\ fetch' = fetch
      /\ sub' = sub /\ causes' = causes
  OBVIOUS
<1>3. StructureTypeOK'
  <2>1. /\ made' \in MadeState /\ entry' \in EntryState /\ known' \in Count /\ loadAll' \in AllState
        /\ fetch' \in [Fetches -> FetchState] /\ sub' \in [Submissions -> SubState]
        /\ causes' \subseteq {"failed", "overtaken", "blank", "overlapped"}
        /\ (entry'.status = "success" => entry'.columns # Unknown)
    BY <1>1, <1>2, StructureTypes
  <2> QED BY <2>1, StructureTypesNext
<1>4. \A s \in Submissions : /\ sub'[s].pc = sub[s].pc /\ sub'[s].dialog = sub[s].dialog
                             /\ sub'[s].left = sub[s].left /\ sub'[s].done = sub[s].done
  BY <1>2
<1>5. SubsFit' /\ (Quiet' <=> Quiet) /\ (Changing("column")' <=> Changing("column")) BY <1>1, <1>4, SubsSameIs
<1>6. ShownSettled' /\ BeforeIsOn' BY <1>1, <1>2, <1>5, SettledSame
<1>7. KnownForCause' BY <1>1, <1>2, <1>5, KnownSame
<1>8. DropIsWhole' /\ AllAreRead' BY <1>1, <1>2 DEF DropIsWhole, AllAreRead
<1>9. LoadingIsRead' BY <1>1, <1>2 DEF LoadingIsRead, Reading
<1> QED BY <1>3, <1>5, <1>6, <1>7, <1>8, <1>9 DEF StructureInv

LEMMA MountKeeps ==
  ASSUME StructureInv, NEW p \in {"structure", "data"}, Mount(p)
  PROVE  StructureInv'
<1>1. /\ StructureTypeOK /\ SubsFit /\ DropIsWhole /\ BeforeIsOn /\ AllAreRead
      /\ ShownSettled /\ KnownForCause /\ LoadingIsRead
  BY DEF StructureInv
<1>2. /\ pane' = p /\ dialog' = dialog \cap {"drop"} /\ typed' = {} /\ sub' = Undrawn(sub, "gone")
      /\ made' = made /\ known' = known /\ loadAll' = loadAll /\ causes' = causes
  BY DEF Mount
<1>3. PICK h \in {"dialog", "pane", "gone"} : h = "gone" OBVIOUS
<1>4. /\ sub' \in [Submissions -> SubState]
      /\ \A s \in Submissions : /\ sub'[s].pc = sub[s].pc /\ sub'[s].dialog = sub[s].dialog
                                /\ sub'[s].left = sub[s].left /\ sub'[s].done = sub[s].done
  <2>1. PICK t \in [Submissions -> SubState] : t = sub BY <1>1, StructureTypes
  <2>2. PICK u : u = Undrawn(t, h) OBVIOUS
  <2>3. sub' = u BY <1>2, <1>3, <2>1, <2>2
  <2> QED BY <2>1, <2>2, <2>3, UndrawnIs
<1>5. SubsFit' /\ (Quiet' <=> Quiet) /\ (Changing("column")' <=> Changing("column")) BY <1>1, <1>4, SubsSameIs
<1>6. KnownForCause' BY <1>1, <1>2, <1>5, KnownSame
<1>7. DropIsWhole' /\ AllAreRead' BY <1>1, <1>2 DEF DropIsWhole, AllAreRead
<1>8. /\ made' \in MadeState /\ known' \in Count /\ loadAll' \in AllState
      /\ causes' \subseteq {"failed", "overtaken", "blank", "overlapped"}
      /\ pane' \in {"structure", "data", "closed"} /\ dialog' \subseteq Dialogs /\ typed' \subseteq dialog'
  BY <1>1, <1>2, StructureTypes
<1>9. CASE entry.status \in {"loading", "success"}
  <2>1. entry' = entry /\ fetch' = fetch BY <1>9 DEF Mount
  <2>2. /\ entry' \in EntryState /\ fetch' \in [Fetches -> FetchState]
        /\ (entry'.status = "success" => entry'.columns # Unknown)
    BY <1>1, <2>1, StructureTypes
  <2>3. StructureTypeOK' BY <1>4, <1>8, <2>2, StructureTypesNext
  <2>4. ShownSettled' /\ BeforeIsOn' BY <1>1, <1>2, <1>5, <2>1, SettledSame
  <2>5. LoadingIsRead' BY <1>1, <2>1 DEF LoadingIsRead, Reading
  <2> QED BY <1>5, <1>6, <1>7, <2>3, <2>4, <2>5 DEF StructureInv
<1>10. CASE entry.status \notin {"loading", "success"}
  <2>1. entry' = Begun(entry) /\ \E f \in Free : Describe(f) BY <1>10 DEF Mount
  <2>2. PICK f \in Fetches : ~fetch[f].on /\ Describe(f) BY <2>1 DEF Free
  <2>3. PICK e \in EntryState : e = entry BY <1>1, StructureTypes
  <2>4. PICK t \in {"none", "loading", "success", "error"} : t = "loading" OBVIOUS
  <2>5. PICK x : x = [e EXCEPT !.status = t] OBVIOUS
  <2>6. x \in EntryState /\ x.status = t BY <2>5, EntryStatus
  <2>7. entry' = x BY <1>10, <2>1, <2>3, <2>4, <2>5 DEF Begun
  <2>8. entry' \in EntryState /\ (entry'.status = "success" => entry'.columns # Unknown) BY <2>4, <2>6, <2>7
  <2>9. fetch' \in [Fetches -> FetchState] BY <1>1, <2>2, DescribeIs
  <2>10. StructureTypeOK' BY <1>4, <1>8, <2>8, <2>9, StructureTypesNext
  <2>11. ShownSettled' /\ BeforeIsOn' /\ Reading' # {} BY <1>1, <1>2, <2>2, SettledBegins
  <2>12. LoadingIsRead' BY <2>11 DEF LoadingIsRead
  <2> QED BY <1>5, <1>6, <1>7, <2>10, <2>11, <2>12 DEF StructureInv
<1> QED BY <1>9, <1>10

\* One of the queries of a reading reads
LEMMA ReadsKeep ==
  ASSUME StructureInv, NEW f \in Fetches, NEW n \in FetchState, fetch' = [fetch EXCEPT ![f] = n],
         n.on = fetch[f].on, n.before = fetch[f].before, n.late = fetch[f].late,
         causes \subseteq causes', causes' \subseteq causes \cup {"blank"},
         "blank" \notin causes' => n.columns \in {fetch[f].columns, made.columns} /\ n.rest \in {fetch[f].rest, made.rest},
         UNCHANGED <<made, entry, known, loadAll, pane, dialog, typed, sub>>
  PROVE  StructureInv'
<1>1. /\ StructureTypeOK /\ SubsFit /\ DropIsWhole /\ BeforeIsOn /\ AllAreRead
      /\ ShownSettled /\ KnownForCause /\ LoadingIsRead
  BY DEF StructureInv
<1>2. /\ made' = made /\ entry' = entry /\ known' = known /\ loadAll' = loadAll /\ pane' = pane
      /\ dialog' = dialog /\ typed' = typed /\ sub' = sub
  OBVIOUS
<1>3. fetch' \in [Fetches -> FetchState] /\ fetch'[f] = n /\ \A g \in Fetches : g # f => fetch'[g] = fetch[g]
  BY <1>1, StructureTypes
<1>4. StructureTypeOK'
  <2>1. /\ made' \in MadeState /\ entry' \in EntryState /\ known' \in Count /\ loadAll' \in AllState
        /\ sub' \in [Submissions -> SubState] /\ causes' \subseteq {"failed", "overtaken", "blank", "overlapped"}
        /\ pane' \in {"structure", "data", "closed"} /\ dialog' \subseteq Dialogs /\ typed' \subseteq dialog'
        /\ (entry'.status = "success" => entry'.columns # Unknown)
    BY <1>1, <1>2, StructureTypes
  <2> QED BY <1>3, <2>1, StructureTypesNext
<1>5. \A s \in Submissions : /\ sub'[s].pc = sub[s].pc /\ sub'[s].dialog = sub[s].dialog
                             /\ sub'[s].left = sub[s].left /\ sub'[s].done = sub[s].done
  BY <1>2
<1>6. SubsFit' /\ (Quiet' <=> Quiet) /\ (Changing("column")' <=> Changing("column")) BY <1>1, <1>5, SubsSameIs
<1>7. \A g \in Fetches : /\ fetch'[g].on = fetch[g].on /\ fetch'[g].before = fetch[g].before
                         /\ fetch'[g].late = fetch[g].late
  BY <1>3
<1>8. ASSUME causes' \cap Spoilt = {} PROVE \A g \in Fetches : Fresh(g) => Fresh(g)'
  <2>1. "blank" \notin causes' BY <1>8 DEF Spoilt
  <2> QED BY <1>2, <1>3, <2>1 DEF Fresh
<1>9. ShownSettled' /\ BeforeIsOn' BY <1>1, <1>2, <1>6, <1>7, <1>8, SettledReads
<1>10. KnownForCause' BY <1>1, <1>2, <1>6, KnownSame
<1>11. DropIsWhole' /\ AllAreRead' BY <1>1, <1>2 DEF DropIsWhole, AllAreRead
<1>12. LoadingIsRead'
  <2>1. Reading' = Reading BY <1>7 DEF Reading
  <2> QED BY <1>1, <1>2, <2>1 DEF LoadingIsRead
<1> QED BY <1>4, <1>6, <1>9, <1>10, <1>11, <1>12 DEF StructureInv

LEMMA ReadColumnsKeeps ==
  ASSUME StructureInv, NEW f \in Fetches, ReadColumns(f)
  PROVE  StructureInv'
<1>1. StructureTypeOK BY DEF StructureInv
<1>2. /\ fetch' = [fetch EXCEPT ![f].columns = made.columns] /\ causes' = causes
      /\ UNCHANGED <<made, entry, known, loadAll, pane, dialog, typed, sub>>
  BY DEF ReadColumns
<1>3. PICK x \in FetchState : x = fetch[f] BY <1>1, StructureTypes
<1>4. PICK c \in Count : c = made.columns BY <1>1, StructureTypes
<1>5. PICK n : n = [x EXCEPT !.columns = c] OBVIOUS
<1>6. n \in FetchState BY <1>5 DEF FetchState
<1>7. n.on = x.on /\ n.before = x.before /\ n.late = x.late /\ n.columns = c /\ n.rest = x.rest
  BY <1>5 DEF FetchState
<1>8. fetch' = [fetch EXCEPT ![f] = n] BY <1>1, <1>2, <1>3, <1>4, <1>5, StructureTypes
<1>9. "blank" \notin causes' =>
        n.columns \in {fetch[f].columns, made.columns} /\ n.rest \in {fetch[f].rest, made.rest}
  BY <1>3, <1>4, <1>7
<1>10. n.on = fetch[f].on /\ n.before = fetch[f].before /\ n.late = fetch[f].late BY <1>3, <1>7
<1>11. causes \subseteq causes' /\ causes' \subseteq causes \cup {"blank"} BY <1>2
<1>12. UNCHANGED <<made, entry, known, loadAll, pane, dialog, typed, sub>> BY <1>2
<1> QED BY <1>6, <1>8, <1>9, <1>10, <1>11, <1>12, ReadsKeep

LEMMA ReadRestKeeps ==
  ASSUME StructureInv, NEW f \in Fetches, ReadRest(f)
  PROVE  StructureInv'
<1>1. StructureTypeOK BY DEF StructureInv
<1>2. UNCHANGED <<made, entry, known, loadAll, pane, dialog, typed, sub>> BY DEF ReadRest
<1>3. PICK r \in {made.rest, Blank} :
        /\ fetch' = [fetch EXCEPT ![f].rest = r]
        /\ causes' = IF r # made.rest THEN causes \cup {"blank"} ELSE causes
  BY DEF ReadRest
<1>4. PICK x \in FetchState : x = fetch[f] BY <1>1, StructureTypes
<1>5. r \in Count BY <1>1, <1>3, StructureTypes, CountsAre
<1>6. PICK n : n = [x EXCEPT !.rest = r] OBVIOUS
<1>7. n \in FetchState BY <1>5, <1>6 DEF FetchState
<1>8. n.on = x.on /\ n.before = x.before /\ n.late = x.late /\ n.columns = x.columns /\ n.rest = r
  BY <1>6 DEF FetchState
<1>9. fetch' = [fetch EXCEPT ![f] = n] BY <1>1, <1>3, <1>4, <1>6, StructureTypes
<1>10. causes \subseteq causes' /\ causes' \subseteq causes \cup {"blank"} /\ ("blank" \notin causes' => r = made.rest)
  BY <1>3
<1>11. "blank" \notin causes' =>
         n.columns \in {fetch[f].columns, made.columns} /\ n.rest \in {fetch[f].rest, made.rest}
  BY <1>4, <1>8, <1>10
<1>12. n.on = fetch[f].on /\ n.before = fetch[f].before /\ n.late = fetch[f].late BY <1>4, <1>8
<1>13. causes \subseteq causes' /\ causes' \subseteq causes \cup {"blank"} BY <1>10
<1> QED BY <1>2, <1>7, <1>9, <1>11, <1>12, <1>13, ReadsKeep

LEMMA ArrivesKeeps ==
  ASSUME StructureInv, NEW f \in Fetches, Arrives(f)
  PROVE  StructureInv'
<1>1. /\ StructureTypeOK /\ SubsFit /\ DropIsWhole /\ BeforeIsOn /\ AllAreRead
      /\ ShownSettled /\ KnownForCause /\ LoadingIsRead
  BY DEF StructureInv
<1>2. /\ fetch[f].on /\ fetch[f].columns # Unknown /\ fetch[f].rest # Unknown
      /\ entry' = [status |-> "success", columns |-> fetch[f].columns, rest |-> fetch[f].rest]
      /\ causes' = causes \cup (IF fetch[f].late THEN {"overtaken"} ELSE {})
      /\ fetch' = Ended(f)
      /\ made' = made /\ known' = known /\ loadAll' = loadAll /\ pane' = pane /\ dialog' = dialog
      /\ typed' = typed /\ sub' = sub
  BY DEF Arrives
<1>3. causes \subseteq causes' /\ causes' \subseteq causes \cup {"overtaken"} /\ (fetch[f].late => "overtaken" \in causes')
  BY <1>2
<1>4. PICK c \in Count, r \in Count : c = fetch[f].columns /\ r = fetch[f].rest
  <2>1. PICK x \in FetchState : x = fetch[f] BY <1>1, StructureTypes
  <2>2. x.columns \in Count /\ x.rest \in Count BY FetchFields
  <2> QED BY <2>1, <2>2
<1>5. PICK t \in {"none", "loading", "success", "error"} : t = "success" OBVIOUS
<1>6. PICK e \in EntryState : e = [status |-> t, columns |-> c, rest |-> r] BY DEF EntryState
<1>7. e.status = t /\ e.columns = c /\ e.rest = r BY <1>6, Zenon
<1>8. entry' = e BY <1>2, <1>4, <1>5, <1>6
<1>9. fetch' \in [Fetches -> FetchState] BY <1>1, <1>2, EndedIs
<1>10. StructureTypeOK'
  <2>1. /\ made' \in MadeState /\ known' \in Count /\ loadAll' \in AllState
        /\ sub' \in [Submissions -> SubState] /\ causes' \subseteq {"failed", "overtaken", "blank", "overlapped"}
        /\ pane' \in {"structure", "data", "closed"} /\ dialog' \subseteq Dialogs /\ typed' \subseteq dialog'
    BY <1>1, <1>2, <1>3, StructureTypes
  <2>2. entry' \in EntryState /\ entry'.columns # Unknown BY <1>2, <1>4, <1>7, <1>8
  <2> QED BY <1>9, <2>1, <2>2, StructureTypesNext
<1>11. \A s \in Submissions : /\ sub'[s].pc = sub[s].pc /\ sub'[s].dialog = sub[s].dialog
                              /\ sub'[s].left = sub[s].left /\ sub'[s].done = sub[s].done
  BY <1>2
<1>12. SubsFit' /\ (Quiet' <=> Quiet) /\ (Changing("column")' <=> Changing("column")) BY <1>1, <1>11, SubsSameIs
<1>13. Fresh(f) => EntryFits'
  <2> SUFFICES ASSUME Fresh(f) PROVE EntryFits' OBVIOUS
  <2>1. c = made.columns /\ r = made.rest BY <1>2, <1>4 DEF Fresh
  <2> QED BY <1>2, <1>7, <1>8, <2>1 DEF EntryFits
<1>14. fetch[f].late => EntryFits' \/ causes' \cap Spoilt # {} BY <1>3 DEF Spoilt
<1>15. ShownSettled' /\ BeforeIsOn' BY <1>1, <1>2, <1>3, <1>12, <1>13, <1>14, SettledEnds
<1>16. KnownForCause' BY <1>1, <1>2, <1>3, <1>12, KnownSame
<1>17. DropIsWhole' /\ AllAreRead' BY <1>1, <1>2, <1>3 DEF DropIsWhole, AllAreRead
<1>18. LoadingIsRead' BY <1>5, <1>7, <1>8 DEF LoadingIsRead
<1> QED BY <1>10, <1>12, <1>15, <1>16, <1>17, <1>18 DEF StructureInv

LEMMA FetchFailsKeeps ==
  ASSUME StructureInv, NEW f \in Fetches, FetchFails(f)
  PROVE  StructureInv'
<1>1. /\ StructureTypeOK /\ SubsFit /\ DropIsWhole /\ BeforeIsOn /\ AllAreRead
      /\ ShownSettled /\ KnownForCause /\ LoadingIsRead
  BY DEF StructureInv
<1>2. /\ fetch[f].on /\ entry' = [entry EXCEPT !.status = "error"] /\ fetch' = Ended(f) /\ typed' = {}
      /\ (sub' = Undrawn(sub, "pane") \/ sub' = sub)
      /\ made' = made /\ known' = known /\ loadAll' = loadAll /\ pane' = pane /\ dialog' = dialog
      /\ causes' = causes
  BY DEF FetchFails
<1>3. /\ sub' \in [Submissions -> SubState]
      /\ \A s \in Submissions : /\ sub'[s].pc = sub[s].pc /\ sub'[s].dialog = sub[s].dialog
                                /\ sub'[s].left = sub[s].left /\ sub'[s].done = sub[s].done
  <2>1. PICK t \in [Submissions -> SubState] : t = sub BY <1>1, StructureTypes
  <2>2. PICK h \in {"dialog", "pane", "gone"} : h = "pane" OBVIOUS
  <2>3. PICK u : u = Undrawn(t, h) OBVIOUS
  <2>4. sub' = u \/ sub' = t BY <1>2, <2>1, <2>2, <2>3
  <2> QED BY <2>1, <2>3, <2>4, UndrawnIs
<1>4. PICK e \in EntryState : e = entry BY <1>1, StructureTypes
<1>5. PICK t \in {"none", "loading", "success", "error"} : t = "error" OBVIOUS
<1>6. PICK x : x = [e EXCEPT !.status = t] OBVIOUS
<1>7. x \in EntryState /\ x.status = t BY <1>6, EntryStatus
<1>8. entry' = x BY <1>2, <1>4, <1>5, <1>6
<1>9. entry'.status = "error" BY <1>5, <1>7, <1>8
<1>10. StructureTypeOK'
  <2>1. /\ made' \in MadeState /\ known' \in Count /\ loadAll' \in AllState
        /\ causes' \subseteq {"failed", "overtaken", "blank", "overlapped"}
        /\ pane' \in {"structure", "data", "closed"} /\ dialog' \subseteq Dialogs /\ typed' \subseteq dialog'
    BY <1>1, <1>2, StructureTypes
  <2>2. entry' \in EntryState /\ (entry'.status = "success" => entry'.columns # Unknown) BY <1>7, <1>8, <1>9
  <2>3. fetch' \in [Fetches -> FetchState] BY <1>1, <1>2, EndedIs
  <2> QED BY <1>3, <2>1, <2>2, <2>3, StructureTypesNext
<1>11. SubsFit' /\ (Quiet' <=> Quiet) /\ (Changing("column")' <=> Changing("column")) BY <1>1, <1>3, SubsSameIs
<1>12. EntryFits' BY <1>9 DEF EntryFits
<1>13. ShownSettled' /\ BeforeIsOn' BY <1>1, <1>2, <1>11, <1>12, SettledEnds
<1>14. KnownForCause' BY <1>1, <1>2, <1>11, KnownSame
<1>15. DropIsWhole' /\ AllAreRead' BY <1>1, <1>2 DEF DropIsWhole, AllAreRead
<1>16. LoadingIsRead' BY <1>9 DEF LoadingIsRead
<1> QED BY <1>10, <1>11, <1>13, <1>14, <1>15, <1>16 DEF StructureInv

\* The columns of the whole schema
LEMMA AllKeeps ==
  ASSUME StructureInv, NEW a \in AllState, loadAll' = a, known' \in Count,
         a.on /\ "overlapped" \notin causes => a.columns \in {Unknown, made.columns},
         KnownForCause',
         UNCHANGED <<made, entry, fetch, pane, dialog, typed, sub, causes>>
  PROVE  StructureInv'
<1>1. /\ StructureTypeOK /\ SubsFit /\ DropIsWhole /\ BeforeIsOn
      /\ ShownSettled /\ LoadingIsRead
  BY DEF StructureInv
<1>2. /\ made' = made /\ entry' = entry /\ fetch' = fetch /\ pane' = pane
      /\ dialog' = dialog /\ typed' = typed /\ sub' = sub /\ causes' = causes
  OBVIOUS
<1>3. StructureTypeOK'
  <2>1. /\ made' \in MadeState /\ entry' \in EntryState /\ fetch' \in [Fetches -> FetchState]
        /\ sub' \in [Submissions -> SubState] /\ causes' \subseteq {"failed", "overtaken", "blank", "overlapped"}
        /\ pane' \in {"structure", "data", "closed"} /\ dialog' \subseteq Dialogs /\ typed' \subseteq dialog'
        /\ (entry'.status = "success" => entry'.columns # Unknown)
    BY <1>1, <1>2, StructureTypes
  <2>2. loadAll' \in AllState OBVIOUS
  <2> QED BY <2>1, <2>2, StructureTypesNext
<1>4. \A s \in Submissions : /\ sub'[s].pc = sub[s].pc /\ sub'[s].dialog = sub[s].dialog
                             /\ sub'[s].left = sub[s].left /\ sub'[s].done = sub[s].done
  BY <1>2
<1>5. SubsFit' /\ (Quiet' <=> Quiet) BY <1>1, <1>4, SubsSameIs
<1>6. ShownSettled' /\ BeforeIsOn' BY <1>1, <1>2, <1>5, SettledSame
<1>7. DropIsWhole' /\ AllAreRead' BY <1>1, <1>2 DEF DropIsWhole, AllAreRead
<1>8. LoadingIsRead' BY <1>1, <1>2 DEF LoadingIsRead, Reading
<1> QED BY <1>3, <1>5, <1>6, <1>7, <1>8 DEF StructureInv

LEMMA NoLoadAllIs == NoLoadAll \in AllState /\ ~NoLoadAll.on /\ NoLoadAll.columns = Unknown
<1>1. PICK t \in BOOLEAN : t = FALSE OBVIOUS
<1>2. PICK c \in Count : c = Unknown BY CountsAre
<1>3. PICK z : z = [on |-> t, columns |-> c] OBVIOUS
<1>4. z \in AllState /\ z.on = t /\ z.columns = c BY <1>3 DEF AllState
<1>5. z = NoLoadAll BY <1>1, <1>2, <1>3, Zenon DEF NoLoadAll
<1> QED BY <1>1, <1>2, <1>4, <1>5

LEMMA AskAllKeeps ==
  ASSUME StructureInv, AskAll
  PROVE  StructureInv'
<1>1. StructureTypeOK /\ KnownForCause BY DEF StructureInv
<1>2. /\ loadAll' = [NoLoadAll EXCEPT !.on = TRUE]
      /\ UNCHANGED <<made, entry, known, fetch, pane, dialog, typed, sub, causes>>
  BY DEF AskAll
<1>3. PICK z \in AllState : z = NoLoadAll BY NoLoadAllIs
<1>4. PICK t \in BOOLEAN : t = TRUE OBVIOUS
<1>5. PICK a : a = [z EXCEPT !.on = t] OBVIOUS
<1>6. a \in AllState /\ a.columns = z.columns BY <1>5 DEF AllState
<1>7. a.columns = Unknown BY <1>3, <1>6, NoLoadAllIs
<1>8. loadAll' = a BY <1>2, <1>3, <1>4, <1>5
<1>9. known' \in Count BY <1>1, <1>2, StructureTypes
<1>10. KnownForCause' BY <1>1, <1>2 DEF KnownForCause, Changing
<1>11. UNCHANGED <<made, entry, fetch, pane, dialog, typed, sub, causes>> BY <1>2
<1> QED BY <1>6, <1>7, <1>8, <1>9, <1>10, <1>11, AllKeeps

LEMMA ReadAllKeeps ==
  ASSUME StructureInv, ReadAll
  PROVE  StructureInv'
<1>1. StructureTypeOK /\ KnownForCause BY DEF StructureInv
<1>2. /\ loadAll' = [loadAll EXCEPT !.columns = made.columns]
      /\ UNCHANGED <<made, entry, known, fetch, pane, dialog, typed, sub, causes>>
  BY DEF ReadAll
<1>3. PICK z \in AllState : z = loadAll BY <1>1, StructureTypes
<1>4. PICK c \in Count : c = made.columns BY <1>1, StructureTypes
<1>5. PICK a : a = [z EXCEPT !.columns = c] OBVIOUS
<1>6. a \in AllState /\ a.columns = c BY <1>5 DEF AllState
<1>7. loadAll' = a BY <1>2, <1>3, <1>4, <1>5
<1>8. known' \in Count BY <1>1, <1>2, StructureTypes
<1>9. KnownForCause' BY <1>1, <1>2 DEF KnownForCause, Changing
<1>10. UNCHANGED <<made, entry, fetch, pane, dialog, typed, sub, causes>> BY <1>2
<1> QED BY <1>4, <1>6, <1>7, <1>8, <1>9, <1>10, AllKeeps

LEMMA AllArriveKeeps ==
  ASSUME StructureInv, AllArrive
  PROVE  StructureInv'
<1>1. StructureTypeOK /\ KnownForCause /\ AllAreRead BY DEF StructureInv
<1>2. /\ loadAll.on /\ loadAll.columns # Unknown /\ loadAll' = NoLoadAll
      /\ known' = (IF loadAll.columns = Blank THEN known ELSE loadAll.columns)
      /\ UNCHANGED <<made, entry, fetch, pane, dialog, typed, sub, causes>>
  BY DEF AllArrive
<1>3. PICK a \in AllState : a = NoLoadAll /\ ~a.on BY NoLoadAllIs
<1>4. known' \in Count BY <1>1, <1>2, StructureTypes
<1>5. KnownForCause'
  <2>1. Changing("column")' <=> Changing("column") BY <1>2 DEF Changing
  <2>2. known' = known \/ known' = made.columns \/ "overlapped" \in causes BY <1>1, <1>2 DEF AllAreRead
  <2>3. made' = made /\ causes' = causes BY <1>2
  <2>4. CASE known' = known BY <1>1, <2>1, <2>3, <2>4 DEF KnownForCause
  <2>5. CASE known' = made.columns BY <2>3, <2>5 DEF KnownForCause
  <2>6. CASE "overlapped" \in causes BY <2>3, <2>6 DEF KnownForCause
  <2> QED BY <2>2, <2>4, <2>5, <2>6
<1> QED BY <1>2, <1>3, <1>4, <1>5, AllKeeps
-----------------------------------------------------------------------------
(* The submissions *)

SubFits(n) ==
  /\ n.pc = "free" => n.done = 0
  /\ n.pc = "sent" => n.left # 0 /\ n.left + n.done <= 2
  /\ n.pc = "ran" => n.left # 0 /\ n.left + n.done <= 3 /\ n.done # 0

LEMMA SubsFitNext ==
  ASSUME SubsFit, NEW s \in Submissions, sub \in [Submissions -> SubState], NEW n \in SubState,
         SubFits(n), sub' = [sub EXCEPT ![s] = n]
  PROVE  /\ SubsFit' /\ sub' \in [Submissions -> SubState] /\ sub'[s] = n
         /\ \A t \in Submissions : t # s => sub'[t] = sub[t]
<1>1. sub' \in [Submissions -> SubState] /\ sub'[s] = n /\ \A t \in Submissions : t # s => sub'[t] = sub[t]
  OBVIOUS
<1>2. \A t \in Submissions : SubFits(sub[t]) BY DEF SubsFit, SubFits
<1>3. \A t \in Submissions : SubFits(sub'[t]) BY <1>1, <1>2
<1>4. SubsFit' BY <1>3 DEF SubsFit, SubFits
<1> QED BY <1>1, <1>4

\* A submission goes on or is over; nothing else changes
LEMMA SubMoves ==
  ASSUME StructureInv, NEW s \in Submissions, NEW n \in SubState, SubFits(n), sub' = [sub EXCEPT ![s] = n],
         causes \subseteq causes', causes' \subseteq causes \cup {"failed"},
         sub[s].done # 0 => (n.done # 0 /\ n.dialog = sub[s].dialog) \/ "failed" \in causes',
         UNCHANGED <<made, entry, known, loadAll, fetch, pane, dialog, typed>>
  PROVE  StructureInv'
<1>1. /\ StructureTypeOK /\ SubsFit /\ DropIsWhole /\ BeforeIsOn /\ AllAreRead
      /\ ShownSettled /\ KnownForCause /\ LoadingIsRead
  BY DEF StructureInv
<1>2. /\ made' = made /\ entry' = entry /\ known' = known /\ loadAll' = loadAll /\ fetch' = fetch
      /\ pane' = pane /\ dialog' = dialog /\ typed' = typed
  OBVIOUS
<1>3. sub \in [Submissions -> SubState] BY <1>1, StructureTypes
<1>4. /\ SubsFit' /\ sub' \in [Submissions -> SubState] /\ sub'[s] = n
      /\ \A t \in Submissions : t # s => sub'[t] = sub[t]
  BY <1>1, <1>3, SubsFitNext
<1>5. StructureTypeOK'
  <2>1. /\ made' \in MadeState /\ entry' \in EntryState /\ known' \in Count /\ loadAll' \in AllState
        /\ fetch' \in [Fetches -> FetchState] /\ causes' \subseteq {"failed", "overtaken", "blank", "overlapped"}
        /\ pane' \in {"structure", "data", "closed"} /\ dialog' \subseteq Dialogs /\ typed' \subseteq dialog'
        /\ (entry'.status = "success" => entry'.columns # Unknown)
    BY <1>1, <1>2, StructureTypes
  <2> QED BY <1>4, <2>1, StructureTypesNext
<1>6. Quiet' => Quiet \/ causes' \cap Spoilt # {} BY <1>4 DEF Quiet, Spoilt
<1>7. ShownSettled' /\ BeforeIsOn' BY <1>1, <1>2, <1>6, SettledSame
<1>8. Changing("column") => Changing("column")' \/ "failed" \in causes'
  <2> SUFFICES ASSUME Changing("column"), "failed" \notin causes' PROVE Changing("column")' OBVIOUS
  <2>1. PICK t \in Submissions : sub[t].done > 0 /\ sub[t].dialog \in {"column", "drop"} BY DEF Changing
  <2>2. sub[t].done # 0
    <3>1. PICK x \in SubState : x = sub[t] BY <1>3
    <3> QED BY <2>1, <3>1, SubFields
  <2>3. sub'[t].done # 0 /\ sub'[t].dialog = sub[t].dialog BY <1>4, <2>2
  <2>4. PICK y \in SubState : y = sub'[t] BY <1>4
  <2>5. y.done > 0 BY <2>3, <2>4, SubFields
  <2> QED BY <2>1, <2>3, <2>4, <2>5 DEF Changing
<1>9. KnownForCause' BY <1>1, <1>2, <1>8, KnownSame
<1>10. DropIsWhole' /\ AllAreRead' BY <1>1, <1>2 DEF DropIsWhole, AllAreRead
<1>11. LoadingIsRead' BY <1>1, <1>2 DEF LoadingIsRead, Reading
<1> QED BY <1>4, <1>5, <1>7, <1>9, <1>10, <1>11 DEF StructureInv

LEMMA SubmitKept ==
  ASSUME StructureInv, NEW s \in Submissions, NEW d \in Dialogs, SubmitDialog(s, d)
  PROVE  StructureInv'
<1>1. StructureTypeOK /\ SubsFit BY DEF StructureInv
<1>2. /\ sub[s].pc = "free" /\ causes' = causes
      /\ UNCHANGED <<made, entry, known, loadAll, fetch, pane, dialog, typed>>
  BY DEF SubmitDialog
<1>3. PICK k \in 1 .. 2 :
        sub' = [sub EXCEPT ![s] = [pc |-> "sent", dialog |-> d, left |-> k, done |-> 0, here |-> "dialog"]]
  <2>1. PICK K : K = IF d = "column" THEN 1 .. 2 ELSE {1} OBVIOUS
  <2>2. PICK k \in K :
          sub' = [sub EXCEPT ![s] = [pc |-> "sent", dialog |-> d, left |-> k, done |-> 0, here |-> "dialog"]]
    BY <2>1, Zenon DEF SubmitDialog
  <2>3. k \in 1 .. 2 BY <2>1
  <2> QED BY <2>2, <2>3, Zenon
<1>4. PICK p \in {"free", "sent", "ran", "refused", "over"}, h \in {"dialog", "pane", "gone"} :
        p = "sent" /\ h = "dialog"
  OBVIOUS
<1>5. PICK n : n = [pc |-> p, dialog |-> d, left |-> k, done |-> 0, here |-> h] OBVIOUS
<1>6. n \in SubState
  <2>1. k \in 0 .. 2 /\ 0 \in 0 .. 2 OBVIOUS
  <2> QED BY <1>5, <2>1 DEF SubState
<1>7. n.pc = p /\ n.left = k /\ n.done = 0 BY <1>5, Zenon
<1>8. SubFits(n)
  <2>1. k # 0 /\ k + 0 <= 2 OBVIOUS
  <2> QED BY <1>4, <1>7, <2>1 DEF SubFits
<1>9. sub' = [sub EXCEPT ![s] = n] BY <1>3, <1>4, <1>5, Zenon
<1>10. sub[s].done = 0 BY <1>1, <1>2 DEF SubsFit
<1>11. causes \subseteq causes' /\ causes' \subseteq causes \cup {"failed"} BY <1>2
<1>12. UNCHANGED <<made, entry, known, loadAll, fetch, pane, dialog, typed>> BY <1>2
<1> QED BY <1>6, <1>8, <1>9, <1>10, <1>11, <1>12, SubMoves

LEMMA RefusedKeeps ==
  ASSUME StructureInv, NEW s \in Submissions, Refused(s)
  PROVE  StructureInv'
<1>1. StructureTypeOK /\ SubsFit BY DEF StructureInv
<1>2. /\ sub' = [sub EXCEPT ![s].pc = "refused"] /\ causes' = causes
      /\ UNCHANGED <<made, entry, known, loadAll, fetch, pane, dialog, typed>>
  BY DEF Refused
<1>3. PICK x \in SubState : x = sub[s] BY <1>1, StructureTypes
<1>4. PICK p \in {"free", "sent", "ran", "refused", "over"} : p = "refused" OBVIOUS
<1>5. PICK n : n = [x EXCEPT !.pc = p] OBVIOUS
<1>6. n \in SubState BY <1>5 DEF SubState
<1>7. n.pc = p /\ n.done = x.done /\ n.dialog = x.dialog BY <1>5 DEF SubState
<1>8. SubFits(n) BY <1>4, <1>7 DEF SubFits
<1>9. sub' = [sub EXCEPT ![s] = n] BY <1>1, <1>2, <1>3, <1>4, <1>5, StructureTypes
<1>10. sub[s].done # 0 => n.done # 0 /\ n.dialog = sub[s].dialog BY <1>3, <1>7
<1>11. causes \subseteq causes' /\ causes' \subseteq causes \cup {"failed"} BY <1>2
<1>12. UNCHANGED <<made, entry, known, loadAll, fetch, pane, dialog, typed>> BY <1>2
<1> QED BY <1>6, <1>8, <1>9, <1>10, <1>11, <1>12, SubMoves

LEMMA NextStatementKeeps ==
  ASSUME StructureInv, NEW s \in Submissions, NextStatement(s)
  PROVE  StructureInv'
<1>1. StructureTypeOK /\ SubsFit BY DEF StructureInv
<1>2. /\ sub[s].pc = "ran" /\ sub[s].left > 1
      /\ sub' = [sub EXCEPT ![s].pc = "sent", ![s].left = @ - 1] /\ causes' = causes
      /\ UNCHANGED <<made, entry, known, loadAll, fetch, pane, dialog, typed>>
  BY DEF NextStatement
<1>3. PICK x \in SubState : x = sub[s] BY <1>1, StructureTypes
<1>4. PICK p \in {"free", "sent", "ran", "refused", "over"} : p = "sent" OBVIOUS
<1>5. x.left \in 0 .. 2 /\ x.done \in 0 .. 2 BY SubFields
<1>6. x.left > 1 /\ x.left + x.done <= 3 BY <1>1, <1>2, <1>3 DEF SubsFit
<1>7. PICK l \in 0 .. 2 : l = x.left - 1 BY <1>5, <1>6
<1>8. PICK n : n = [x EXCEPT !.pc = p, !.left = l] OBVIOUS
<1>9. n \in SubState BY <1>8 DEF SubState
<1>10. n.pc = p /\ n.left = l /\ n.done = x.done /\ n.dialog = x.dialog BY <1>8 DEF SubState
<1>11. SubFits(n)
  <2>1. l # 0 /\ l + x.done <= 2 BY <1>5, <1>6, <1>7
  <2> QED BY <1>4, <1>10, <2>1 DEF SubFits
<1>12. sub' = [sub EXCEPT ![s] = n] BY <1>1, <1>2, <1>3, <1>4, <1>7, <1>8, StructureTypes
<1>13. sub[s].done # 0 => n.done # 0 /\ n.dialog = sub[s].dialog BY <1>3, <1>10
<1>14. causes \subseteq causes' /\ causes' \subseteq causes \cup {"failed"} BY <1>2
<1>15. UNCHANGED <<made, entry, known, loadAll, fetch, pane, dialog, typed>> BY <1>2
<1> QED BY <1>9, <1>11, <1>12, <1>13, <1>14, <1>15, SubMoves

LEMMA OverIs == Over \in SubState /\ Over.pc = "over" /\ Over.done = 0
<1>1. PICK p \in {"free", "sent", "ran", "refused", "over"}, f \in {"free", "sent", "ran", "refused", "over"},
          h \in {"dialog", "pane", "gone"}, d \in Dialogs :
        p = "over" /\ f = "free" /\ h = "gone" /\ d = "column"
  BY DEF Dialogs
<1>2. PICK z : z = [pc |-> f, dialog |-> d, left |-> 0, done |-> 0, here |-> h] OBVIOUS
<1>3. z = NoSub BY <1>1, <1>2, Zenon DEF NoSub
<1>4. z \in SubState
  <2>1. 0 \in 0 .. 2 OBVIOUS
  <2> QED BY <1>2, <2>1 DEF SubState
<1>5. z.done = 0 BY <1>2, Zenon
<1>6. PICK n : n = [z EXCEPT !.pc = p] OBVIOUS
<1>7. n \in SubState BY <1>4, <1>6 DEF SubState
<1>8. n.pc = p /\ n.done = z.done BY <1>4, <1>6 DEF SubState
<1>9. n = Over BY <1>1, <1>3, <1>6, Zenon DEF Over
<1> QED BY <1>1, <1>5, <1>7, <1>8, <1>9

LEMMA SubmissionFailsKeeps ==
  ASSUME StructureInv, NEW s \in Submissions, SubmissionFails(s)
  PROVE  StructureInv'
<1>1. StructureTypeOK BY DEF StructureInv
<1>2. /\ sub' = [sub EXCEPT ![s] = Over]
      /\ causes' = (IF sub[s].done > 0 THEN causes \cup {"failed"} ELSE causes)
      /\ UNCHANGED <<made, entry, known, loadAll, fetch, pane, dialog, typed>>
  BY DEF SubmissionFails
<1>3. PICK n \in SubState : n = Over /\ n.pc = "over" /\ n.done = 0 BY OverIs
<1>4. SubFits(n) BY <1>3 DEF SubFits
<1>5. sub' = [sub EXCEPT ![s] = n] BY <1>2, <1>3
<1>6. sub[s].done # 0 => "failed" \in causes'
  <2>1. PICK x \in SubState : x = sub[s] BY <1>1, StructureTypes
  <2>2. x.done # 0 => x.done > 0 BY SubFields
  <2> QED BY <1>2, <2>1, <2>2
<1>7. causes \subseteq causes' /\ causes' \subseteq causes \cup {"failed"} BY <1>2
<1>8. UNCHANGED <<made, entry, known, loadAll, fetch, pane, dialog, typed>> BY <1>2
<1> QED BY <1>4, <1>5, <1>6, <1>7, <1>8, SubMoves

\* A statement that ran is a change that is under way, until its submission is over
LEMMA RanKeeps ==
  ASSUME StructureInv, NEW s \in Submissions, Ran(s)
  PROVE  StructureInv'
<1>1. /\ StructureTypeOK /\ SubsFit /\ DropIsWhole /\ BeforeIsOn /\ AllAreRead
      /\ ShownSettled /\ KnownForCause /\ LoadingIsRead
  BY DEF StructureInv
<1>2. /\ sub[s].pc = "sent" /\ made.columns # Blank
      /\ sub' = [sub EXCEPT ![s].pc = "ran", ![s].done = @ + 1]
      /\ causes' = (IF loadAll.on THEN causes \cup {"overlapped"} ELSE causes)
      /\ entry' = entry /\ known' = known /\ loadAll' = loadAll /\ fetch' = fetch /\ pane' = pane
      /\ dialog' = dialog /\ typed' = typed
  BY DEF Ran, Exists
<1>3. causes \subseteq causes' /\ causes' \subseteq causes \cup {"overlapped"} /\ (loadAll.on => "overlapped" \in causes')
  BY <1>2
<1>4. PICK x \in SubState : x = sub[s] BY <1>1, StructureTypes
<1>5. x.left \in 0 .. 2 /\ x.done \in 0 .. 2 /\ x.dialog \in Dialogs BY SubFields
<1>6. x.left # 0 /\ x.left + x.done <= 2 BY <1>1, <1>2, <1>4 DEF SubsFit
<1>7. PICK p \in {"free", "sent", "ran", "refused", "over"} : p = "ran" OBVIOUS
<1>8. PICK k \in 0 .. 2 : k = x.done + 1 /\ k # 0 /\ k > 0 BY <1>5, <1>6
<1>9. PICK n : n = [x EXCEPT !.pc = p, !.done = k] OBVIOUS
<1>10. n \in SubState BY <1>9 DEF SubState
<1>11. n.pc = p /\ n.left = x.left /\ n.done = k /\ n.dialog = x.dialog BY <1>9 DEF SubState
<1>12. SubFits(n)
  <2>1. x.left + k <= 3 BY <1>5, <1>6, <1>8
  <2> QED BY <1>6, <1>7, <1>8, <1>11, <2>1 DEF SubFits
<1>13. sub \in [Submissions -> SubState] BY <1>1, StructureTypes
<1>14. sub' = [sub EXCEPT ![s] = n] BY <1>2, <1>4, <1>7, <1>8, <1>9, <1>13
<1>15. /\ SubsFit' /\ sub' \in [Submissions -> SubState] /\ sub'[s] = n
       /\ \A t \in Submissions : t # s => sub'[t] = sub[t]
  BY <1>1, <1>10, <1>12, <1>13, <1>14, SubsFitNext
<1>16. PICK m \in MadeState : m = made BY <1>1, StructureTypes
<1>17. m.columns \in Count \ {Unknown, Blank} /\ m.rest \in Count \ {Unknown, Blank}
  BY <1>1, <1>2, <1>16, StructureTypes DEF DropIsWhole
<1>18. /\ made' \in MadeState /\ DropIsWhole'
       /\ x.dialog \notin {"column", "drop"} => made'.columns = made.columns
  <2>1. CASE x.dialog = "column"
    <3>1. made.columns < MaxChanges /\ made' = [made EXCEPT !.columns = @ + 1]
      BY <1>4, <2>1 DEF Ran
    <3>2. m.columns \in 0 .. MaxChanges BY <1>17, CountsAre
    <3>3. PICK c \in Count \ {Unknown, Blank} : c = m.columns + 1 BY <1>16, <3>1, <3>2, CountsAre
    <3>4. PICK w : w = [m EXCEPT !.columns = c] OBVIOUS
    <3>5. w \in MadeState /\ w.columns = c /\ w.rest = m.rest BY <3>4 DEF MadeState
    <3>6. made' = w BY <1>16, <3>1, <3>3, <3>4
    <3> QED BY <1>17, <2>1, <3>5, <3>6 DEF DropIsWhole
  <2>2. CASE x.dialog = "index"
    <3>1. made.rest < MaxChanges /\ made' = [made EXCEPT !.rest = @ + 1]
      BY <1>4, <2>2 DEF Ran
    <3>2. m.rest \in 0 .. MaxChanges BY <1>17, CountsAre
    <3>3. PICK c \in Count \ {Unknown, Blank} : c = m.rest + 1 BY <1>16, <3>1, <3>2, CountsAre
    <3>4. PICK w : w = [m EXCEPT !.rest = c] OBVIOUS
    <3>5. w \in MadeState /\ w.columns = m.columns /\ w.rest = c BY <3>4 DEF MadeState
    <3>6. made' = w BY <1>16, <3>1, <3>3, <3>4
    <3> QED BY <1>16, <1>17, <3>5, <3>6 DEF DropIsWhole
  <2>3. CASE x.dialog = "drop"
    <3>1. made' = [columns |-> Blank, rest |-> Blank] BY <1>4, <2>3 DEF Ran
    <3>2. PICK b \in Count \ {Unknown} : b = Blank BY CountsAre
    <3>3. PICK w \in MadeState : w = [columns |-> b, rest |-> b] BY DEF MadeState
    <3>4. w.columns = b /\ w.rest = b BY <3>3, Zenon
    <3>5. made' = w BY <3>1, <3>2, <3>3
    <3> QED BY <2>3, <3>2, <3>4, <3>5 DEF DropIsWhole
  <2> QED BY <1>5, <2>1, <2>2, <2>3 DEF Dialogs
<1>19. StructureTypeOK'
  <2>1. /\ entry' \in EntryState /\ known' \in Count /\ loadAll' \in AllState
        /\ fetch' \in [Fetches -> FetchState] /\ causes' \subseteq {"failed", "overtaken", "blank", "overlapped"}
        /\ pane' \in {"structure", "data", "closed"} /\ dialog' \subseteq Dialogs /\ typed' \subseteq dialog'
        /\ (entry'.status = "success" => entry'.columns # Unknown)
    BY <1>1, <1>2, <1>3, StructureTypes
  <2> QED BY <1>15, <1>18, <2>1, StructureTypesNext
<1>20. ShownSettled'
  <2>1. ~Quiet' BY <1>8, <1>11, <1>15 DEF Quiet
  <2> QED BY <2>1 DEF ShownSettled
<1>21. BeforeIsOn' /\ LoadingIsRead' BY <1>1, <1>2 DEF BeforeIsOn, LoadingIsRead, Reading
<1>22. AllAreRead' BY <1>1, <1>2, <1>3 DEF AllAreRead
<1>23. KnownForCause'
  <2>1. CASE x.dialog \in {"column", "drop"}
    <3>1. sub'[s].done > 0 /\ sub'[s].dialog \in {"column", "drop"} BY <1>8, <1>11, <1>15, <2>1
    <3>2. Changing("column")' BY <3>1 DEF Changing
    <3> QED BY <3>2 DEF KnownForCause
  <2>2. CASE x.dialog \notin {"column", "drop"}
    <3>1. Changing("column") => Changing("column")'
      <4> SUFFICES ASSUME Changing("column") PROVE Changing("column")' OBVIOUS
      <4>1. PICK t \in Submissions : sub[t].done > 0 /\ sub[t].dialog \in {"column", "drop"} BY DEF Changing
      <4>2. t # s BY <1>4, <2>2, <4>1
      <4> QED BY <1>15, <4>1, <4>2 DEF Changing
    <3> QED BY <1>1, <1>2, <1>3, <1>18, <2>2, <3>1, KnownSame
  <2> QED BY <2>1, <2>2
<1> QED BY <1>15, <1>18, <1>19, <1>20, <1>21, <1>22, <1>23 DEF StructureInv

LEMMA SucceedsKeeps ==
  ASSUME StructureInv, NEW s \in Submissions, Succeeds(s)
  PROVE  StructureInv'
<1>1. /\ StructureTypeOK /\ SubsFit /\ DropIsWhole /\ BeforeIsOn /\ AllAreRead
      /\ ShownSettled /\ KnownForCause /\ LoadingIsRead
  BY DEF StructureInv
<1>2. /\ sub[s].dialog # "drop" /\ entry' = [NoEntry EXCEPT !.status = "loading"]
      /\ known' = (IF sub[s].dialog = "column" THEN Unknown ELSE known)
      /\ sub' = Undrawn([sub EXCEPT ![s] = Over], "pane")
      /\ dialog' \subseteq dialog /\ typed' = {}
      /\ made' = made /\ loadAll' = loadAll /\ pane' = pane /\ causes' = causes
  BY DEF Succeeds, AfterSuccess, Finishes
<1>3. PICK f \in Fetches : ~fetch[f].on /\ Describe(f) BY DEF Succeeds, Free
<1>4. PICK n \in SubState : n = Over /\ n.pc = "over" /\ n.done = 0 BY OverIs
<1>5. PICK t : t = [sub EXCEPT ![s] = n] OBVIOUS
<1>6. sub \in [Submissions -> SubState] BY <1>1, StructureTypes
<1>7. t \in [Submissions -> SubState] /\ t[s] = n /\ \A q \in Submissions : q # s => t[q] = sub[q] BY <1>5, <1>6
<1>8. PICK h \in {"dialog", "pane", "gone"} : h = "pane" OBVIOUS
<1>9. PICK u : u = Undrawn(t, h) OBVIOUS
<1>10. sub' = u BY <1>2, <1>4, <1>5, <1>8, <1>9
<1>11. /\ sub' \in [Submissions -> SubState]
       /\ \A q \in Submissions : /\ sub'[q].pc = t[q].pc /\ sub'[q].dialog = t[q].dialog
                                 /\ sub'[q].left = t[q].left /\ sub'[q].done = t[q].done
  BY <1>7, <1>9, <1>10, UndrawnIs
<1>12. SubsFit'
  <2>1. ASSUME NEW q \in Submissions PROVE SubFits(sub'[q])
    <3>1. CASE q = s BY <1>4, <1>7, <1>11, <3>1 DEF SubFits
    <3>2. CASE q # s
      <4>1. SubFits(sub[q]) BY <1>1 DEF SubsFit, SubFits
      <4> QED BY <1>7, <1>11, <3>2, <4>1 DEF SubFits
    <3> QED BY <3>1, <3>2
  <2> QED BY <2>1 DEF SubsFit, SubFits
<1>13. PICK e \in EntryState : e = entry' /\ e.status = "loading"
  <2>1. PICK o, l \in {"none", "loading", "success", "error"} : o = "none" /\ l = "loading" OBVIOUS
  <2>2. PICK c \in Count : c = Unknown BY CountsAre
  <2>3. PICK z \in EntryState : z = [status |-> o, columns |-> c, rest |-> c] BY <2>1 DEF EntryState
  <2>4. z = NoEntry BY <2>1, <2>2, <2>3, Zenon DEF NoEntry
  <2>5. PICK x : x = [z EXCEPT !.status = l] OBVIOUS
  <2>6. x \in EntryState /\ x.status = l BY <2>5, EntryStatus
  <2>7. entry' = x BY <1>2, <2>1, <2>4, <2>5, Zenon
  <2> QED BY <2>1, <2>6, <2>7
<1>14. known' \in Count /\ known' \in {known, Unknown} BY <1>1, <1>2, StructureTypes, CountsAre
<1>15. StructureTypeOK'
  <2>1. /\ made' \in MadeState /\ loadAll' \in AllState /\ pane' \in {"structure", "data", "closed"}
        /\ causes' \subseteq {"failed", "overtaken", "blank", "overlapped"}
        /\ dialog' \subseteq Dialogs /\ typed' \subseteq dialog'
    BY <1>1, <1>2, StructureTypes
  <2>2. entry' \in EntryState /\ entry'.status = "loading" BY <1>13
  <2>3. entry'.status = "success" => entry'.columns # Unknown BY <2>2
  <2>4. fetch' \in [Fetches -> FetchState] BY <1>1, <1>3, DescribeIs
  <2> QED BY <1>11, <1>14, <2>1, <2>2, <2>3, <2>4, StructureTypesNext
<1>16. ShownSettled' /\ BeforeIsOn' /\ Reading' # {} BY <1>1, <1>2, <1>3, SettledBegins
<1>17. LoadingIsRead' BY <1>16 DEF LoadingIsRead
<1>18. DropIsWhole' /\ AllAreRead' BY <1>1, <1>2 DEF DropIsWhole, AllAreRead
<1>19. Changing("column") => Changing("column")' \/ known' = Unknown
  <2> SUFFICES ASSUME Changing("column"), known' # Unknown PROVE Changing("column")' OBVIOUS
  <2>1. PICK q \in Submissions : sub[q].done > 0 /\ sub[q].dialog \in {"column", "drop"} BY DEF Changing
  <2>2. q # s BY <1>2, <2>1
  <2> QED BY <1>7, <1>11, <2>1, <2>2 DEF Changing
<1>20. KnownForCause' BY <1>1, <1>2, <1>14, <1>19, KnownSame
<1> QED BY <1>12, <1>15, <1>16, <1>17, <1>18, <1>20 DEF StructureInv

LEMMA DropsKeep ==
  ASSUME StructureInv, NEW s \in Submissions, Drops(s)
  PROVE  StructureInv'
<1>1. /\ StructureTypeOK /\ SubsFit /\ DropIsWhole /\ BeforeIsOn /\ AllAreRead
      /\ ShownSettled /\ KnownForCause /\ LoadingIsRead
  BY DEF StructureInv
<1>2. /\ entry' = NoEntry /\ known' = Unknown
      /\ fetch' = [f \in Fetches |-> [fetch[f] EXCEPT !.late = fetch[f].on]]
      /\ pane' = "closed" /\ dialog' = {} /\ typed' = {}
      /\ sub' = [t \in Submissions |-> IF t = s THEN Over ELSE [sub[t] EXCEPT !.here = "gone"]]
      /\ made' = made /\ loadAll' = loadAll /\ causes' = causes
  BY DEF Drops
<1>3. sub' \in [Submissions -> SubState] /\ SubsFit'
  <2>1. PICK n \in SubState : n = Over /\ n.pc = "over" /\ n.done = 0 BY OverIs
  <2>2. PICK h \in {"dialog", "pane", "gone"} : h = "gone" OBVIOUS
  <2>3. ASSUME NEW t \in Submissions PROVE sub'[t] \in SubState /\ SubFits(sub'[t])
    <3>1. CASE t = s
      <4>1. sub'[t] = n BY <1>2, <2>1, <3>1
      <4> QED BY <2>1, <4>1 DEF SubFits
    <3>2. CASE t # s
      <4>1. PICK x \in SubState : x = sub[t] BY <1>1, StructureTypes
      <4>2. PICK y : y = [x EXCEPT !.here = h] OBVIOUS
      <4>3. y \in SubState BY <4>2 DEF SubState
      <4>4. y.pc = x.pc /\ y.left = x.left /\ y.done = x.done BY <4>2 DEF SubState
      <4>5. sub'[t] = y BY <1>2, <2>2, <3>2, <4>1, <4>2
      <4>6. SubFits(x) BY <1>1, <4>1 DEF SubsFit, SubFits
      <4> QED BY <4>3, <4>4, <4>5, <4>6 DEF SubFits
    <3> QED BY <3>1, <3>2
  <2>4. sub' = [t \in Submissions |-> sub'[t]] BY <1>2
  <2>5. sub' \in [Submissions -> SubState] BY <2>3, <2>4
  <2>6. SubsFit' BY <2>3 DEF SubsFit, SubFits
  <2> QED BY <2>5, <2>6
<1>4. /\ fetch' \in [Fetches -> FetchState]
      /\ \A g \in Fetches : /\ fetch'[g].on = fetch[g].on /\ fetch'[g].before = fetch[g].before
                            /\ (fetch[g].on => fetch'[g].late)
  <2>1. ASSUME NEW g \in Fetches
        PROVE  /\ fetch'[g] \in FetchState /\ fetch'[g].on = fetch[g].on
               /\ fetch'[g].before = fetch[g].before /\ (fetch[g].on => fetch'[g].late)
    <3>1. PICK x \in FetchState : x = fetch[g] BY <1>1, StructureTypes
    <3>2. PICK b \in BOOLEAN : b = x.on BY FetchFields
    <3>3. PICK y : y = [x EXCEPT !.late = b] OBVIOUS
    <3>4. y \in FetchState BY <3>3 DEF FetchState
    <3>5. y.on = x.on /\ y.before = x.before /\ y.late = b BY <3>3 DEF FetchState
    <3>6. fetch'[g] = y BY <1>2, <3>1, <3>2, <3>3
    <3> QED BY <3>1, <3>2, <3>4, <3>5, <3>6
  <2>2. fetch' = [g \in Fetches |-> fetch'[g]] BY <1>2
  <2> QED BY <2>1, <2>2
<1>5. PICK e \in EntryState : e = entry' /\ e.status = "none"
  <2>1. PICK o \in {"none", "loading", "success", "error"} : o = "none" OBVIOUS
  <2>2. PICK c \in Count : c = Unknown BY CountsAre
  <2>3. PICK z \in EntryState : z = [status |-> o, columns |-> c, rest |-> c] BY <2>1 DEF EntryState
  <2>4. z.status = o BY <2>3, Zenon
  <2>5. z = NoEntry BY <2>1, <2>2, <2>3, Zenon DEF NoEntry
  <2> QED BY <1>2, <2>1, <2>4, <2>5
<1>6. entry' \in EntryState /\ entry'.status = "none" BY <1>5
<1>7. StructureTypeOK'
  <2>1. /\ made' \in MadeState /\ loadAll' \in AllState /\ pane' \in {"structure", "data", "closed"}
        /\ causes' \subseteq {"failed", "overtaken", "blank", "overlapped"}
        /\ dialog' \subseteq Dialogs /\ typed' \subseteq dialog' /\ known' \in Count
    BY <1>1, <1>2, StructureTypes, CountsAre
  <2>2. entry'.status = "success" => entry'.columns # Unknown BY <1>6
  <2> QED BY <1>3, <1>4, <1>6, <2>1, <2>2, StructureTypesNext
<1>8. Reading' = Reading BY <1>4 DEF Reading
<1>9. ShownSettled'
  <2>1. AllLate'
    <3>1. \A g \in Reading : g \in Fetches /\ fetch[g].on BY DEF Reading
    <3> QED BY <1>4, <1>8, <3>1 DEF AllLate
  <2>2. EntryFits' BY <1>6 DEF EntryFits
  <2> QED BY <2>1, <2>2 DEF ShownSettled
<1>10. BeforeIsOn' BY <1>1, <1>4, <1>8 DEF BeforeIsOn
<1>11. LoadingIsRead' BY <1>6 DEF LoadingIsRead
<1>12. KnownForCause' BY <1>2 DEF KnownForCause
<1>13. DropIsWhole' /\ AllAreRead' BY <1>1, <1>2 DEF DropIsWhole, AllAreRead
<1> QED BY <1>3, <1>7, <1>9, <1>10, <1>11, <1>12, <1>13 DEF StructureInv

LEMMA InitStructure == StructureInit => StructureInv
<1> SUFFICES ASSUME StructureInit PROVE StructureInv OBVIOUS
<1>1. /\ made = [columns |-> 0, rest |-> 0] /\ entry = NoEntry /\ known = 0 /\ loadAll = NoLoadAll
      /\ fetch = [f \in Fetches |-> NoFetch] /\ pane = "data" /\ dialog = {} /\ typed = {}
      /\ sub = [s \in Submissions |-> NoSub] /\ causes = {}
  BY DEF StructureInit
<1>2. PICK b \in BOOLEAN : b = FALSE OBVIOUS
<1>3. PICK c \in Count : c = Unknown BY CountsAre
<1>4. PICK E \in SUBSET Fetches : E = {} OBVIOUS
<1>5. PICK x : x = [on |-> b, columns |-> c, rest |-> c, before |-> E, late |-> b] OBVIOUS
<1>6. x \in FetchState BY <1>5 DEF FetchState
<1>7. x.on = b /\ x.before = E BY <1>5, Zenon
<1>8. fetch = [f \in Fetches |-> x] BY <1>1, <1>2, <1>3, <1>4, <1>5, Zenon DEF NoFetch
<1>9. fetch \in [Fetches -> FetchState] /\ \A f \in Fetches : ~fetch[f].on /\ fetch[f].before = {}
  <2>1. ~x.on /\ x.before = {} BY <1>2, <1>4, <1>7
  <2> QED BY <1>6, <1>8, <2>1
<1>10. Reading = {} BY <1>9 DEF Reading
<1>11. PICK p \in {"free", "sent", "ran", "refused", "over"}, h \in {"dialog", "pane", "gone"}, d \in Dialogs :
         p = "free" /\ h = "gone" /\ d = "column"
  BY DEF Dialogs
<1>12. PICK n : n = [pc |-> p, dialog |-> d, left |-> 0, done |-> 0, here |-> h] OBVIOUS
<1>13. n \in SubState
  <2>1. 0 \in 0 .. 2 OBVIOUS
  <2> QED BY <1>12, <2>1 DEF SubState
<1>14. n.pc = p /\ n.done = 0 BY <1>12, Zenon
<1>15. sub = [s \in Submissions |-> n] BY <1>1, <1>11, <1>12, Zenon DEF NoSub
<1>16. sub \in [Submissions -> SubState] /\ \A s \in Submissions : sub[s].pc = "free" /\ sub[s].done = 0
  BY <1>11, <1>13, <1>14, <1>15
<1>17. PICK o \in {"none", "loading", "success", "error"} : o = "none" OBVIOUS
<1>18. PICK e \in EntryState : e = [status |-> o, columns |-> c, rest |-> c] BY <1>17 DEF EntryState
<1>19. e.status = o BY <1>18, Zenon
<1>20. entry = e BY <1>1, <1>3, <1>17, <1>18, Zenon DEF NoEntry
<1>21. entry.status = "none" BY <1>17, <1>19, <1>20
<1>22. PICK z \in Count \ {Unknown} : z = 0 BY CountsAre
<1>23. PICK m \in MadeState : m = [columns |-> z, rest |-> z] BY DEF MadeState
<1>24. m.columns = z /\ m.rest = z BY <1>23, Zenon
<1>25. made = m BY <1>1, <1>22, <1>23
<1>26. loadAll \in AllState /\ ~loadAll.on BY <1>1, NoLoadAllIs
<1>27. StructureTypeOK
  <2>1. /\ made \in MadeState /\ entry \in EntryState /\ known \in Count BY <1>1, <1>20, <1>22, <1>25
  <2>2. entry.status = "success" => entry.columns # Unknown BY <1>21
  <2> QED BY <1>1, <1>9, <1>16, <1>26, <2>1, <2>2
       DEF StructureTypeOK, MadeState, EntryState, AllState, FetchState, SubState
<1>28. SubsFit BY <1>16 DEF SubsFit
<1>29. DropIsWhole BY <1>24, <1>25 DEF DropIsWhole
<1>30. BeforeIsOn BY <1>9 DEF BeforeIsOn
<1>31. AllAreRead BY <1>26 DEF AllAreRead
<1>32. ShownSettled BY <1>10, <1>21 DEF ShownSettled, AllLate, EntryFits
<1>33. KnownForCause BY <1>1, <1>22, <1>24, <1>25 DEF KnownForCause
<1>34. LoadingIsRead BY <1>21 DEF LoadingIsRead
<1> QED BY <1>27, <1>28, <1>29, <1>30, <1>31, <1>32, <1>33, <1>34 DEF StructureInv

LEMMA StructureStep == StructureInv /\ [StructureNext]_structureVars => StructureInv'
<1> SUFFICES ASSUME StructureInv, [StructureNext]_structureVars PROVE StructureInv' OBVIOUS
<1>1. /\ pane \in {"structure", "data", "closed"} /\ dialog \subseteq Dialogs /\ typed \subseteq dialog
  BY DEF StructureInv, StructureTypeOK
<1>2. ASSUME NEW p \in {"structure", "data"}, Mount(p) PROVE StructureInv' BY <1>2, MountKeeps
<1>3. ASSUME NEW f \in Fetches, Fetching(f) PROVE StructureInv'
  BY <1>3, ReadColumnsKeeps, ReadRestKeeps, ArrivesKeeps, FetchFailsKeeps DEF Fetching
<1>4. CASE AskAll BY <1>4, AskAllKeeps
<1>5. CASE ReadAll BY <1>5, ReadAllKeeps
<1>6. CASE AllArrive BY <1>6, AllArriveKeeps
<1>7. ASSUME NEW d \in Dialogs, OpenDialog(d) PROVE StructureInv'
  <2>1. dialog = {} /\ dialog' = {d} /\ typed' = typed /\ pane' = pane
        /\ UNCHANGED <<made, entry, known, loadAll, fetch, sub, causes>>
    BY <1>7 DEF OpenDialog
  <2>2. pane' \in {"structure", "data", "closed"} /\ dialog' \subseteq Dialogs /\ typed' \subseteq dialog'
    BY <1>1, <2>1
  <2> QED BY <2>1, <2>2, DrawnKeeps
<1>8. ASSUME NEW d \in Dialogs, Type(d) PROVE StructureInv'
  <2>1. d \in dialog /\ dialog' = dialog /\ typed' = typed \cup {d} /\ pane' = pane
        /\ UNCHANGED <<made, entry, known, loadAll, fetch, sub, causes>>
    BY <1>8 DEF Type
  <2>2. pane' \in {"structure", "data", "closed"} /\ dialog' \subseteq Dialogs /\ typed' \subseteq dialog'
    BY <1>1, <2>1
  <2> QED BY <2>1, <2>2, DrawnKeeps
<1>9. ASSUME NEW d \in Dialogs, Close(d) PROVE StructureInv'
  <2>1. dialog' = dialog \ {d} /\ typed' = typed \ {d} /\ pane' = pane
        /\ UNCHANGED <<made, entry, known, loadAll, fetch, sub, causes>>
    BY <1>9 DEF Close
  <2>2. pane' \in {"structure", "data", "closed"} /\ dialog' \subseteq Dialogs /\ typed' \subseteq dialog'
    BY <1>1, <2>1
  <2> QED BY <2>1, <2>2, DrawnKeeps
<1>10. ASSUME NEW s \in Submissions, NEW d \in Dialogs, SubmitDialog(s, d) PROVE StructureInv' BY <1>10, SubmitKept
<1>11. ASSUME NEW s \in Submissions, Ran(s) PROVE StructureInv' BY <1>11, RanKeeps
<1>12. ASSUME NEW s \in Submissions, Refused(s) PROVE StructureInv' BY <1>12, RefusedKeeps
<1>13. ASSUME NEW s \in Submissions, NextStatement(s) PROVE StructureInv' BY <1>13, NextStatementKeeps
<1>14. ASSUME NEW s \in Submissions, SubmissionFails(s) PROVE StructureInv' BY <1>14, SubmissionFailsKeeps
<1>15. ASSUME NEW s \in Submissions, Succeeds(s) PROVE StructureInv' BY <1>15, SucceedsKeeps
<1>16. ASSUME NEW s \in Submissions, Drops(s) PROVE StructureInv' BY <1>16, DropsKeep
<1>17. CASE UNCHANGED structureVars
  <2>1. /\ pane' = pane /\ dialog' = dialog /\ typed' = typed
        /\ UNCHANGED <<made, entry, known, loadAll, fetch, sub, causes>>
    BY <1>17 DEF structureVars
  <2>2. pane' \in {"structure", "data", "closed"} /\ dialog' \subseteq Dialogs /\ typed' \subseteq dialog'
    BY <1>1, <2>1
  <2> QED BY <2>1, <2>2, DrawnKeeps
<1> QED
  BY <1>2, <1>3, <1>4, <1>5, <1>6, <1>7, <1>8, <1>9, <1>10, <1>11, <1>12, <1>13, <1>14, <1>15, <1>16, <1>17
  DEF StructureNext

\* What empties a dialog closes it, redraws the pane or takes the structure off it
LEMMA TypedStep ==
  StructureInv /\ [StructureNext]_structureVars =>
    [\A d \in typed \ typed' : d \notin dialog' \/ pane' # pane \/ entry'.status # "success"]_structureVars
<1> SUFFICES ASSUME StructureInv, StructureNext, NEW d \in typed \ typed'
             PROVE  d \notin dialog' \/ pane' # pane \/ entry'.status # "success"
  OBVIOUS
<1>1. typed' # typed OBVIOUS
<1>2. ASSUME NEW p \in {"structure", "data"}, Mount(p) PROVE pane' # pane BY <1>2 DEF Mount
<1>3. ASSUME NEW f \in Fetches, Fetching(f) PROVE entry'.status # "success"
  <2>1. FetchFails(f) BY <1>1, <1>3 DEF Fetching, ReadColumns, ReadRest, Arrives
  <2>2. PICK e \in EntryState : e = entry BY StructureTypes DEF StructureInv
  <2>3. PICK t \in {"none", "loading", "success", "error"} : t = "error" OBVIOUS
  <2>4. PICK x : x = [e EXCEPT !.status = t] OBVIOUS
  <2>5. entry' = x BY <2>1, <2>2, <2>3, <2>4 DEF FetchFails
  <2>6. x.status = t BY <2>4, EntryStatus
  <2> QED BY <2>3, <2>5, <2>6
<1>4. ~AskAll /\ ~ReadAll /\ ~AllArrive BY <1>1 DEF AskAll, ReadAll, AllArrive
<1>5. ASSUME NEW g \in Dialogs, OpenDialog(g) \/ Type(g) \/ Close(g) PROVE d \notin dialog'
  BY <1>1, <1>5 DEF OpenDialog, Type, Close
<1>6. ASSUME NEW s \in Submissions, Succeeds(s) PROVE entry'.status # "success"
  <2>1. entry' = [NoEntry EXCEPT !.status = "loading"] BY <1>6 DEF Succeeds
  <2>2. PICK o, l \in {"none", "loading", "success", "error"} : o = "none" /\ l = "loading" OBVIOUS
  <2>3. PICK c \in Count : c = Unknown BY CountsAre
  <2>4. PICK z \in EntryState : z = [status |-> o, columns |-> c, rest |-> c] BY <2>2 DEF EntryState
  <2>5. z = NoEntry BY <2>2, <2>3, <2>4, Zenon DEF NoEntry
  <2>6. PICK x : x = [z EXCEPT !.status = l] OBVIOUS
  <2>7. x.status = l BY <2>6, EntryStatus
  <2>8. entry' = x BY <2>1, <2>2, <2>5, <2>6, Zenon
  <2> QED BY <2>2, <2>7, <2>8
<1>7. ASSUME NEW s \in Submissions, Drops(s) PROVE d \notin dialog' BY <1>7 DEF Drops
<1>8. ASSUME NEW s \in Submissions,
             (\E g \in Dialogs : SubmitDialog(s, g)) \/ Ran(s) \/ Refused(s) \/ NextStatement(s) \/ SubmissionFails(s)
      PROVE  FALSE
  BY <1>1, <1>8 DEF SubmitDialog, Ran, Refused, NextStatement, SubmissionFails
<1> QED BY <1>2, <1>3, <1>4, <1>5, <1>6, <1>7, <1>8 DEF StructureNext

\* With no reading under way none was asked for last, so what is shown has settled
LEMMA SettledIsShown == StructureInv => ShownForCause
<1> SUFFICES ASSUME StructureInv, entry.status = "success", ~(\E d \in Dialogs : Changing(d)), Reading = {},
                    causes \cap {"failed", "overtaken", "blank"} = {}
             PROVE  entry.columns = made.columns /\ entry.rest = made.rest
  BY DEF ShownForCause
<1>1. Quiet
  <2>1. ASSUME NEW s \in Submissions PROVE sub[s].done = 0
    <3>1. PICK x \in SubState : x = sub[s] BY StructureTypes DEF StructureInv
    <3>2. x.dialog \in Dialogs /\ x.done \in 0 .. 2 BY SubFields
    <3>3. ~(x.done > 0)
      <4>1. ~Changing(x.dialog) BY <3>2
      <4> QED BY <3>1, <4>1 DEF Changing
    <3> QED BY <3>1, <3>2, <3>3
  <2> QED BY <2>1 DEF Quiet
<1>2. causes \cap Spoilt = {} BY DEF Spoilt
<1>3. EntryFits BY <1>1, <1>2 DEF StructureInv, ShownSettled
<1> QED BY <1>3 DEF EntryFits

\* For any number of readings, submissions and changes: the structure and the columns that are
\* shown are those of the table but for the causes that are named, "loading" is shown only while
\* something loads, and what was typed into an open dialog survives every answer.
THEOREM StructureHolds ==
  StructureInit /\ [][StructureNext]_structureVars
    => [](StructureTypeOK /\ ShownForCause /\ KnownForCause /\ LoadingIsRead) /\ TypedKept
<1>1. StructureInit => StructureInv BY InitStructure
<1>2. StructureInv /\ [StructureNext]_structureVars => StructureInv' BY StructureStep
<1>3. StructureInv => StructureTypeOK /\ ShownForCause /\ KnownForCause /\ LoadingIsRead
  BY SettledIsShown DEF StructureInv
<1>4. StructureInv /\ [StructureNext]_structureVars =>
        [\A d \in typed \ typed' : d \notin dialog' \/ pane' # pane \/ entry'.status # "success"]_structureVars
  BY TypedStep
<1> QED BY <1>1, <1>2, <1>3, <1>4, PTL DEF TypedKept
-----------------------------------------------------------------------------
(* RefPicker: the column a foreign key refers to *)

Places == Tables \cup {Empty}
Form == [schema : RefSchemas \cup {None}, table : Places, column : Places]
LoadState ==
  [kind : {"free", "tables", "columns"},
   of : [schema : RefSchemas, table : RefTables \cup {None}] \cup {Empty}]

\* What is listed is what was asked for last, closed or not, and columns are asked for of a table
Listed ==
  /\ choice.schema # None /\ "tables" \notin busy \cup late => tableList \in {None, choice.schema}
  /\ choice.table # Empty /\ "columns" \notin busy \cup late => columnList \in {Empty, Named(choice)}
  /\ \A l \in Loads : load[l].kind = "columns" => load[l].of \in Tables

PickerInv == PickerTypeOK /\ Listed /\ ChoiceFits

LEMMA PickerTypes ==
  ASSUME PickerTypeOK
  PROVE  /\ choice \in Form /\ choice.schema \in RefSchemas \cup {None}
         /\ choice.table \in Places /\ choice.column \in Places
         /\ tableList \in RefSchemas \cup {None} /\ columnList \in Places
         /\ load \in [Loads -> LoadState] /\ \A l \in Loads : load[l] \in LoadState
<1>1. choice \in Form /\ load \in [Loads -> LoadState] /\ columnList \in Places
      /\ tableList \in RefSchemas \cup {None}
  BY DEF PickerTypeOK, Form, LoadState, Places
<1>2. PICK c \in Form : c = choice BY <1>1
<1>3. c.schema \in RefSchemas \cup {None} /\ c.table \in Places /\ c.column \in Places BY DEF Form
<1> QED BY <1>1, <1>2, <1>3

LEMMA FormIs ==
  ASSUME NEW s \in RefSchemas \cup {None}, NEW t \in Places, NEW c \in Places, NEW f,
         f = [schema |-> s, table |-> t, column |-> c]
  PROVE  f \in Form /\ f.schema = s /\ f.table = t /\ f.column = c
BY DEF Form

LEMMA NoneIs == Empty \in Places /\ Empty.schema = None /\ Empty.table = None
BY DEF Places, Empty

LEMMA LoadIs ==
  ASSUME NEW k \in {"free", "tables", "columns"}, NEW o, NEW x, x = [kind |-> k, of |-> o],
         o \in [schema : RefSchemas, table : RefTables \cup {None}] \cup {Empty}
  PROVE  x \in LoadState /\ x.kind = k /\ x.of = o
BY DEF LoadState

\* The form begun anew with a schema, or with none
LEMMA AnewIs ==
  ASSUME NEW s \in RefSchemas \cup {None}, NEW f, f = [NoChoice EXCEPT !.schema = s]
  PROVE  f \in Form /\ f.schema = s /\ f.table = Empty /\ f.column = Empty
<1>1. PICK e \in Places : e = Empty BY NoneIs
<1>2. PICK g \in Form : g = [schema |-> s, table |-> e, column |-> e] BY DEF Form
<1>3. f = g BY <1>1, <1>2 DEF NoChoice
<1>4. g.schema = s /\ g.table = e /\ g.column = e BY <1>2, Zenon
<1> QED BY <1>1, <1>3, <1>4

LEMMA AskTablesIs ==
  ASSUME PickerInv, NEW l \in Loads, NEW s \in RefSchemas, AskTables(l, s)
  PROVE  /\ load' \in [Loads -> LoadState] /\ "tables" \in busy' /\ busy' \subseteq {"tables", "columns"}
         /\ busy \subseteq busy'
         /\ \A k \in Loads : load'[k].kind = "columns" => load'[k].of \in Tables
<1>0. PickerTypeOK /\ Listed BY DEF PickerInv
<1>1. PICK p \in {"free", "tables", "columns"} : p = "tables" OBVIOUS
<1>2. PICK o : o = [schema |-> s, table |-> None] OBVIOUS
<1>3. o \in [schema : RefSchemas, table : RefTables \cup {None}] \cup {Empty} BY <1>2
<1>4. PICK x : x = [kind |-> p, of |-> o] OBVIOUS
<1>5. x \in LoadState /\ x.kind = p BY <1>3, <1>4, LoadIs
<1>6. load' = [load EXCEPT ![l] = x] BY <1>1, <1>2, <1>4 DEF AskTables
<1>7. load' \in [Loads -> LoadState] /\ load'[l] = x /\ \A k \in Loads : k # l => load'[k] = load[k]
  BY <1>0, <1>5, <1>6, PickerTypes
<1>8. busy' = busy \cup {"tables"} BY DEF AskTables
<1>9. busy \subseteq {"tables", "columns"} BY <1>0 DEF PickerTypeOK
<1>10. \A k \in Loads : load'[k].kind = "columns" => load'[k].of \in Tables
  BY <1>0, <1>1, <1>5, <1>7 DEF Listed
<1> QED BY <1>7, <1>8, <1>9, <1>10

\* The invariant after a step, from what the step leaves of the form
LEMMA PickerNow ==
  ASSUME picker' \in BOOLEAN, choice' \in Form, tableList' \in RefSchemas \cup {None},
         columnList' \in Places, busy' \subseteq {"tables", "columns"},
         load' \in [Loads -> LoadState], late' \subseteq {"tables", "columns"},
         choice'.column # Empty => choice'.table # Empty
  PROVE  PickerTypeOK'
BY DEF PickerTypeOK, Form, LoadState, Places

LEMMA AnewKeeps ==
  ASSUME PickerInv, picker' \in BOOLEAN, NEW s \in RefSchemas \cup {None},
         choice' = [NoChoice EXCEPT !.schema = s], tableList' \in RefSchemas \cup {None},
         columnList' \in Places, late' = late,
         load' \in [Loads -> LoadState], busy' \subseteq {"tables", "columns"},
         \A k \in Loads : load'[k].kind = "columns" => load'[k].of \in Tables,
         s = None \/ "tables" \in busy'
           \/ (s = choice.schema /\ busy \subseteq busy' /\ tableList' = tableList)
  PROVE  PickerInv'
<1>1. choice' \in Form /\ choice'.schema = s /\ choice'.table = Empty /\ choice'.column = Empty
  BY AnewIs
<1>2. late \subseteq {"tables", "columns"} /\ Listed BY DEF PickerInv, PickerTypeOK
<1>3. PickerTypeOK' BY <1>1, <1>2, PickerNow
<1>4. ChoiceFits' BY <1>1 DEF ChoiceFits
<1>5. choice'.schema # None /\ "tables" \notin busy' \cup late' => tableList' \in {None, choice'.schema}
  BY <1>1, <1>2 DEF Listed
<1>6. Listed' BY <1>1, <1>5 DEF Listed
<1> QED BY <1>3, <1>4, <1>6 DEF PickerInv

LEMMA InitPicker == PickerInit => PickerInv
<1> SUFFICES ASSUME PickerInit PROVE PickerInv OBVIOUS
<1>1. /\ picker = FALSE /\ choice = NoChoice /\ tableList = None /\ columnList = Empty /\ busy = {}
      /\ load = [l \in Loads |-> NoLoad] /\ late = {}
  BY DEF PickerInit
<1>2. PICK c : c = choice OBVIOUS
<1>3. c \in Form /\ c.schema = None /\ c.table = Empty /\ c.column = Empty
  BY <1>1, <1>2, NoneIs, FormIs DEF NoChoice
<1>4. PICK p \in {"free", "tables", "columns"} : p = "free" OBVIOUS
<1>5. PICK x : x = [kind |-> p, of |-> Empty] OBVIOUS
<1>6. x \in LoadState /\ x.kind = p BY <1>5, LoadIs
<1>7. load = [l \in Loads |-> x] BY <1>1, <1>4, <1>5 DEF NoLoad
<1>8. load \in [Loads -> LoadState] /\ \A l \in Loads : load[l].kind # "columns" BY <1>4, <1>6, <1>7
<1>9. PickerTypeOK BY <1>1, <1>2, <1>3, <1>8, NoneIs DEF PickerTypeOK, Form, LoadState, Places
<1>10. ChoiceFits BY <1>2, <1>3 DEF ChoiceFits
<1>11. Listed BY <1>2, <1>3, <1>8 DEF Listed
<1> QED BY <1>9, <1>10, <1>11 DEF PickerInv

LEMMA OpenPickerKeeps ==
  ASSUME PickerInv, OpenPicker
  PROVE  PickerInv'
<1>1. PickerTypeOK /\ Listed BY DEF PickerInv
<1>2. /\ picker' = TRUE /\ choice' = [NoChoice EXCEPT !.schema = Own] /\ tableList' = tableList /\ late' = late
      /\ columnList' \in Places
  BY <1>1, PickerTypes, NoneIs DEF OpenPicker
<1>3. picker' \in BOOLEAN /\ Own \in RefSchemas \cup {None} /\ tableList' \in RefSchemas \cup {None}
  BY <1>1, <1>2, PickerAssumption, PickerTypes
<1>4. CASE choice.schema = Own
  <2>1. load' = load /\ busy' = busy BY <1>4 DEF OpenPicker
  <2>2. load' \in [Loads -> LoadState] /\ busy' \subseteq {"tables", "columns"}
    BY <1>1, <2>1, PickerTypes DEF PickerTypeOK
  <2>3. \A k \in Loads : load'[k].kind = "columns" => load'[k].of \in Tables BY <1>1, <2>1 DEF Listed
  <2> QED BY <1>2, <1>3, <1>4, <2>1, <2>2, <2>3, AnewKeeps
<1>5. CASE choice.schema # Own
  <2>1. PICK l \in Loads : AskTables(l, Own) BY <1>5 DEF OpenPicker
  <2>2. /\ load' \in [Loads -> LoadState] /\ "tables" \in busy' /\ busy' \subseteq {"tables", "columns"}
        /\ \A k \in Loads : load'[k].kind = "columns" => load'[k].of \in Tables
    BY <2>1, PickerAssumption, AskTablesIs
  <2> QED BY <1>2, <1>3, <2>2, AnewKeeps
<1> QED BY <1>4, <1>5

LEMMA ChooseSchemaKeeps ==
  ASSUME PickerInv, NEW schema \in RefSchemas, ChooseSchema(schema)
  PROVE  PickerInv'
<1>1. PickerTypeOK /\ Listed BY DEF PickerInv
<1>2. /\ picker' = picker /\ choice' = [NoChoice EXCEPT !.schema = schema] /\ tableList' = tableList
      /\ late' = late /\ columnList' = Empty
  BY DEF ChooseSchema
<1>3. picker' \in BOOLEAN /\ schema \in RefSchemas \cup {None} /\ tableList' \in RefSchemas \cup {None}
      /\ columnList' \in Places
  BY <1>1, <1>2, PickerTypes, NoneIs DEF PickerTypeOK
<1>4. PICK l \in Loads : AskTables(l, schema) BY DEF ChooseSchema
<1>5. /\ load' \in [Loads -> LoadState] /\ "tables" \in busy' /\ busy' \subseteq {"tables", "columns"}
      /\ \A k \in Loads : load'[k].kind = "columns" => load'[k].of \in Tables
  BY <1>4, AskTablesIs
<1> QED BY <1>2, <1>3, <1>5, AnewKeeps

LEMMA ChooseNoSchemaKeeps ==
  ASSUME PickerInv, ChooseNoSchema
  PROVE  PickerInv'
<1>1. PickerTypeOK /\ Listed BY DEF PickerInv
<1>2. /\ picker' = picker /\ choice' = NoChoice /\ tableList' = None /\ columnList' = Empty
      /\ late' = late /\ busy' = busy /\ load' = load
  BY DEF ChooseNoSchema
<1>3. PICK s \in RefSchemas \cup {None} : s = None OBVIOUS
<1>4. choice' = [NoChoice EXCEPT !.schema = s] BY <1>2, <1>3 DEF NoChoice
<1>5. picker' \in BOOLEAN /\ tableList' \in RefSchemas \cup {None} /\ columnList' \in Places
      /\ load' \in [Loads -> LoadState] /\ busy' \subseteq {"tables", "columns"}
  BY <1>1, <1>2, PickerTypes, NoneIs DEF PickerTypeOK
<1>6. \A k \in Loads : load'[k].kind = "columns" => load'[k].of \in Tables BY <1>1, <1>2 DEF Listed
<1> QED BY <1>2, <1>3, <1>4, <1>5, <1>6, AnewKeeps

LEMMA ChooseTableKeeps ==
  ASSUME PickerInv, NEW table \in RefTables, ChooseTable(table)
  PROVE  PickerInv'
<1>1. PickerTypeOK /\ Listed BY DEF PickerInv
<1>2. /\ picker' = picker /\ choice.schema # None /\ "tables" \notin busy /\ tableList # None
      /\ tableList' = tableList /\ columnList' = columnList /\ late' = late /\ busy' = busy \cup {"columns"}
      /\ choice' = [choice EXCEPT !.table = [schema |-> tableList, table |-> table], !.column = Empty]
  BY DEF ChooseTable
<1>3. PICK l \in Loads : load' = [load EXCEPT ![l] = [kind |-> "columns", of |-> Named(choice')]]
  BY DEF ChooseTable
<1>4. PICK g \in Form : g = choice BY <1>1, PickerTypes
<1>5. PICK e \in Places : e = Empty BY NoneIs
<1>6. PICK t : t = [schema |-> tableList, table |-> table] OBVIOUS
<1>7. t \in Tables /\ t \in Places /\ t.schema = tableList /\ t.table = table
  <2>1. tableList \in RefSchemas BY <1>1, <1>2, PickerTypes
  <2> QED BY <1>6, <2>1 DEF Tables, Places
<1>8. PICK f : f = [g EXCEPT !.table = t, !.column = e] OBVIOUS
<1>9. f \in Form /\ f.schema = g.schema /\ f.table = t /\ f.column = e BY <1>7, <1>8 DEF Form
<1>10. choice' = f BY <1>2, <1>4, <1>5, <1>6, <1>8
<1>11. PICK o : o = [schema |-> f.schema, table |-> table] OBVIOUS
<1>12. o \in Tables
  <2>1. f.schema \in RefSchemas BY <1>1, <1>2, <1>4, <1>9, PickerTypes
  <2> QED BY <1>11, <2>1 DEF Tables
<1>13. o = Named(choice') BY <1>7, <1>9, <1>10, <1>11 DEF Named
<1>14. PICK p \in {"free", "tables", "columns"} : p = "columns" OBVIOUS
<1>15. PICK x : x = [kind |-> p, of |-> o] OBVIOUS
<1>16. x \in LoadState /\ x.of = o
  <2>1. o \in [schema : RefSchemas, table : RefTables \cup {None}] BY <1>12 DEF Tables
  <2> QED BY <1>15, <2>1, LoadIs
<1>17. load' = [load EXCEPT ![l] = x] BY <1>3, <1>13, <1>14, <1>15
<1>18. load' \in [Loads -> LoadState] /\ \A k \in Loads : load'[k] = IF k = l THEN x ELSE load[k]
  BY <1>1, <1>16, <1>17, PickerTypes
<1>19. PickerTypeOK'
  <2>1. picker' \in BOOLEAN /\ busy' \subseteq {"tables", "columns"} /\ late' \subseteq {"tables", "columns"}
    BY <1>1, <1>2 DEF PickerTypeOK
  <2>2. choice' \in Form BY <1>9, <1>10
  <2>3. choice'.column = Empty BY <1>5, <1>9, <1>10
  <2>4. tableList' \in RefSchemas \cup {None} /\ columnList' \in Places BY <1>1, <1>2, PickerTypes
  <2> QED BY <1>18, <2>1, <2>2, <2>3, <2>4, PickerNow
<1>20. ChoiceFits'
  <2>1. choice'.column = Empty /\ choice'.table = t /\ choice'.schema = choice.schema BY <1>4, <1>5, <1>9, <1>10
  <2>2. "tables" \notin late' => t.schema = choice.schema BY <1>1, <1>2, <1>7 DEF Listed
  <2> QED BY <2>1, <2>2 DEF ChoiceFits
<1>21. Listed'
  <2>1. choice'.schema = choice.schema BY <1>4, <1>9, <1>10
  <2>2. choice'.schema # None /\ "tables" \notin busy' \cup late' => tableList' \in {None, choice'.schema}
    BY <1>1, <1>2, <2>1 DEF Listed
  <2>3. \A k \in Loads : load'[k].kind = "columns" => load'[k].of \in Tables
    BY <1>1, <1>12, <1>16, <1>18 DEF Listed
  <2> QED BY <1>2, <2>2, <2>3 DEF Listed
<1> QED BY <1>19, <1>20, <1>21 DEF PickerInv

LEMMA ChooseNoTableKeeps ==
  ASSUME PickerInv, ChooseNoTable
  PROVE  PickerInv'
<1>1. PickerTypeOK /\ Listed BY DEF PickerInv
<1>2. /\ picker' = picker /\ tableList' = tableList /\ columnList' = Empty /\ late' = late /\ busy' = busy
      /\ load' = load /\ choice' = [choice EXCEPT !.table = Empty, !.column = Empty]
  BY DEF ChooseNoTable
<1>3. PICK g \in Form : g = choice BY <1>1, PickerTypes
<1>4. PICK e \in Places : e = Empty BY NoneIs
<1>5. PICK f : f = [g EXCEPT !.table = e, !.column = e] OBVIOUS
<1>6. f \in Form /\ f.schema = g.schema /\ f.table = e /\ f.column = e BY <1>5 DEF Form
<1>7. choice' = f BY <1>2, <1>3, <1>4, <1>5
<1>8. PickerTypeOK'
  <2>1. picker' \in BOOLEAN /\ busy' \subseteq {"tables", "columns"} /\ late' \subseteq {"tables", "columns"}
    BY <1>1, <1>2 DEF PickerTypeOK
  <2>2. tableList' \in RefSchemas \cup {None} /\ columnList' \in Places /\ load' \in [Loads -> LoadState]
    BY <1>1, <1>2, PickerTypes, NoneIs
  <2> QED BY <1>4, <1>6, <1>7, <2>1, <2>2, PickerNow
<1>9. ChoiceFits' BY <1>4, <1>6, <1>7 DEF ChoiceFits
<1>10. Listed' BY <1>1, <1>2, <1>3, <1>4, <1>6, <1>7 DEF Listed
<1> QED BY <1>8, <1>9, <1>10 DEF PickerInv

LEMMA ChooseColumnKeeps ==
  ASSUME PickerInv, ChooseColumn
  PROVE  PickerInv'
<1>1. PickerTypeOK /\ Listed /\ ChoiceFits BY DEF PickerInv
<1>2. /\ picker' = picker /\ tableList' = tableList /\ columnList' = columnList /\ late' = late /\ busy' = busy
      /\ load' = load /\ choice' = [choice EXCEPT !.column = columnList]
      /\ choice.table # Empty /\ "columns" \notin busy /\ columnList # Empty
  BY DEF ChooseColumn
<1>3. PICK g \in Form : g = choice BY <1>1, PickerTypes
<1>4. PICK c \in Places : c = columnList BY <1>1, PickerTypes
<1>5. PICK f : f = [g EXCEPT !.column = c] OBVIOUS
<1>6. f \in Form /\ f.schema = g.schema /\ f.table = g.table /\ f.column = c BY <1>5 DEF Form
<1>7. choice' = f BY <1>2, <1>3, <1>4, <1>5
<1>8. PickerTypeOK'
  <2>1. picker' \in BOOLEAN /\ busy' \subseteq {"tables", "columns"} /\ late' \subseteq {"tables", "columns"}
    BY <1>1, <1>2 DEF PickerTypeOK
  <2>2. tableList' \in RefSchemas \cup {None} /\ columnList' \in Places /\ load' \in [Loads -> LoadState]
    BY <1>1, <1>2, PickerTypes
  <2> QED BY <1>2, <1>3, <1>6, <1>7, <2>1, <2>2, PickerNow
<1>9. ChoiceFits'
  <2>1. ASSUME late = {} PROVE c = g.table
    <3>1. c = Named(g) /\ g.table.schema = g.schema BY <1>1, <1>2, <1>3, <1>4, <2>1 DEF Listed, ChoiceFits
    <3>2. g.table \in Tables BY <1>2, <1>3 DEF Form, Places
    <3>3. PICK t \in Tables : t = g.table BY <3>2
    <3>4. c = [schema |-> t.schema, table |-> t.table] BY <3>1, <3>3 DEF Named
    <3>5. t = [schema |-> t.schema, table |-> t.table] BY DEF Tables
    <3> QED BY <3>3, <3>4, <3>5
  <2>2. choice'.table # Empty /\ "tables" \notin late' => choice'.table.schema = choice'.schema
    BY <1>1, <1>2, <1>3, <1>6, <1>7 DEF ChoiceFits
  <2> QED BY <1>2, <1>6, <1>7, <2>1, <2>2 DEF ChoiceFits
<1>10. Listed'
  <2>1. Named(choice') = Named(choice) BY <1>3, <1>6, <1>7 DEF Named
  <2> QED BY <1>1, <1>2, <1>3, <1>6, <1>7, <2>1 DEF Listed
<1> QED BY <1>8, <1>9, <1>10 DEF PickerInv

\* An answer: whichever list it fills, the load is over
LEMMA LoadOver ==
  ASSUME PickerInv, NEW l \in Loads, load' = [load EXCEPT ![l] = NoLoad]
  PROVE  /\ load' \in [Loads -> LoadState]
         /\ \A k \in Loads : load'[k].kind = "columns" => load'[k].of \in Tables
<1>1. PickerTypeOK /\ Listed BY DEF PickerInv
<1>2. PICK p \in {"free", "tables", "columns"} : p = "free" OBVIOUS
<1>3. PICK x : x = [kind |-> p, of |-> Empty] OBVIOUS
<1>4. x \in LoadState /\ x.kind = p BY <1>3, LoadIs
<1>5. load' = [load EXCEPT ![l] = x] BY <1>2, <1>3 DEF NoLoad
<1>6. load' \in [Loads -> LoadState] /\ \A k \in Loads : load'[k] = IF k = l THEN x ELSE load[k]
  BY <1>1, <1>4, <1>5, PickerTypes
<1> QED BY <1>1, <1>2, <1>4, <1>6 DEF Listed

LEMMA TablesArriveKeeps ==
  ASSUME PickerInv, NEW l \in Loads, TablesArrive(l)
  PROVE  PickerInv'
<1>1. PickerTypeOK /\ Listed /\ ChoiceFits BY DEF PickerInv
<1>2. /\ picker' = picker /\ choice' = choice /\ columnList' = columnList
      /\ tableList' \in {load[l].of.schema, None} /\ busy' = busy \ {"tables"}
      /\ load[l].of.schema # choice.schema => "tables" \in late'
      /\ late \subseteq late' /\ late' \subseteq late \cup {"tables"} /\ load' = [load EXCEPT ![l] = NoLoad]
  BY DEF TablesArrive
<1>3. load' \in [Loads -> LoadState] /\ \A k \in Loads : load'[k].kind = "columns" => load'[k].of \in Tables
  BY <1>2, LoadOver
<1>4. load[l].of.schema \in RefSchemas \cup {None}
  <2>1. PICK x \in LoadState : x = load[l] BY <1>1, PickerTypes
  <2>2. x.of \in [schema : RefSchemas, table : RefTables \cup {None}] \cup {Empty} BY DEF LoadState
  <2> QED BY <2>1, <2>2, NoneIs
<1>5. PickerTypeOK'
  <2>1. picker' \in BOOLEAN /\ busy' \subseteq {"tables", "columns"} /\ late' \subseteq {"tables", "columns"}
        /\ (choice'.column # Empty => choice'.table # Empty)
    BY <1>1, <1>2 DEF PickerTypeOK
  <2>2. tableList' \in RefSchemas \cup {None} /\ columnList' \in Places /\ choice' \in Form
    BY <1>1, <1>2, <1>4, PickerTypes
  <2> QED BY <1>3, <2>1, <2>2, PickerNow
<1>6. ChoiceFits' BY <1>1, <1>2 DEF ChoiceFits
<1>7. Listed'
  <2>1. "tables" \notin late' => tableList' \in {None, choice'.schema} BY <1>2
  <2>2. "columns" \notin busy' \cup late' => "columns" \notin busy \cup late BY <1>2
  <2>3. Named(choice') = Named(choice) BY <1>2
  <2> QED BY <1>1, <1>2, <1>3, <2>1, <2>2, <2>3 DEF Listed
<1> QED BY <1>5, <1>6, <1>7 DEF PickerInv

LEMMA ColumnsArriveKeeps ==
  ASSUME PickerInv, NEW l \in Loads, ColumnsArrive(l)
  PROVE  PickerInv'
<1>1. PickerTypeOK /\ Listed /\ ChoiceFits BY DEF PickerInv
<1>2. /\ picker' = picker /\ choice' = choice /\ tableList' = tableList /\ load[l].kind = "columns"
      /\ columnList' \in {load[l].of, Empty} /\ busy' = busy \ {"columns"}
      /\ load[l].of # Named(choice) => "columns" \in late'
      /\ late \subseteq late' /\ late' \subseteq late \cup {"columns"} /\ load' = [load EXCEPT ![l] = NoLoad]
  BY DEF ColumnsArrive
<1>3. load' \in [Loads -> LoadState] /\ \A k \in Loads : load'[k].kind = "columns" => load'[k].of \in Tables
  BY <1>2, LoadOver
<1>4. load[l].of \in Places BY <1>1, <1>2 DEF Listed, Places
<1>5. PickerTypeOK'
  <2>1. picker' \in BOOLEAN /\ busy' \subseteq {"tables", "columns"} /\ late' \subseteq {"tables", "columns"}
        /\ (choice'.column # Empty => choice'.table # Empty)
    BY <1>1, <1>2 DEF PickerTypeOK
  <2>2. tableList' \in RefSchemas \cup {None} /\ columnList' \in Places /\ choice' \in Form
    BY <1>1, <1>2, <1>4, NoneIs, PickerTypes
  <2> QED BY <1>3, <2>1, <2>2, PickerNow
<1>6. ChoiceFits' BY <1>1, <1>2 DEF ChoiceFits
<1>7. Listed'
  <2>1. "columns" \notin late' => columnList' \in {Empty, Named(choice')} BY <1>2
  <2>2. "tables" \notin busy' \cup late' => "tables" \notin busy \cup late BY <1>2
  <2> QED BY <1>1, <1>2, <1>3, <2>1, <2>2 DEF Listed
<1> QED BY <1>5, <1>6, <1>7 DEF PickerInv

\* Closing it changes nothing but that
LEMMA PickerSame ==
  ASSUME PickerInv, picker' \in BOOLEAN,
         UNCHANGED <<choice, tableList, columnList, busy, load, late>>
  PROVE  PickerInv'
<1>1. PickerTypeOK /\ Listed /\ ChoiceFits BY DEF PickerInv
<1>2. /\ choice' = choice /\ tableList' = tableList /\ columnList' = columnList /\ busy' = busy
      /\ load' = load /\ late' = late
  OBVIOUS
<1>3. PickerTypeOK' BY <1>1, <1>2 DEF PickerTypeOK
<1>4. ChoiceFits' BY <1>1, <1>2 DEF ChoiceFits
<1>5. Listed'
  <2>1. Named(choice') = Named(choice) BY <1>2
  <2> QED BY <1>1, <1>2, <2>1 DEF Listed
<1> QED BY <1>3, <1>4, <1>5 DEF PickerInv

LEMMA PickerStep == PickerInv /\ [PickerNext]_pickerVars => PickerInv'
<1> SUFFICES ASSUME PickerInv, [PickerNext]_pickerVars PROVE PickerInv' OBVIOUS
<1>1. CASE OpenPicker BY <1>1, OpenPickerKeeps
<1>2. CASE ClosePicker
  <2>1. picker' \in BOOLEAN /\ UNCHANGED <<choice, tableList, columnList, busy, load, late>>
    BY <1>2 DEF ClosePicker
  <2> QED BY <2>1, PickerSame
<1>3. CASE ChooseNoSchema BY <1>3, ChooseNoSchemaKeeps
<1>4. CASE ChooseNoTable BY <1>4, ChooseNoTableKeeps
<1>5. CASE ChooseColumn BY <1>5, ChooseColumnKeeps
<1>6. ASSUME NEW schema \in RefSchemas, ChooseSchema(schema) PROVE PickerInv' BY <1>6, ChooseSchemaKeeps
<1>7. ASSUME NEW table \in RefTables, ChooseTable(table) PROVE PickerInv' BY <1>7, ChooseTableKeeps
<1>8. ASSUME NEW l \in Loads, TablesArrive(l) PROVE PickerInv' BY <1>8, TablesArriveKeeps
<1>9. ASSUME NEW l \in Loads, ColumnsArrive(l) PROVE PickerInv' BY <1>9, ColumnsArriveKeeps
<1>10. CASE UNCHANGED pickerVars
  <2>1. picker' = picker /\ UNCHANGED <<choice, tableList, columnList, busy, load, late>>
    BY <1>10 DEF pickerVars
  <2>2. picker \in BOOLEAN BY DEF PickerInv, PickerTypeOK
  <2> QED BY <2>1, <2>2, PickerSame
<1> QED BY <1>1, <1>2, <1>3, <1>4, <1>5, <1>6, <1>7, <1>8, <1>9, <1>10 DEF PickerNext

\* For any schemas, tables and loads: what was chosen is of the choice before it, and a list is
\* open to be chosen from only when it is that of the choice before it, but for late loads.
THEOREM PickerHolds ==
  PickerInit /\ [][PickerNext]_pickerVars => [](PickerTypeOK /\ ChoiceFits /\ ListFits)
<1>1. PickerInit => PickerInv BY InitPicker
<1>2. PickerInv /\ [PickerNext]_pickerVars => PickerInv' BY PickerStep
<1>3. PickerInv => PickerTypeOK /\ ChoiceFits /\ ListFits BY DEF PickerInv, Listed, ListFits
<1> QED BY <1>1, <1>2, <1>3, PTL
-----------------------------------------------------------------------------
(* AccountBackend: the keys and the history of an account *)

Shift(S) == {i + 1 : i \in S}
UpTo(S, i) == {j \in S : j <= i}

\* A memory is the first of the places of a list that are its own
Fits(m, s, S) ==
  /\ Len(m) = IF Cardinality(S) < HistoryLimit THEN Cardinality(S) ELSE HistoryLimit
  /\ \A i \in S : Cardinality(UpTo(S, i)) <= HistoryLimit => m[Cardinality(UpTo(S, i))] = s[i]

LEMMA ShiftIs ==
  ASSUME NEW n \in Nat, NEW S \in SUBSET (1 .. n)
  PROVE  /\ IsFiniteSet(S) /\ Cardinality(S) \in Nat
         /\ IsFiniteSet(Shift(S)) /\ Cardinality(Shift(S)) = Cardinality(S)
         /\ IsFiniteSet({1} \cup Shift(S)) /\ Cardinality({1} \cup Shift(S)) = Cardinality(S) + 1
<1>0. 1 \in Int /\ n \in Int OBVIOUS
<1>1. IsFiniteSet(S)
  <2>1. IsFiniteSet(1 .. n) BY <1>0, FS_Interval
  <2> QED BY <2>1, FS_Subset
<1>2. Cardinality(S) \in Nat BY <1>1, FS_CardinalityType
<1>3. PICK f : f = [i \in S |-> i + 1] OBVIOUS
<1>4. f \in Bijection(S, Shift(S))
  <2>1. f \in [S -> Shift(S)] BY <1>3 DEF Shift
  <2>2. \A i, j \in S : f[i] = f[j] => i = j BY <1>3
  <2>3. \A k \in Shift(S) : \E i \in S : f[i] = k BY <1>3 DEF Shift
  <2> QED BY <2>1, <2>2, <2>3 DEF Bijection, Injection, Surjection, IsInjective
<1>5. ExistsBijection(S, Shift(S)) BY <1>4 DEF ExistsBijection
<1>6. IsFiniteSet(Shift(S)) /\ Cardinality(Shift(S)) = Cardinality(S) BY <1>1, <1>5, FS_Bijection
<1>7. 1 \notin Shift(S) BY DEF Shift
<1>8. {1} \cup Shift(S) = Shift(S) \cup {1} OBVIOUS
<1> QED BY <1>1, <1>2, <1>6, <1>7, <1>8, FS_AddElement

LEMMA UpToIs ==
  ASSUME NEW n \in Nat, NEW S \in SUBSET (1 .. n), NEW i \in S
  PROVE  /\ UpTo(S, i) \in SUBSET (1 .. n)
         /\ Cardinality(UpTo(S, i)) \in 1 .. Cardinality(S)
<1>1. UpTo(S, i) \in SUBSET (1 .. n) /\ UpTo(S, i) \subseteq S /\ i \in UpTo(S, i)
  <2>1. \A j \in S : j \in 1 .. n /\ j \in Int OBVIOUS
  <2>2. i <= i BY <2>1
  <2> QED BY <2>1, <2>2 DEF UpTo
<1>2. IsFiniteSet(S) /\ Cardinality(S) \in Nat /\ IsFiniteSet(UpTo(S, i)) /\ Cardinality(UpTo(S, i)) \in Nat
  BY <1>1, ShiftIs
<1>3. Cardinality(UpTo(S, i)) <= Cardinality(S) BY <1>1, <1>2, FS_Subset
<1>4. Cardinality(UpTo(S, i)) # 0 BY <1>1, <1>2, FS_EmptySet
<1>5. Cardinality(UpTo(S, i)) \in 1 .. Cardinality(S) BY <1>2, <1>3, <1>4
<1> QED BY <1>1, <1>5

LEMMA UpToShift ==
  ASSUME NEW S \in SUBSET Nat, NEW i \in S, NEW j, j = i + 1
  PROVE  UpTo(Shift(S), j) = Shift(UpTo(S, i)) /\ UpTo({1} \cup Shift(S), j) = {1} \cup Shift(UpTo(S, i))
<1>1. \A k \in S : k + 1 <= i + 1 <=> k <= i OBVIOUS
<1>2. 1 <= i + 1 OBVIOUS
<1> QED BY <1>1, <1>2 DEF UpTo, Shift

LEMMA AheadIs ==
  ASSUME NEW S, NEW s \in Seq(S), NEW r \in S
  PROVE  /\ <<r>> \o s \in Seq(S) /\ Len(<<r>> \o s) = Len(s) + 1 /\ (<<r>> \o s)[1] = r
         /\ \A i \in 1 .. Len(s) : (<<r>> \o s)[i + 1] = s[i]
<1>1. PICK u : u = <<r>> OBVIOUS
<1>2. u \in Seq(S) /\ Len(u) = 1 /\ u[1] = r BY <1>1
<1>3. u \in Seq(S) /\ s \in Seq(S) /\ Len(s) \in Nat /\ Len(u) \in Nat BY <1>2
<1>4. u \o s \in Seq(S) BY <1>3
<1>5. Len(u \o s) = Len(u) + Len(s) BY <1>3
<1>6. \A i \in 1 .. Len(u) + Len(s) : (u \o s)[i] = IF i <= Len(u) THEN u[i] ELSE s[i - Len(u)]
  BY <1>3
<1>7. (u \o s)[1] = r BY <1>2, <1>3, <1>6
<1>8. \A i \in 1 .. Len(s) : (u \o s)[i + 1] = s[i]
  <2> SUFFICES ASSUME NEW i \in 1 .. Len(s) PROVE (u \o s)[i + 1] = s[i] OBVIOUS
  <2>1. i + 1 \in 1 .. Len(u) + Len(s) /\ ~(i + 1 <= Len(u)) /\ (i + 1) - Len(u) = i BY <1>2, <1>3
  <2> QED BY <1>6, <2>1
<1> QED BY <1>1, <1>2, <1>3, <1>4, <1>5, <1>7, <1>8

LEMMA NewestIs ==
  ASSUME NEW S, NEW s \in Seq(S)
  PROVE  /\ Newest(s) \in Seq(S) /\ Len(Newest(s)) <= HistoryLimit
         /\ Len(Newest(s)) = IF Len(s) > HistoryLimit THEN HistoryLimit ELSE Len(s)
         /\ \A i \in 1 .. Len(s) : i <= HistoryLimit => Newest(s)[i] = s[i]
<1>1. CASE Len(s) > HistoryLimit
  <2>1. PICK h \in Nat : h = HistoryLimit BY BackendAssumption
  <2>2. SubSeq(s, 1, h) \in Seq(S) /\ Len(SubSeq(s, 1, h)) = h BY <1>1, <2>1
  <2>3. \A i \in 1 .. h : SubSeq(s, 1, h)[i] = s[i] BY <1>1, <2>1
  <2> QED BY <1>1, <2>1, <2>2, <2>3 DEF Newest
<1>2. CASE ~(Len(s) > HistoryLimit) BY <1>2, BackendAssumption DEF Newest
<1> QED BY <1>1, <1>2

\* A query told to both comes first in both, one told to the list only moves its places
LEMMA AheadFits ==
  ASSUME NEW s \in Seq(Runs), NEW m \in Seq(Runs), NEW r \in Runs, NEW S \in SUBSET (1 .. Len(s)),
         Fits(m, s, S)
  PROVE  /\ Fits(Newest(<<r>> \o m), <<r>> \o s, {1} \cup Shift(S))
         /\ Fits(m, <<r>> \o s, Shift(S))
<1> PICK t : t = <<r>> \o s OBVIOUS
<1> PICK u : u = <<r>> \o m OBVIOUS
<1> PICK h \in Nat : h = HistoryLimit BY BackendAssumption
<1>1. /\ t \in Seq(Runs) /\ Len(t) = Len(s) + 1 /\ t[1] = r /\ \A i \in 1 .. Len(s) : t[i + 1] = s[i]
      /\ u \in Seq(Runs) /\ Len(u) = Len(m) + 1 /\ u[1] = r /\ \A i \in 1 .. Len(m) : u[i + 1] = m[i]
  BY AheadIs
<1>2. Len(s) \in Nat /\ Len(m) \in Nat OBVIOUS
<1>3. /\ Len(m) = IF Cardinality(S) < h THEN Cardinality(S) ELSE h
      /\ \A i \in S : Cardinality(UpTo(S, i)) <= h => m[Cardinality(UpTo(S, i))] = s[i]
  BY DEF Fits
<1>4. /\ IsFiniteSet(S) /\ Cardinality(S) \in Nat /\ Cardinality(Shift(S)) = Cardinality(S)
      /\ Cardinality({1} \cup Shift(S)) = Cardinality(S) + 1
  BY <1>2, ShiftIs
<1>5. /\ Len(Newest(u)) = IF Len(u) > h THEN h ELSE Len(u)
      /\ \A i \in 1 .. Len(u) : i <= h => Newest(u)[i] = u[i]
  BY <1>1, NewestIs
<1>6. ASSUME NEW i \in S
      PROVE  LET k == Cardinality(UpTo(S, i)) IN
             /\ k \in 1 .. Cardinality(S) /\ Cardinality(UpTo(Shift(S), i + 1)) = k
             /\ Cardinality(UpTo({1} \cup Shift(S), i + 1)) = k + 1
  <2>1. PICK n \in Nat : n = Len(s) /\ S \in SUBSET (1 .. n) BY <1>2
  <2>2. UpTo(S, i) \in SUBSET (1 .. n) /\ Cardinality(UpTo(S, i)) \in 1 .. Cardinality(S) BY <2>1, UpToIs
  <2>3. S \in SUBSET Nat BY <2>1
  <2>4. PICK j : j = i + 1 OBVIOUS
  <2>5. UpTo(Shift(S), j) = Shift(UpTo(S, i)) /\ UpTo({1} \cup Shift(S), j) = {1} \cup Shift(UpTo(S, i))
    BY <2>3, <2>4, UpToShift
  <2>6. PICK U \in SUBSET (1 .. n) : U = UpTo(S, i) BY <2>2
  <2>7. Cardinality(Shift(U)) = Cardinality(U) /\ Cardinality({1} \cup Shift(U)) = Cardinality(U) + 1
    BY ShiftIs
  <2> QED BY <2>2, <2>4, <2>5, <2>6, <2>7
<1>7. Fits(m, t, Shift(S))
  <2>1. ASSUME NEW j \in Shift(S), Cardinality(UpTo(Shift(S), j)) <= h
        PROVE  m[Cardinality(UpTo(Shift(S), j))] = t[j]
    <3>1. PICK i \in S : j = i + 1 BY DEF Shift
    <3>2. t[j] = s[i] BY <1>1, <3>1
    <3> QED BY <1>3, <1>6, <2>1, <3>1, <3>2
  <2> QED BY <1>3, <1>4, <2>1 DEF Fits
<1>8. Fits(Newest(u), t, {1} \cup Shift(S))
  <2>1. Len(Newest(u)) = IF Cardinality(S) + 1 < h THEN Cardinality(S) + 1 ELSE h BY <1>1, <1>2, <1>3, <1>4, <1>5
  <2>2. ASSUME NEW j \in Shift(S), Cardinality(UpTo({1} \cup Shift(S), j)) <= h
        PROVE  Newest(u)[Cardinality(UpTo({1} \cup Shift(S), j))] = t[j]
    <3>1. PICK i \in S : j = i + 1 BY DEF Shift
    <3>2. t[j] = s[i] BY <1>1, <3>1
    <3>3. PICK k \in 1 .. Cardinality(S) :
            k = Cardinality(UpTo(S, i)) /\ Cardinality(UpTo({1} \cup Shift(S), j)) = k + 1
      BY <1>6, <3>1
    <3>4. k + 1 <= h /\ k <= h /\ k \in 1 .. Len(m) BY <1>3, <1>4, <2>2, <3>3
    <3>5. m[k] = s[i] BY <1>3, <3>3, <3>4
    <3>6. k + 1 \in 1 .. Len(u) BY <1>1, <1>2, <3>4
    <3>7. Newest(u)[k + 1] = u[k + 1] BY <1>5, <3>4, <3>6
    <3>8. u[k + 1] = m[k] BY <1>1, <3>4
    <3> QED BY <3>2, <3>3, <3>5, <3>7, <3>8
  <2>3. ASSUME Cardinality(UpTo({1} \cup Shift(S), 1)) <= h
        PROVE  Newest(u)[Cardinality(UpTo({1} \cup Shift(S), 1))] = t[1]
    <3>1. \A i \in Shift(S) : ~(i <= 1) BY DEF Shift
    <3>2. UpTo({1} \cup Shift(S), 1) = {1} BY <3>1 DEF UpTo
    <3>3. Cardinality(UpTo({1} \cup Shift(S), 1)) = 1 BY <3>2, FS_Singleton
    <3>4. Newest(u)[1] = u[1] BY <1>1, <1>2, <1>5, <2>3, <3>3
    <3> QED BY <1>1, <3>3, <3>4
  <2> QED BY <1>4, <2>1, <2>2, <2>3 DEF Fits
<1> QED BY <1>7, <1>8
-----------------------------------------------------------------------------
\* What orders the queries and the backends, and what was told before a backend was made
InTurn ==
  /\ era \in Nat \ {0} /\ mount <= inUse
  /\ \A r \in Runs : /\ run[r].era <= era /\ run[r].made <= inUse
                     /\ run[r].pc = "new" <=> run[r].made = 0
                     /\ run[r].made = inUse => run[r].mount = mount
  /\ \A m \in Made : m > inUse => memory[m] = <<>>

\* Who asks for keys though there are some, or beside another, raced or was raced with
Raced(m) == \E r \in Runs : run[r].made = m /\ run[r].raced
AskedForCause ==
  \A m \in Made :
    /\ cached[m] # 0 /\ AskingKeys(m) # {} => Raced(m)
    /\ \A q, r \in AskingKeys(m) : q = r \/ Raced(m)

BackendInv == BackendTypeOK /\ MemoryIsShown /\ EndsAreShown /\ InTurn /\ AskedForCause

RunState ==
  [pc : {"new", "asking", "answered", "running", "ended"}, how : Hows,
   made : 0..MaxMade, mount : 0..MaxMade, keys : 0..MaxRight, raced : BOOLEAN, era : Nat]

LEMMA OnePut ==
  ASSUME NEW I, NEW S, NEW f \in [I -> S], NEW i \in I, NEW v \in S
  PROVE  /\ [f EXCEPT ![i] = v] \in [I -> S] /\ [f EXCEPT ![i] = v][i] = v
         /\ \A j \in I : j # i => [f EXCEPT ![i] = v][j] = f[j]
OBVIOUS

LEMMA BackendTypes ==
  ASSUME BackendTypeOK
  PROVE  /\ inUse \in Made /\ inUse \in Nat /\ inUse # 0 /\ mount \in Made /\ right \in 1..MaxRight
         /\ MaxMade \in Nat /\ MaxRight \in Nat /\ HistoryLimit \in Nat
         /\ cached \in [Made -> 0..MaxRight] /\ memory \in [Made -> Seq(Runs)] /\ shown \in Seq(Runs)
         /\ Len(shown) \in Nat /\ run \in [Runs -> RunState] /\ inUse <= MaxMade
         /\ \A m \in Made : m \in Nat /\ m # 0 /\ Len(memory[m]) <= HistoryLimit
         /\ \A r \in Runs : run[r] \in RunState
         /\ \A i \in 1..Len(shown) : shown[i] \in Runs
<1>1. inUse \in Made /\ mount \in Made /\ right \in 1..MaxRight BY DEF BackendTypeOK
<1>2. MaxMade \in Nat /\ MaxRight \in Nat /\ HistoryLimit \in Nat BY BackendAssumption
<1>3. \A m \in Made : m \in Nat /\ m # 0 /\ m <= MaxMade BY <1>2 DEF Made
<1>4. /\ cached \in [Made -> 0..MaxRight] /\ memory \in [Made -> Seq(Runs)] /\ shown \in Seq(Runs)
      /\ \A m \in Made : Len(memory[m]) <= HistoryLimit
  BY DEF BackendTypeOK
<1>5. run \in [Runs -> RunState] BY DEF BackendTypeOK, RunState
<1>6. \A r \in Runs : run[r] \in RunState BY <1>5
<1>7. Len(shown) \in Nat /\ \A i \in 1..Len(shown) : shown[i] \in Runs BY <1>4
<1> QED BY <1>1, <1>2, <1>3, <1>4, <1>5, <1>6, <1>7

LEMMA ShownFits ==
  MemoryIsShown <=> Fits(memory[inUse], shown, OwnShown)
<1>1. \A i : Place(i) = Cardinality(UpTo(OwnShown, i)) BY DEF Place, UpTo
<1> QED BY <1>1 DEF MemoryIsShown, Fits

LEMMA InitBackend == BackendInit => BackendInv
<1> SUFFICES ASSUME BackendInit PROVE BackendInv OBVIOUS
<1>1. /\ inUse = 1 /\ mount = 1 /\ right = 1 /\ era = 1 /\ cached = [m \in Made |-> 0]
      /\ memory = [m \in Made |-> <<>>] /\ shown = <<>> /\ run = [r \in Runs |-> NotBegun]
  BY DEF BackendInit
<1>2. 1 \in Made /\ MaxRight \in Nat \ {0} /\ MaxMade \in Nat /\ HistoryLimit \in Nat BY BackendAssumption DEF Made
<1>3. NotBegun \in RunState BY <1>2 DEF NotBegun, RunState, Hows
<1>4. PICK n \in RunState : n = NotBegun BY <1>3
<1>5. n.pc = "new" /\ n.made = 0 /\ n.era = 0 /\ n.how = "query" BY <1>4 DEF NotBegun
<1>6. \A r \in Runs : run[r] = n BY <1>1, <1>4
<1>7. run \in [Runs -> RunState] BY <1>1, <1>3
<1>8. BackendTypeOK
  <2>1. <<>> \in Seq(Runs) /\ Len(<<>>) = 0 OBVIOUS
  <2>2. memory \in [Made -> Seq(Runs)] /\ \A m \in Made : Len(memory[m]) <= HistoryLimit BY <1>1, <1>2, <2>1
  <2>3. cached \in [Made -> 0..MaxRight] BY <1>1, <1>2
  <2>4. right \in 1..MaxRight BY <1>1, <1>2
  <2> QED BY <1>1, <1>2, <1>7, <2>1, <2>2, <2>3, <2>4 DEF BackendTypeOK, RunState
<1>9. Len(shown) = 0 /\ Len(memory[inUse]) = 0 BY <1>1, <1>2
<1>10. MemoryIsShown
  <2>1. OwnShown = {} BY <1>9 DEF OwnShown
  <2>2. Cardinality(OwnShown) = 0 BY <2>1, FS_EmptySet
  <2> QED BY <1>2, <1>9, <2>1, <2>2 DEF MemoryIsShown
<1>11. EndsAreShown BY <1>5, <1>6, <1>9 DEF EndsAreShown
<1>12. InTurn BY <1>1, <1>2, <1>5, <1>6 DEF InTurn
<1>13. AskedForCause
  <2>1. \A m : AskingKeys(m) = {} BY <1>5, <1>6 DEF AskingKeys
  <2> QED BY <2>1 DEF AskedForCause
<1> QED BY <1>8, <1>10, <1>11, <1>12, <1>13 DEF BackendInv

LEMMA ShownFitsNext ==
  MemoryIsShown' <=> Fits(memory'[inUse'], shown', OwnShown')
<1>1. \A i : Place(i)' = Cardinality(UpTo(OwnShown', i)) BY DEF Place, UpTo
<1> QED BY <1>1 DEF MemoryIsShown, Fits

\* A query that has not ended is not in the list, so whatever becomes of it changes nothing there
LEMMA RunMoves ==
  ASSUME BackendInv, NEW r \in Runs, run[r].pc # "ended", run' \in [Runs -> RunState],
         \A q \in Runs : q # r => run'[q] = run[q],
         run'[r].pc # "ended", run'[r].pc # "new", run'[r].era <= era,
         run'[r].made # 0, run'[r].made <= inUse, run'[r].made = inUse => run'[r].mount = mount,
         inUse' = inUse, mount' = mount, era' = era, memory' = memory, shown' = shown
  PROVE  MemoryIsShown' /\ EndsAreShown' /\ InTurn'
<1>1. BackendTypeOK BY DEF BackendInv
<1>2. \A i \in 1..Len(shown) : shown[i] \in Runs /\ shown[i] # r
  <2>1. {i \in 1..Len(shown) : shown[i] = r} = {} BY DEF BackendInv, EndsAreShown
  <2> QED BY <1>1, <2>1, BackendTypes
<1>3. OwnShown' = OwnShown BY <1>2 DEF OwnShown
<1>4. MemoryIsShown' BY <1>3, ShownFits, ShownFitsNext DEF BackendInv
<1>5. EndsAreShown'
  <2> SUFFICES ASSUME NEW q \in Runs
               PROVE  LET times == {i \in 1..Len(shown') : shown'[i] = q} IN
                      IF run'[q].pc = "ended" /\ run'[q].how # "export" /\ run'[q].era = era'
                      THEN \E i \in times : times = {i} ELSE times = {}
    BY DEF EndsAreShown
  <2>1. LET times == {i \in 1..Len(shown) : shown[i] = q} IN
        IF run[q].pc = "ended" /\ run[q].how # "export" /\ run[q].era = era
        THEN \E i \in times : times = {i} ELSE times = {}
    BY DEF BackendInv, EndsAreShown
  <2>2. CASE q = r
    <3>1. {i \in 1..Len(shown) : shown[i] = q} = {} BY <2>1, <2>2
    <3> QED BY <2>2, <3>1
  <2>3. CASE q # r BY <2>1, <2>3
  <2> QED BY <2>2, <2>3
<1>6. InTurn' BY DEF BackendInv, InTurn
<1> QED BY <1>4, <1>5, <1>6

LEMMA BeginKeeps ==
  ASSUME BackendInv, NEW r \in Runs, NEW how \in Hows, BeginQuery(r, how)
  PROVE  BackendInv'
<1>1. BackendTypeOK /\ InTurn /\ AskedForCause BY DEF BackendInv
<1>2. /\ run[r].pc = "new" /\ inUse' = inUse /\ mount' = mount /\ era' = era /\ right' = right
      /\ cached' = cached /\ memory' = memory /\ shown' = shown
  BY DEF BeginQuery, keep
<1>3. PICK c \in 0..MaxRight : c = cached[inUse] BY <1>1, BackendTypes
<1>4. PICK b \in BOOLEAN : b = (AskingKeys(inUse) # {}) OBVIOUS
<1>5. PICK n \in RunState :
        /\ n.made = inUse /\ n.mount = mount /\ n.era = 0
        /\ n.pc = IF c # 0 THEN "running" ELSE "asking"
        /\ c = 0 => n.raced = b
        /\ run' = [run EXCEPT ![r] = n]
  <2>1. PICK z \in RunState : z = NotBegun /\ z.era = 0
    <3>1. 0 \in 0..MaxMade /\ 0 \in 0..MaxRight BY <1>1, BackendTypes
    <3>2. PICK w, q, f : w = "new" /\ q = "query" /\ f = FALSE OBVIOUS
    <3>3. PICK z : z = [pc |-> w, how |-> q, made |-> 0, mount |-> 0, keys |-> 0, raced |-> f, era |-> 0] OBVIOUS
    <3>4. w \in {"new", "asking", "answered", "running", "ended"} /\ q \in Hows /\ f \in BOOLEAN
      BY <3>2 DEF Hows
    <3>5. z \in RunState BY <3>1, <3>3, <3>4 DEF RunState
    <3>6. z = NotBegun BY <3>2, <3>3 DEF NotBegun
    <3>7. z.era = 0 BY <3>3
    <3> QED BY <3>5, <3>6, <3>7
  <2>2. inUse \in 0..MaxMade /\ mount \in 0..MaxMade BY <1>1, BackendTypes DEF Made
  <2>3. PICK x \in RunState : x = BegunRun(r, how) /\ x.made = inUse /\ x.mount = mount /\ x.era = 0
    <3>1. PICK x : x = [z EXCEPT !.how = how, !.made = inUse, !.mount = mount] OBVIOUS
    <3>2. x \in RunState BY <2>2, <3>1 DEF RunState
    <3>3. x.made = inUse /\ x.mount = mount /\ x.era = 0 BY <2>1, <3>1 DEF RunState
    <3>4. x = BegunRun(r, how) BY <2>1, <3>1 DEF BegunRun
    <3> QED BY <3>2, <3>3, <3>4
  <2>4. CASE c # 0
    <3>1. PICK p \in {"running", "asking"} : p = "running" OBVIOUS
    <3>2. PICK n : n = [x EXCEPT !.pc = p, !.keys = c] OBVIOUS
    <3>3. n \in RunState BY <3>1, <3>2 DEF RunState
    <3>4. n.made = inUse /\ n.mount = mount /\ n.era = 0 /\ n.pc = p BY <2>3, <3>2 DEF RunState
    <3>5. run' = [run EXCEPT ![r] = n] BY <1>3, <2>3, <2>4, <3>1, <3>2 DEF BeginQuery
    <3> QED BY <2>4, <3>1, <3>3, <3>4, <3>5
  <2>5. CASE c = 0
    <3>1. PICK p \in {"running", "asking"} : p = "asking" OBVIOUS
    <3>2. PICK n : n = [x EXCEPT !.pc = p, !.raced = b] OBVIOUS
    <3>3. n \in RunState BY <3>1, <3>2 DEF RunState
    <3>4. n.made = inUse /\ n.mount = mount /\ n.era = 0 /\ n.pc = p /\ n.raced = b BY <2>3, <3>2 DEF RunState
    <3>5. run' = [run EXCEPT ![r] = n] BY <1>3, <1>4, <2>3, <2>5, <3>1, <3>2 DEF BeginQuery
    <3> QED BY <2>5, <3>1, <3>3, <3>4, <3>5
  <2> QED BY <2>4, <2>5
<1>6. /\ run' \in [Runs -> RunState] /\ run'[r] = n /\ \A q \in Runs : q # r => run'[q] = run[q]
  BY <1>1, <1>5, BackendTypes
<1>7. BackendTypeOK' BY <1>1, <1>2, <1>6 DEF BackendTypeOK, RunState
<1>8. 0 <= era /\ inUse <= inUse /\ inUse # 0 BY <1>1, BackendTypes DEF InTurn
<1>9. MemoryIsShown' /\ EndsAreShown' /\ InTurn' BY <1>2, <1>5, <1>6, <1>8, RunMoves
<1>10. AskedForCause'
  <2>1. run[r].made = 0 /\ \A m \in Made : m # 0 BY <1>1, <1>2, BackendTypes DEF InTurn
  <2>2. \A m \in Made : Raced(m) => Raced(m)' BY <1>6, <2>1 DEF Raced
  <2>3. \A m \in Made : m # inUse => AskingKeys(m)' = AskingKeys(m) BY <1>5, <1>6, <2>1 DEF AskingKeys
  <2>4. inUse \in Made BY <1>1, BackendTypes
  <2>5. CASE c # 0
    <3>1. \A m \in Made : AskingKeys(m)' = AskingKeys(m) BY <1>5, <1>6, <2>1, <2>5 DEF AskingKeys
    <3> QED BY <1>1, <1>2, <2>2, <3>1 DEF AskedForCause
  <2>6. CASE c = 0
    <3>1. AskingKeys(inUse)' = AskingKeys(inUse) \cup {r} BY <1>2, <1>5, <1>6, <2>1, <2>4, <2>6 DEF AskingKeys
    <3>2. AskingKeys(inUse) # {} => Raced(inUse)' BY <1>2, <1>4, <1>5, <1>6, <2>6 DEF Raced
    <3>3. \A p, q \in AskingKeys(inUse)' : p = q \/ Raced(inUse)' BY <3>1, <3>2
    <3>4. cached'[inUse] = 0 BY <1>2, <1>3, <2>6
    <3> QED BY <1>1, <1>2, <2>2, <2>3, <3>3, <3>4 DEF AskedForCause
  <2> QED BY <2>5, <2>6
<1> QED BY <1>7, <1>9, <1>10 DEF BackendInv

LEMMA ServeKeeps ==
  ASSUME BackendInv, NEW r \in Runs, ServeKeys(r)
  PROVE  BackendInv'
<1>1. BackendTypeOK /\ InTurn /\ AskedForCause BY DEF BackendInv
<1>2. /\ run[r].pc = "asking" /\ inUse' = inUse /\ mount' = mount /\ era' = era /\ right' = right
      /\ cached' = cached /\ memory' = memory /\ shown' = shown
      /\ run' = [run EXCEPT ![r].pc = "answered", ![r].keys = right]
  BY DEF ServeKeys, keep
<1>3. PICK n \in RunState :
        /\ n.pc = "answered" /\ n.made = run[r].made /\ n.mount = run[r].mount /\ n.era = run[r].era
        /\ n.raced = run[r].raced /\ run' = [run EXCEPT ![r] = n]
  <2>1. PICK x \in RunState : x = run[r] BY <1>1, BackendTypes
  <2>2. PICK p \in {"answered", "asking"} : p = "answered" OBVIOUS
  <2>3. PICK n : n = [x EXCEPT !.pc = p, !.keys = right] OBVIOUS
  <2>4. right \in 0..MaxRight BY <1>1, BackendTypes
  <2>5. n \in RunState BY <2>2, <2>3, <2>4 DEF RunState
  <2>6. n.pc = p /\ n.made = x.made /\ n.mount = x.mount /\ n.era = x.era /\ n.raced = x.raced
    BY <2>3 DEF RunState
  <2>7. run' = [run EXCEPT ![r] = n] BY <1>1, <1>2, <2>1, <2>2, <2>3, BackendTypes
  <2> QED BY <2>1, <2>2, <2>5, <2>6, <2>7
<1>4. /\ run' \in [Runs -> RunState] /\ run'[r] = n /\ \A q \in Runs : q # r => run'[q] = run[q]
  BY <1>1, <1>3, BackendTypes
<1>5. BackendTypeOK' BY <1>1, <1>2, <1>4 DEF BackendTypeOK, RunState
<1>6. n.era <= era /\ n.made # 0 /\ n.made <= inUse /\ (n.made = inUse => n.mount = mount)
  BY <1>1, <1>2, <1>3 DEF InTurn
<1>7. MemoryIsShown' /\ EndsAreShown' /\ InTurn' BY <1>2, <1>3, <1>4, <1>6, RunMoves
<1>8. AskedForCause'
  <2>1. \A m \in Made : Raced(m) => Raced(m)' BY <1>3, <1>4 DEF Raced
  <2>2. \A m \in Made : AskingKeys(m)' = AskingKeys(m) BY <1>2, <1>3, <1>4 DEF AskingKeys
  <2> QED BY <1>1, <1>2, <2>1, <2>2 DEF AskedForCause
<1> QED BY <1>5, <1>7, <1>8 DEF BackendInv

LEMMA FetchKeeps ==
  ASSUME BackendInv, NEW r \in Runs, FetchKeys(r)
  PROVE  /\ BackendInv'
         /\ \A m \in Made : cached[m] # 0 /\ cached'[m] # cached[m] => Raced(m)
<1>1. BackendTypeOK /\ InTurn /\ AskedForCause BY DEF BackendInv
<1>2. /\ run[r].pc = "answered" /\ inUse' = inUse /\ mount' = mount /\ era' = era /\ right' = right
      /\ memory' = memory /\ shown' = shown
      /\ run' = [run EXCEPT ![r].pc = "running"]
      /\ cached' = [cached EXCEPT ![run[r].made] = run[r].keys]
  BY DEF FetchKeys, keep
<1>3. PICK n \in RunState :
        /\ n.pc = "running" /\ n.made = run[r].made /\ n.mount = run[r].mount /\ n.era = run[r].era
        /\ n.raced = run[r].raced /\ run' = [run EXCEPT ![r] = n]
  <2>1. PICK x \in RunState : x = run[r] BY <1>1, BackendTypes
  <2>2. PICK p \in {"running", "asking"} : p = "running" OBVIOUS
  <2>3. PICK n : n = [x EXCEPT !.pc = p] OBVIOUS
  <2>4. n \in RunState BY <2>2, <2>3 DEF RunState
  <2>5. n.pc = p /\ n.made = x.made /\ n.mount = x.mount /\ n.era = x.era /\ n.raced = x.raced
    BY <2>3 DEF RunState
  <2>6. run' = [run EXCEPT ![r] = n] BY <1>1, <1>2, <2>1, <2>2, <2>3, BackendTypes
  <2> QED BY <2>1, <2>2, <2>4, <2>5, <2>6
<1>4. /\ run' \in [Runs -> RunState] /\ run'[r] = n /\ \A q \in Runs : q # r => run'[q] = run[q]
  BY <1>1, <1>3, BackendTypes
<1>5. run[r].keys \in 0..MaxRight
  <2>1. PICK x \in RunState : x = run[r] BY <1>1, BackendTypes
  <2> QED BY <2>1 DEF RunState
<1>6. cached' \in [Made -> 0..MaxRight] /\ \A m \in Made : m # run[r].made => cached'[m] = cached[m]
  BY <1>1, <1>2, <1>5, BackendTypes
<1>7. BackendTypeOK' BY <1>1, <1>2, <1>4, <1>6 DEF BackendTypeOK, RunState
<1>8. n.era <= era /\ n.made # 0 /\ n.made <= inUse /\ (n.made = inUse => n.mount = mount)
  BY <1>1, <1>2, <1>3 DEF InTurn
<1>9. MemoryIsShown' /\ EndsAreShown' /\ InTurn' BY <1>2, <1>3, <1>4, <1>8, RunMoves
<1>10. \A m \in Made : Raced(m) => Raced(m)' BY <1>3, <1>4 DEF Raced
<1>11. \A m \in Made : AskingKeys(m)' = AskingKeys(m) \ {r} BY <1>2, <1>3, <1>4 DEF AskingKeys
<1>12. run[r].made \in Made => r \in AskingKeys(run[r].made) BY <1>2 DEF AskingKeys
<1>13. AskedForCause'
  <2>1. \A m \in Made : \A p, q \in AskingKeys(m)' : p = q \/ Raced(m)' BY <1>1, <1>10, <1>11 DEF AskedForCause
  <2>2. ASSUME NEW m \in Made, cached'[m] # 0, AskingKeys(m)' # {} PROVE Raced(m)'
    <3>1. CASE m = run[r].made
      <4>1. PICK q \in AskingKeys(m) : q # r BY <1>11, <2>2
      <4>2. r \in AskingKeys(m) BY <1>12, <3>1
      <4> QED BY <1>1, <1>10, <4>1, <4>2 DEF AskedForCause
    <3>2. CASE m # run[r].made BY <1>1, <1>6, <1>10, <1>11, <2>2, <3>2 DEF AskedForCause
    <3> QED BY <3>1, <3>2
  <2> QED BY <2>1, <2>2 DEF AskedForCause
<1>14. ASSUME NEW m \in Made, cached[m] # 0, cached'[m] # cached[m] PROVE Raced(m)
  <2>1. m = run[r].made BY <1>6, <1>14
  <2>2. AskingKeys(m) # {} BY <1>12, <2>1
  <2> QED BY <1>1, <1>14, <2>2 DEF AskedForCause
<1>15. BackendInv' BY <1>7, <1>9, <1>13 DEF BackendInv
<1> QED BY <1>14, <1>15

\* What is kept of a list with one more in front
LEMMA AheadSplit ==
  ASSUME NEW n \in Nat, NEW P \in SUBSET (1 .. n + 1), NEW Q \in SUBSET (1 .. n),
         \A i \in 1 .. n : i + 1 \in P <=> i \in Q
  PROVE  P = IF 1 \in P THEN {1} \cup Shift(Q) ELSE Shift(Q)
<1>1. \A j \in 1 .. n + 1 : j = 1 \/ (j - 1 \in 1 .. n /\ j = (j - 1) + 1) OBVIOUS
<1>2. ASSUME NEW j \in P PROVE j = 1 \/ j \in Shift(Q)
  <2>1. CASE j # 1
    <3>1. PICK i \in 1 .. n : j = i + 1 BY <1>1, <2>1
    <3>2. i \in Q BY <3>1
    <3> QED BY <3>1, <3>2 DEF Shift
  <2> QED BY <2>1
<1>3. ASSUME NEW j \in Shift(Q) PROVE j \in P /\ j # 1
  <2>1. PICK i \in Q : j = i + 1 BY DEF Shift
  <2>2. i \in 1 .. n OBVIOUS
  <2> QED BY <2>1, <2>2
<1>4. PICK T : T = Shift(Q) OBVIOUS
<1>5. CASE 1 \in P
  <2>1. P \subseteq {1} \cup T BY <1>2, <1>4
  <2>2. {1} \cup T \subseteq P BY <1>3, <1>4, <1>5
  <2> QED BY <1>4, <1>5, <2>1, <2>2
<1>6. CASE 1 \notin P
  <2>1. P \subseteq T BY <1>2, <1>4, <1>6
  <2>2. T \subseteq P BY <1>3, <1>4
  <2> QED BY <1>4, <1>6, <2>1, <2>2
<1> QED BY <1>5, <1>6

\* The list with r in front
LEMMA AheadOwn ==
  ASSUME BackendTypeOK, NEW r \in Runs, shown' = <<r>> \o shown, inUse' = inUse,
         \A q \in Runs : run'[q].made = run[q].made
  PROVE  /\ OwnShown' = IF run[r].made = inUse THEN {1} \cup Shift(OwnShown) ELSE Shift(OwnShown)
         /\ \A q \in Runs : {i \in 1..Len(shown') : shown'[i] = q} =
              IF q = r THEN {1} \cup Shift({i \in 1..Len(shown) : shown[i] = q})
                       ELSE Shift({i \in 1..Len(shown) : shown[i] = q})
<1>1. shown \in Seq(Runs) /\ Len(shown) \in Nat /\ \A i \in 1..Len(shown) : shown[i] \in Runs BY BackendTypes
<1>2. PICK s \in Seq(Runs) : s = shown BY <1>1
<1>3. PICK t : t = <<r>> \o s OBVIOUS
<1>4. t \in Seq(Runs) /\ Len(t) = Len(s) + 1 /\ t[1] = r /\ \A i \in 1 .. Len(s) : t[i + 1] = s[i]
  BY <1>3, AheadIs
<1>5. shown' = t BY <1>2, <1>3
<1>6. PICK n \in Nat : n = Len(s) BY <1>1, <1>2
<1>7. 1 .. n + 1 = {1} \cup Shift(1 .. n)
  <2>1. \A j \in 2 .. n + 1 : j - 1 \in 1 .. n /\ j = (j - 1) + 1 OBVIOUS
  <2>2. \A j \in 1 .. n + 1 : j = 1 \/ j \in 2 .. n + 1 OBVIOUS
  <2>3. \A j \in 1 .. n : j + 1 \in 1 .. n + 1 OBVIOUS
  <2>4. 1 \in 1 .. n + 1 OBVIOUS
  <2> QED BY <2>1, <2>2, <2>3, <2>4 DEF Shift
<1>8. ASSUME NEW q \in Runs
      PROVE  {i \in 1 .. n + 1 : t[i] = q} =
               IF q = r THEN {1} \cup Shift({i \in 1 .. n : s[i] = q}) ELSE Shift({i \in 1 .. n : s[i] = q})
  <2>1. PICK P : P = {i \in 1 .. n + 1 : t[i] = q} OBVIOUS
  <2>2. PICK Q : Q = {i \in 1 .. n : s[i] = q} OBVIOUS
  <2>0. P \in SUBSET (1 .. n + 1) /\ Q \in SUBSET (1 .. n) /\ n \in Nat BY <2>1, <2>2
  <2>3. \A i \in 1 .. n : i + 1 \in 1 .. n + 1 /\ (t[i + 1] = q <=> s[i] = q) BY <1>4, <1>6
  <2>4. \A i \in 1 .. n : i + 1 \in P <=> i \in Q BY <2>1, <2>2, <2>3
  <2>5. P = IF 1 \in P THEN {1} \cup Shift(Q) ELSE Shift(Q) BY <2>0, <2>4, AheadSplit
  <2>6. 1 \in P <=> q = r BY <1>4, <1>7, <2>1
  <2> QED BY <2>1, <2>2, <2>5, <2>6
<1>9. {i \in 1 .. n + 1 : run[t[i]].made = inUse} =
        IF run[r].made = inUse THEN {1} \cup Shift({i \in 1 .. n : run[s[i]].made = inUse})
        ELSE Shift({i \in 1 .. n : run[s[i]].made = inUse})
  <2>1. PICK P : P = {i \in 1 .. n + 1 : run[t[i]].made = inUse} OBVIOUS
  <2>2. PICK Q : Q = {i \in 1 .. n : run[s[i]].made = inUse} OBVIOUS
  <2>0. P \in SUBSET (1 .. n + 1) /\ Q \in SUBSET (1 .. n) /\ n \in Nat BY <2>1, <2>2
  <2>3. \A i \in 1 .. n : i + 1 \in 1 .. n + 1 /\ t[i + 1] = s[i] BY <1>4, <1>6
  <2>4. \A i \in 1 .. n : i + 1 \in P <=> i \in Q BY <2>1, <2>2, <2>3
  <2>5. P = IF 1 \in P THEN {1} \cup Shift(Q) ELSE Shift(Q) BY <2>0, <2>4, AheadSplit
  <2>6. 1 \in P <=> run[r].made = inUse BY <1>4, <1>7, <2>1
  <2> QED BY <2>1, <2>2, <2>5, <2>6
<1>10. OwnShown = {i \in 1 .. n : run[s[i]].made = inUse} BY <1>2, <1>6 DEF OwnShown
<1>11. OwnShown' = {i \in 1 .. n + 1 : run[t[i]].made = inUse}
  <2>1. \A i \in 1 .. n + 1 : t[i] \in Runs BY <1>4, <1>6
  <2>2. Len(t) = n + 1 BY <1>4, <1>6
  <2>3. \A i \in 1 .. n + 1 : run'[t[i]].made = run[t[i]].made BY <2>1
  <2> QED BY <1>5, <2>2, <2>3 DEF OwnShown
<1>12. Len(shown') = n + 1 BY <1>4, <1>5, <1>6
<1> QED BY <1>2, <1>5, <1>6, <1>8, <1>9, <1>10, <1>11, <1>12

LEMMA ShiftOne == ASSUME NEW T PROVE (\E i \in T : T = {i}) => \E i \in Shift(T) : Shift(T) = {i}
BY DEF Shift

LEMMA RememberKeeps ==
  ASSUME BackendInv, NEW r \in Runs, run[r].pc \notin {"new", "ended"}, Remember(r),
         UNCHANGED <<keep, right, cached>>
  PROVE  BackendInv'
<1>1. BackendTypeOK /\ InTurn /\ AskedForCause /\ MemoryIsShown /\ EndsAreShown BY DEF BackendInv
<1>2. inUse' = inUse /\ mount' = mount /\ era' = era /\ right' = right /\ cached' = cached BY DEF keep
<1>3. PICK n \in RunState :
        /\ n.pc = "ended" /\ n.made = run[r].made /\ n.mount = run[r].mount /\ n.how = run[r].how
        /\ n.raced = run[r].raced /\ n.era = (IF run[r].mount = mount THEN era ELSE 0)
        /\ run' = [run EXCEPT ![r] = n]
  <2>1. PICK x \in RunState : x = run[r] BY <1>1, BackendTypes
  <2>2. PICK p \in {"ended", "asking"} : p = "ended" OBVIOUS
  <2>3. PICK e \in Nat : e = IF run[r].mount = mount THEN era ELSE 0 BY <1>1 DEF InTurn
  <2>4. PICK n : n = [x EXCEPT !.pc = p, !.keys = 0, !.era = e] OBVIOUS
  <2>5. 0 \in 0..MaxRight BY <1>1, BackendTypes
  <2>6. n \in RunState BY <2>2, <2>4, <2>5 DEF RunState
  <2>7. n.pc = p /\ n.made = x.made /\ n.mount = x.mount /\ n.era = e /\ n.raced = x.raced /\ n.how = x.how
    BY <2>4 DEF RunState
  <2>8. run' = [run EXCEPT ![r] = n] BY <1>1, <2>1, <2>2, <2>3, <2>4, BackendTypes DEF Remember, EndedRun
  <2> QED BY <2>1, <2>2, <2>3, <2>6, <2>7, <2>8
<1>4. /\ run' \in [Runs -> RunState] /\ run'[r] = n /\ \A q \in Runs : q # r => run'[q] = run[q]
      /\ \A q \in Runs : run'[q].made = run[q].made
  BY <1>1, <1>3, BackendTypes
<1>5. AskedForCause'
  <2>1. \A m \in Made : Raced(m) => Raced(m)' BY <1>3, <1>4 DEF Raced
  <2>2. \A m \in Made : AskingKeys(m)' \subseteq AskingKeys(m) BY <1>3, <1>4 DEF AskingKeys
  <2> QED BY <1>1, <1>2, <2>1, <2>2 DEF AskedForCause
<1> DEFINE told == run[r].how # "export"
           times(q) == {i \in 1..Len(shown) : shown[i] = q}
<1>6. {i \in 1..Len(shown) : shown[i] = r} = {} BY <1>1 DEF EndsAreShown
<1>7. CASE ~told
  <2>1. memory' = memory /\ shown' = shown BY <1>7 DEF Remember
  <2>2. BackendTypeOK' BY <1>1, <1>2, <1>4, <2>1 DEF BackendTypeOK, RunState
  <2>3. OwnShown' = OwnShown BY <1>1, <1>2, <1>4, <2>1, BackendTypes DEF OwnShown
  <2>4. MemoryIsShown' BY <1>1, <1>2, <2>1, <2>3, ShownFits, ShownFitsNext
  <2>5. EndsAreShown' BY <1>1, <1>2, <1>3, <1>4, <1>6, <1>7, <2>1 DEF EndsAreShown
  <2>6. InTurn' BY <1>1, <1>2, <1>3, <1>4, <2>1 DEF InTurn
  <2> QED BY <1>5, <2>2, <2>4, <2>5, <2>6 DEF BackendInv
<1>8. CASE told
  <2>1. PICK a \in Made : a = run[r].made
    <3>1. PICK x \in RunState : x = run[r] BY <1>1, BackendTypes
    <3>2. x.made \in 0..MaxMade BY DEF RunState
    <3>3. x.made # 0 BY <1>1, <3>1 DEF InTurn
    <3> QED BY <1>1, <3>1, <3>2, <3>3, BackendTypes DEF Made
  <2>2. PICK s \in Seq(Runs) : s = memory[a] BY <1>1, BackendTypes
  <2>3. PICK v : v = Newest(<<r>> \o s) OBVIOUS
  <2>4. v \in Seq(Runs) /\ Len(v) <= HistoryLimit BY <2>3, AheadIs, NewestIs
  <2>5. memory' = [memory EXCEPT ![a] = v] BY <1>8, <2>1, <2>2, <2>3 DEF Remember
  <2>6. /\ memory' \in [Made -> Seq(Runs)] /\ memory'[a] = v
        /\ \A m \in Made : m # a => memory'[m] = memory[m]
    <3>1. memory \in [Made -> Seq(Runs)] /\ v \in Seq(Runs) BY <1>1, <2>4, BackendTypes
    <3> QED BY <2>5, <3>1, OnePut
  <2>7. shown' = IF run[r].mount = mount THEN <<r>> \o shown ELSE shown BY <1>8 DEF Remember
  <2>8. shown' \in Seq(Runs) BY <1>1, <2>7, AheadIs, BackendTypes
  <2>9. BackendTypeOK'
    <3>1. \A m \in Made : Len(memory'[m]) <= HistoryLimit BY <1>1, <2>4, <2>6, BackendTypes
    <3>2. inUse' \in Made /\ mount' \in Made /\ right' \in 1..MaxRight /\ cached' \in [Made -> 0..MaxRight]
      BY <1>1, <1>2 DEF BackendTypeOK
    <3> QED BY <1>4, <2>6, <2>8, <3>1, <3>2 DEF BackendTypeOK, RunState
  <2>10. InTurn'
    <3>1. a <= inUse BY <1>1, <2>1 DEF InTurn
    <3>5. inUse \in Nat /\ \A m \in Made : m \in Nat BY <1>1, BackendTypes
    <3>6. \A m \in Made : m > inUse => m # a BY <3>1, <3>5
    <3>2. \A m \in Made : m > inUse => memory'[m] = <<>> BY <1>1, <2>6, <3>6 DEF InTurn
    <3>3. n.era <= era /\ n.made # 0 /\ n.made <= inUse /\ (n.made = inUse => n.mount = mount)
      BY <1>1, <1>3 DEF InTurn
    <3> QED BY <1>1, <1>2, <1>3, <1>4, <3>2, <3>3 DEF InTurn
  <2>11. inUse \in Made /\ OwnShown \in SUBSET (1 .. Len(shown)) /\ shown \in Seq(Runs)
         /\ memory[inUse] \in Seq(Runs)
    BY <1>1, BackendTypes DEF OwnShown
  <2>12. PICK m \in Seq(Runs), l \in Seq(Runs) : m = memory[inUse] /\ l = shown BY <2>11
  <2>13. PICK S \in SUBSET (1 .. Len(l)) : S = OwnShown BY <2>11, <2>12
  <2>14. Fits(m, l, S) BY <1>1, <2>12, <2>13, ShownFits
  <2>15. CASE run[r].mount # mount
    <3>1. shown' = shown /\ a # inUse BY <1>1, <2>1, <2>7, <2>15 DEF InTurn
    <3>2. OwnShown' = OwnShown BY <1>1, <1>2, <1>4, <3>1, BackendTypes DEF OwnShown
    <3>3. memory'[inUse] = memory[inUse] BY <2>6, <2>11, <3>1
    <3>4. MemoryIsShown' BY <1>1, <1>2, <3>1, <3>2, <3>3, ShownFits, ShownFitsNext
    <3>5. n.era = 0 /\ era # 0 BY <1>1, <1>3, <2>15 DEF InTurn
    <3>6. EndsAreShown' BY <1>1, <1>2, <1>3, <1>4, <1>6, <3>1, <3>5 DEF EndsAreShown
    <3> QED BY <1>5, <2>9, <2>10, <3>4, <3>6 DEF BackendInv
  <2>16. CASE run[r].mount = mount
    <3>1. shown' = <<r>> \o shown BY <2>7, <2>16
    <3>2. /\ OwnShown' = IF a = inUse THEN {1} \cup Shift(OwnShown) ELSE Shift(OwnShown)
          /\ \A q \in Runs : {i \in 1..Len(shown') : shown'[i] = q} =
               IF q = r THEN {1} \cup Shift({i \in 1..Len(shown) : shown[i] = q})
                        ELSE Shift({i \in 1..Len(shown) : shown[i] = q})
      BY <1>1, <1>2, <1>4, <2>1, <3>1, AheadOwn
    <3>3. /\ Fits(Newest(<<r>> \o m), <<r>> \o l, {1} \cup Shift(S))
          /\ Fits(m, <<r>> \o l, Shift(S))
      BY <2>14, AheadFits
    <3>4. MemoryIsShown'
      <4>1. CASE a = inUse
        <5>1. memory'[inUse'] = Newest(<<r>> \o m) BY <1>2, <2>2, <2>3, <2>6, <2>12, <4>1
        <5>2. OwnShown' = {1} \cup Shift(S) BY <2>13, <3>2, <4>1
        <5> QED BY <2>12, <3>1, <3>3, <5>1, <5>2, ShownFitsNext
      <4>2. CASE a # inUse
        <5>1. memory'[inUse'] = m BY <1>2, <2>6, <2>11, <2>12, <4>2
        <5>2. OwnShown' = Shift(S) BY <2>13, <3>2, <4>2
        <5> QED BY <2>12, <3>1, <3>3, <5>1, <5>2, ShownFitsNext
      <4> QED BY <4>1, <4>2
    <3>5. EndsAreShown'
      <4> SUFFICES ASSUME NEW q \in Runs
                   PROVE  LET now == {i \in 1..Len(shown') : shown'[i] = q} IN
                          IF run'[q].pc = "ended" /\ run'[q].how # "export" /\ run'[q].era = era'
                          THEN \E i \in now : now = {i} ELSE now = {}
        BY DEF EndsAreShown
      <4>1. PICK T : T = {i \in 1..Len(shown) : shown[i] = q} OBVIOUS
      <4>2. PICK U : U = {i \in 1..Len(shown') : shown'[i] = q} OBVIOUS
      <4>3. CASE q = r
        <5>1. U = {1} BY <1>6, <3>2, <4>2, <4>3 DEF Shift
        <5>2. run'[q].pc = "ended" /\ run'[q].how # "export" /\ run'[q].era = era'
          BY <1>2, <1>3, <1>4, <1>8, <2>16, <4>3
        <5> QED BY <4>2, <5>1, <5>2
      <4>4. CASE q # r
        <5>1. U = Shift(T) BY <3>2, <4>1, <4>2, <4>4
        <5>2. run'[q] = run[q] /\ era' = era BY <1>2, <1>4, <4>4
        <5>3. IF run[q].pc = "ended" /\ run[q].how # "export" /\ run[q].era = era
              THEN \E i \in T : T = {i} ELSE T = {}
          BY <1>1, <4>1 DEF EndsAreShown
        <5>4. T = {} => U = {} BY <5>1 DEF Shift
        <5>5. (\E i \in T : T = {i}) => \E i \in U : U = {i} BY <5>1, ShiftOne
        <5> QED BY <4>2, <5>2, <5>3, <5>4, <5>5
      <4> QED BY <4>3, <4>4
    <3> QED BY <1>5, <2>9, <2>10, <3>4, <3>5 DEF BackendInv
  <2> QED BY <2>15, <2>16
<1> QED BY <1>7, <1>8

\* A list begun anew: nothing is remembered of what is not shown
LEMMA BegunAnewKeeps ==
  ASSUME BackendInv, shown' = <<>>, era' = era + 1, memory'[inUse'] = <<>>, run' = run
  PROVE  MemoryIsShown' /\ EndsAreShown'
<1>1. BackendTypeOK /\ InTurn BY DEF BackendInv
<1>2. Len(shown') = 0 /\ Len(memory'[inUse']) = 0 OBVIOUS
<1>3. \A i : i \notin 1..Len(shown') BY <1>2
<1>4. MemoryIsShown'
  <2>1. OwnShown' = {} BY <1>3 DEF OwnShown
  <2>2. Cardinality(OwnShown') = 0 BY <2>1, FS_EmptySet
  <2>3. HistoryLimit \in Nat BY BackendAssumption
  <2> QED BY <1>2, <2>1, <2>2, <2>3 DEF MemoryIsShown
<1>5. EndsAreShown'
  <2>1. \A q \in Runs : run'[q].era # era'
    <3>1. \A q \in Runs : run[q] \in RunState BY <1>1, BackendTypes
    <3>2. \A q \in Runs : run[q].era \in Nat /\ run[q].era <= era BY <1>1, <3>1 DEF RunState, InTurn
    <3>3. era \in Nat BY <1>1 DEF InTurn
    <3> QED BY <3>2, <3>3
  <2>2. \A q \in Runs : {i \in 1..Len(shown') : shown'[i] = q} = {} BY <1>3
  <2> QED BY <2>1, <2>2 DEF EndsAreShown
<1> QED BY <1>4, <1>5

LEMMA ClearKeeps ==
  ASSUME BackendInv, ClearHistory
  PROVE  BackendInv'
<1>1. BackendTypeOK /\ InTurn /\ AskedForCause BY DEF BackendInv
<1>2. /\ inUse' = inUse /\ mount' = mount /\ era' = era + 1 /\ right' = right /\ cached' = cached
      /\ shown' = <<>> /\ run' = run /\ memory' = [memory EXCEPT ![inUse] = <<>>]
  BY DEF ClearHistory
<1>3. PICK z : z = <<>> OBVIOUS
<1>4. z \in Seq(Runs) /\ Len(z) = 0 BY <1>3
<1>5. /\ memory' \in [Made -> Seq(Runs)] /\ memory'[inUse] = z /\ \A m \in Made : m # inUse => memory'[m] = memory[m]
  <2>1. inUse \in Made /\ memory \in [Made -> Seq(Runs)] BY <1>1, BackendTypes
  <2>2. memory' = [memory EXCEPT ![inUse] = z] BY <1>2, <1>3
  <2>3. z \in Seq(Runs) BY <1>4
  <2> QED BY <2>1, <2>2, <2>3, OnePut
<1>6. BackendTypeOK'
  <2>3. HistoryLimit \in Nat /\ \A m \in Made : Len(memory[m]) <= HistoryLimit BY <1>1, BackendTypes
  <2>4. Len(memory'[inUse]) <= HistoryLimit BY <1>4, <1>5, <2>3
  <2>1. \A m \in Made : Len(memory'[m]) <= HistoryLimit BY <1>5, <2>3, <2>4
  <2>2. shown' \in Seq(Runs) BY <1>2
  <2> QED BY <1>1, <1>2, <1>5, <2>1, <2>2 DEF BackendTypeOK
<1>7. MemoryIsShown' /\ EndsAreShown' BY <1>2, <1>3, <1>5, BegunAnewKeeps
<1>8. InTurn'
  <2>1. era \in Nat \ {0} /\ mount <= inUse BY <1>1 DEF InTurn
  <2>2. era' \in Nat \ {0} BY <1>2, <2>1
  <2>3. \A r \in Runs : run[r].era \in Nat
    <3>1. \A r \in Runs : run[r] \in RunState BY <1>1, BackendTypes
    <3> QED BY <3>1 DEF RunState
  <2>4. \A r \in Runs : run'[r].era <= era' BY <1>1, <1>2, <2>1, <2>3 DEF InTurn
  <2>5. \A m \in Made : m > inUse' => memory'[m] = <<>> BY <1>1, <1>2, <1>3, <1>5 DEF InTurn
  <2>6. \A r \in Runs : /\ run'[r].made <= inUse' /\ (run'[r].pc = "new" <=> run'[r].made = 0)
                        /\ run'[r].made = inUse' => run'[r].mount = mount'
    BY <1>1, <1>2 DEF InTurn
  <2> QED BY <1>2, <2>1, <2>2, <2>4, <2>5, <2>6 DEF InTurn
<1>9. AskedForCause' BY <1>1, <1>2 DEF AskedForCause, AskingKeys, Raced
<1> QED BY <1>6, <1>7, <1>8, <1>9 DEF BackendInv

LEMMA MakeKeeps ==
  ASSUME BackendInv, NEW again \in BOOLEAN, MakeBackend(again)
  PROVE  BackendInv'
<1>1. BackendTypeOK /\ InTurn /\ AskedForCause BY DEF BackendInv
<1>2. /\ inUse < MaxMade /\ inUse' = inUse + 1 /\ (mount' = mount \/ mount' = mount + 1) /\ era' = era + 1
      /\ right' = right /\ cached' = cached /\ memory' = memory /\ run' = run /\ shown' = memory[inUse']
  BY DEF MakeBackend
<1>3. inUse \in Nat /\ mount \in Nat /\ inUse # 0 /\ mount <= inUse /\ era \in Nat \ {0} /\ mount # 0 /\ MaxMade \in Nat
  BY <1>1, BackendTypes DEF InTurn, Made
<1>4. inUse' \in Made /\ mount' \in Made /\ mount' <= inUse' /\ inUse' > inUse BY <1>2, <1>3 DEF Made
<1>5. memory[inUse'] = <<>> BY <1>1, <1>4 DEF InTurn
<1>6. shown' = <<>> /\ memory'[inUse'] = <<>> BY <1>2, <1>5
<1>7. BackendTypeOK'
  <2>1. shown' \in Seq(Runs) BY <1>6
  <2> QED BY <1>1, <1>2, <1>4, <2>1 DEF BackendTypeOK
<1>8. MemoryIsShown' /\ EndsAreShown' BY <1>2, <1>6, BegunAnewKeeps
<1>9. InTurn'
  <2>1. \A r \in Runs : run[r] \in RunState BY <1>1, BackendTypes
  <2>2. \A r \in Runs : run[r].era \in Nat /\ run[r].made \in Nat BY <1>3, <2>1 DEF RunState
  <2>3. ASSUME NEW r \in Runs
        PROVE  /\ run'[r].era <= era' /\ run'[r].made <= inUse' /\ (run'[r].pc = "new" <=> run'[r].made = 0)
               /\ run'[r].made # inUse'
    <3>1. /\ run[r].era <= era /\ run[r].made <= inUse /\ (run[r].pc = "new" <=> run[r].made = 0)
          /\ run[r].era \in Nat /\ run[r].made \in Nat
      BY <1>1, <2>2 DEF InTurn
    <3> QED BY <1>2, <1>3, <3>1
  <2>4. \A m \in Made : m > inUse' => memory'[m] = <<>>
    <3>1. \A m \in Made : m \in Nat BY <1>1, BackendTypes
    <3>2. \A m \in Made : m > inUse' => m > inUse BY <1>2, <1>3, <3>1
    <3> QED BY <1>1, <1>2, <3>2 DEF InTurn
  <2>5. era' \in Nat \ {0} BY <1>2, <1>3
  <2> QED BY <1>4, <2>3, <2>4, <2>5 DEF InTurn
<1>10. AskedForCause' BY <1>1, <1>2 DEF AskedForCause, AskingKeys, Raced
<1> QED BY <1>7, <1>8, <1>9, <1>10 DEF BackendInv

\* Nothing of what is related changes when the credentials do
LEMMA BackendSame ==
  ASSUME BackendInv, right' \in 1..MaxRight,
         UNCHANGED <<keep, cached, memory, shown, run>>
  PROVE  BackendInv'
<1>1. BackendTypeOK /\ InTurn /\ AskedForCause /\ MemoryIsShown /\ EndsAreShown BY DEF BackendInv
<1>2. /\ inUse' = inUse /\ mount' = mount /\ era' = era /\ cached' = cached /\ memory' = memory
      /\ shown' = shown /\ run' = run
  BY DEF keep
<1>3. BackendTypeOK' BY <1>1, <1>2 DEF BackendTypeOK
<1>4. OwnShown' = OwnShown BY <1>2 DEF OwnShown
<1>5. MemoryIsShown' BY <1>1, <1>2, <1>4, ShownFits, ShownFitsNext
<1>6. EndsAreShown' BY <1>1, <1>2 DEF EndsAreShown
<1>7. InTurn' BY <1>1, <1>2 DEF InTurn
<1>8. AskedForCause' BY <1>1, <1>2 DEF AskedForCause, AskingKeys, Raced
<1> QED BY <1>3, <1>5, <1>6, <1>7, <1>8 DEF BackendInv

LEMMA BackendStep ==
  ASSUME BackendInv, [BackendNext]_backendVars
  PROVE  /\ BackendInv'
         /\ \A m \in Made : cached[m] # 0 /\ cached'[m] # cached[m] => Raced(m)
<1>1. BackendTypeOK /\ InTurn BY DEF BackendInv
<1> DEFINE Kept == \A m \in Made : cached[m] # 0 /\ cached'[m] # cached[m] => Raced(m)
<1>2. ASSUME NEW r \in Runs, NEW how \in Hows, BeginQuery(r, how) PROVE BackendInv' /\ Kept
  <2>1. cached' = cached BY <1>2 DEF BeginQuery
  <2> QED BY <1>2, <2>1, BeginKeeps
<1>3. ASSUME NEW r \in Runs, ServeKeys(r) PROVE BackendInv' /\ Kept
  <2>1. cached' = cached BY <1>3 DEF ServeKeys
  <2> QED BY <1>3, <2>1, ServeKeeps
<1>4. ASSUME NEW r \in Runs, FetchKeys(r) PROVE BackendInv' /\ Kept BY <1>4, FetchKeeps
<1>5. ASSUME NEW r \in Runs, FailKeys(r) PROVE BackendInv' /\ Kept
  <2>1. run[r].pc \notin {"new", "ended"} /\ Remember(r) /\ UNCHANGED <<keep, right, cached>> BY <1>5 DEF FailKeys
  <2>2. cached' = cached BY <2>1
  <2> QED BY <2>1, <2>2, RememberKeeps
<1>6. ASSUME NEW r \in Runs, EndQuery(r) PROVE BackendInv' /\ Kept
  <2>1. run[r].pc \notin {"new", "ended"} /\ Remember(r) /\ UNCHANGED <<keep, right, cached>> BY <1>6 DEF EndQuery
  <2>2. cached' = cached BY <2>1
  <2> QED BY <2>1, <2>2, RememberKeeps
<1>7. CASE ClearHistory
  <2>1. cached' = cached BY <1>7 DEF ClearHistory
  <2> QED BY <1>7, <2>1, ClearKeeps
<1>8. CASE ChangeCredentials
  <2>1. UNCHANGED <<keep, cached, memory, shown, run>> /\ right' \in 1..MaxRight
    BY <1>1, <1>8, BackendTypes DEF ChangeCredentials
  <2>2. cached' = cached BY <2>1
  <2> QED BY <2>1, <2>2, BackendSame
<1>9. ASSUME NEW again \in BOOLEAN, MakeBackend(again) PROVE BackendInv' /\ Kept
  <2>1. cached' = cached BY <1>9 DEF MakeBackend
  <2> QED BY <1>9, <2>1, MakeKeeps
<1>10. CASE UNCHANGED backendVars
  <2>1. UNCHANGED <<keep, cached, memory, shown, run>> /\ right' \in 1..MaxRight /\ cached' = cached
    BY <1>1, <1>10, BackendTypes DEF backendVars, keep
  <2> QED BY <2>1, BackendSame
<1> QED BY <1>2, <1>3, <1>4, <1>5, <1>6, <1>7, <1>8, <1>9, <1>10 DEF BackendNext

\* For any queries, backends, credentials and any limit: the memory is what is shown of the
\* backend's queries, a query that has ended is shown once, and keys are replaced only by those
\* that were asked for at the same time.
THEOREM BackendHolds ==
  BackendInit /\ [][BackendNext]_backendVars
    => [](BackendTypeOK /\ MemoryIsShown /\ EndsAreShown) /\ KeysKept
<1>1. BackendInit => BackendInv BY InitBackend
<1>2. BackendInv /\ [BackendNext]_backendVars => BackendInv' BY BackendStep
<1>3. BackendInv => BackendTypeOK /\ MemoryIsShown /\ EndsAreShown BY DEF BackendInv
<1>4. BackendInv /\ [BackendNext]_backendVars =>
        [\A m \in Made : cached[m] # 0 /\ cached'[m] # cached[m] =>
           \E r \in Runs : run[r].made = m /\ run[r].raced]_backendVars
  BY BackendStep DEF Raced
<1> QED BY <1>1, <1>2, <1>3, <1>4, PTL DEF KeysKept
-----------------------------------------------------------------------------
(* StarredItems: an account's stars in several browser tabs *)

\* As many stars as clicks, in a store as in localStorage; two of an item only for a button
\* that was clicked as it was drawn before
StarsInv ==
  /\ StarsTypeOK /\ ShownIsStored /\ StarredOnce
  /\ \A t \in Tabs, x \in Items : stars[t][x] <= toggles
  /\ \A x \in Items : persisted[x] <= toggles
  /\ \A x \in Items : persisted[x] <= 1 \/ x \in doubled

LEMMA InitStars == StarsInit => StarsInv
BY StarsAssumption
   DEF StarsInit, StarsInv, StarsTypeOK, ShownIsStored, StarredOnce, NoStars, Bags

\* A list that is written has at most one star more than clicks before
LEMMA PersistKeeps ==
  ASSUME StarsInv, NEW t \in Tabs, NEW bag \in Bags, Persist(t, bag),
         doubled \subseteq doubled', doubled' \subseteq Items,
         \A x \in Items : bag[x] <= toggles + 1 /\ (bag[x] <= 1 \/ x \in doubled')
  PROVE  StarsInv'
<1>1. /\ stars \in [Tabs -> Bags] /\ persisted \in Bags /\ toggles \in Nat /\ toggles \in 0 .. MaxToggles
      /\ drawn \in [Tabs -> SUBSET Items] /\ missed \in [Tabs -> SUBSET Items]
  BY StarsAssumption DEF StarsInv, StarsTypeOK
<1>2. /\ toggles < MaxToggles /\ toggles' = toggles + 1 /\ persisted' = bag /\ drawn' = drawn
      /\ \A u \in Tabs : stars'[u] = IF u = t THEN bag ELSE stars[u]
      /\ \A u \in Tabs : missed'[u] = IF u = t THEN {} ELSE missed[u] \cup {x \in Items : bag[x] # persisted[x]}
  BY <1>1 DEF Persist
<1>3. stars' \in [Tabs -> Bags] /\ missed' \in [Tabs -> SUBSET Items] BY <1>1 DEF Persist
<1>4. toggles' \in 0 .. MaxToggles BY <1>1, <1>2, StarsAssumption
<1>5. StarsTypeOK' BY <1>1, <1>2, <1>3, <1>4 DEF StarsTypeOK
<1>6. ShownIsStored'
  <2> SUFFICES ASSUME NEW u \in Tabs, NEW x \in Items PROVE stars'[u][x] = persisted'[x] \/ x \in missed'[u]
    BY DEF ShownIsStored
  <2>1. stars[u][x] = persisted[x] \/ x \in missed[u] BY DEF StarsInv, ShownIsStored
  <2> QED BY <1>2, <2>1
<1>7. \A u \in Tabs, x \in Items : stars[u][x] <= toggles /\ stars[u][x] \in Nat
  BY <1>1 DEF StarsInv, Bags
<1>8. \A u \in Tabs, x \in Items : stars'[u][x] <= toggles' BY <1>1, <1>2, <1>7
<1>9. StarredOnce' BY <1>2 DEF StarsInv, StarredOnce
<1> QED BY <1>2, <1>5, <1>6, <1>8, <1>9 DEF StarsInv

\* A star more, or one less
LEMMA StarGiven ==
  ASSUME StarsInv, NEW t \in Tabs, NEW x \in Items
  PROVE  /\ toggles < MaxToggles =>
              \E bag \in Bags :
                /\ bag = [stars[t] EXCEPT ![x] = @ + 1]
                /\ \A y \in Items : /\ bag[y] <= toggles + 1
                                    /\ bag[y] <= 1 \/ y \in doubled \/ (y = x /\ HasStar(t, x))
         /\ HasStar(t, x) =>
              \E bag \in Bags :
                /\ bag = [stars[t] EXCEPT ![x] = @ - 1]
                /\ \A y \in Items : bag[y] <= toggles + 1 /\ (bag[y] <= 1 \/ y \in doubled)
<1>1. PICK b \in Bags : b = stars[t] BY DEF StarsInv, StarsTypeOK
<1>2. /\ toggles \in Nat /\ MaxToggles \in Nat
      /\ \A y \in Items : b[y] \in Nat /\ b[y] <= toggles /\ b[y] <= MaxToggles /\ (b[y] <= 1 \/ y \in doubled)
  BY <1>1, StarsAssumption DEF StarsInv, StarsTypeOK, Bags, StarredOnce
<1>3. ASSUME toggles < MaxToggles
      PROVE  \E bag \in Bags :
                /\ bag = [b EXCEPT ![x] = @ + 1]
                /\ \A y \in Items : /\ bag[y] <= toggles + 1
                                    /\ bag[y] <= 1 \/ y \in doubled \/ (y = x /\ b[x] > 0)
  <2>1. PICK bag : bag = [b EXCEPT ![x] = @ + 1] OBVIOUS
  <2>2. bag[x] = b[x] + 1 /\ \A y \in Items : y # x => bag[y] = b[y] BY <2>1 DEF Bags
  <2>3. bag \in Bags BY <1>2, <1>3, <2>1 DEF Bags
  <2>4. ASSUME NEW y \in Items
        PROVE  bag[y] <= toggles + 1 /\ (bag[y] <= 1 \/ y \in doubled \/ (y = x /\ b[x] > 0))
    <3>1. b[y] \in Nat /\ b[y] <= toggles /\ (b[y] <= 1 \/ y \in doubled) /\ toggles \in Nat BY <1>2
    <3>2. CASE y = x BY <2>2, <3>1, <3>2
    <3>3. CASE y # x BY <2>2, <3>1, <3>3
    <3> QED BY <3>2, <3>3
  <2> QED BY <2>1, <2>3, <2>4
<1>4. ASSUME b[x] > 0
      PROVE  \E bag \in Bags :
                /\ bag = [b EXCEPT ![x] = @ - 1]
                /\ \A y \in Items : bag[y] <= toggles + 1 /\ (bag[y] <= 1 \/ y \in doubled)
  <2>1. PICK bag : bag = [b EXCEPT ![x] = @ - 1] OBVIOUS
  <2>2. bag[x] = b[x] - 1 /\ \A y \in Items : y # x => bag[y] = b[y] BY <2>1 DEF Bags
  <2>3. bag \in Bags BY <1>2, <1>4, <2>1 DEF Bags
  <2>4. ASSUME NEW y \in Items
        PROVE  bag[y] <= toggles + 1 /\ (bag[y] <= 1 \/ y \in doubled)
    <3>1. b[y] \in Nat /\ b[y] <= toggles /\ (b[y] <= 1 \/ y \in doubled) /\ toggles \in Nat BY <1>2
    <3>2. CASE y = x BY <2>2, <3>1, <3>2
    <3>3. CASE y # x BY <2>2, <3>1, <3>3
    <3> QED BY <3>2, <3>3
  <2> QED BY <2>1, <2>3, <2>4
<1> QED BY <1>1, <1>3, <1>4 DEF HasStar

LEMMA StarsStep == StarsInv /\ [StarsNext]_starVars => StarsInv'
<1> SUFFICES ASSUME StarsInv, [StarsNext]_starVars PROVE StarsInv' OBVIOUS
<1>0. doubled \subseteq Items /\ toggles \in Nat BY StarsAssumption DEF StarsInv, StarsTypeOK
<1>1. ASSUME NEW t \in Tabs, NEW x \in Items, ToggleStar(t, x) PROVE StarsInv'
  <2>1. CASE x \in drawn[t]
    <3>1. HasStar(t, x) /\ Persist(t, [stars[t] EXCEPT ![x] = @ - 1]) /\ doubled' = doubled
      BY <1>1, <2>1 DEF ToggleStar, RemoveStar
    <3>2. PICK bag \in Bags :
            /\ bag = [stars[t] EXCEPT ![x] = @ - 1]
            /\ \A y \in Items : bag[y] <= toggles + 1 /\ (bag[y] <= 1 \/ y \in doubled)
      BY <3>1, StarGiven
    <3>3. \A y \in Items : bag[y] <= toggles + 1 /\ (bag[y] <= 1 \/ y \in doubled') BY <3>1, <3>2
    <3>4. Persist(t, bag) /\ doubled \subseteq doubled' /\ doubled' \subseteq Items BY <1>0, <3>1, <3>2
    <3> QED BY <3>3, <3>4, PersistKeeps, Zenon
  <2>2. CASE x \notin drawn[t]
    <3>1. /\ Persist(t, [stars[t] EXCEPT ![x] = @ + 1])
          /\ doubled' = IF HasStar(t, x) THEN doubled \cup {x} ELSE doubled
      BY <1>1, <2>2 DEF ToggleStar, AddStar
    <3>2. toggles < MaxToggles BY <3>1 DEF Persist
    <3>3. PICK bag \in Bags :
            /\ bag = [stars[t] EXCEPT ![x] = @ + 1]
            /\ \A y \in Items : /\ bag[y] <= toggles + 1
                                /\ bag[y] <= 1 \/ y \in doubled \/ (y = x /\ HasStar(t, x))
      BY <3>2, StarGiven
    <3>4. \A y \in Items : bag[y] <= toggles + 1 /\ (bag[y] <= 1 \/ y \in doubled') BY <3>1, <3>3
    <3>5. Persist(t, bag) /\ doubled \subseteq doubled' /\ doubled' \subseteq Items BY <1>0, <3>1, <3>3 DEF HasStar
    <3> QED BY <3>4, <3>5, PersistKeeps, Zenon
  <2> QED BY <2>1, <2>2
<1>2. ASSUME NEW t \in Tabs, NEW x \in Items, ToggleInTree(t, x) \/ Unstar(t, x) PROVE StarsInv'
  <2>1. CASE HasStar(t, x)
    <3>1. Persist(t, [stars[t] EXCEPT ![x] = @ - 1]) /\ doubled' = doubled
      BY <1>2, <2>1 DEF ToggleInTree, Unstar, RemoveStar
    <3>2. PICK bag \in Bags :
            /\ bag = [stars[t] EXCEPT ![x] = @ - 1]
            /\ \A y \in Items : bag[y] <= toggles + 1 /\ (bag[y] <= 1 \/ y \in doubled)
      BY <2>1, StarGiven
    <3>3. \A y \in Items : bag[y] <= toggles + 1 /\ (bag[y] <= 1 \/ y \in doubled') BY <3>1, <3>2
    <3>4. Persist(t, bag) /\ doubled \subseteq doubled' /\ doubled' \subseteq Items BY <1>0, <3>1, <3>2
    <3> QED BY <3>3, <3>4, PersistKeeps, Zenon
  <2>2. CASE ~HasStar(t, x)
    <3>1. Persist(t, [stars[t] EXCEPT ![x] = @ + 1]) /\ doubled' = doubled
      BY <1>2, <2>2 DEF ToggleInTree, Unstar, AddStar
    <3>2. toggles < MaxToggles BY <3>1 DEF Persist
    <3>3. PICK bag \in Bags :
            /\ bag = [stars[t] EXCEPT ![x] = @ + 1]
            /\ \A y \in Items : /\ bag[y] <= toggles + 1
                                /\ bag[y] <= 1 \/ y \in doubled \/ (y = x /\ HasStar(t, x))
      BY <3>2, StarGiven
    <3>4. \A y \in Items : bag[y] <= toggles + 1 /\ (bag[y] <= 1 \/ y \in doubled') BY <2>2, <3>1, <3>3
    <3>5. Persist(t, bag) /\ doubled \subseteq doubled' /\ doubled' \subseteq Items BY <1>0, <3>1, <3>3 DEF HasStar
    <3> QED BY <3>4, <3>5, PersistKeeps, Zenon
  <2> QED BY <2>1, <2>2
<1>3. ASSUME NEW t \in Tabs, ClearStars(t) PROVE StarsInv'
  <2>1. PICK bag : bag = NoStars OBVIOUS
  <2>2. bag \in Bags /\ \A y \in Items : bag[y] = 0 BY <2>1, StarsAssumption DEF NoStars, Bags
  <2>3. Persist(t, bag) /\ doubled' = doubled BY <1>3, <2>1 DEF ClearStars
  <2>4. \A y \in Items : bag[y] <= toggles + 1 /\ (bag[y] <= 1 \/ y \in doubled') BY <1>0, <2>2
  <2>5. doubled \subseteq doubled' /\ doubled' \subseteq Items BY <1>0, <2>3
  <2> QED BY <2>2, <2>3, <2>4, <2>5, PersistKeeps, Zenon
<1>4. ASSUME NEW t \in Tabs, DrawAgain(t) PROVE StarsInv'
  <2>1. stars' = stars /\ persisted' = persisted /\ toggles' = toggles /\ doubled' = doubled /\ missed' = missed
    BY <1>4 DEF DrawAgain
  <2>2. drawn' \in [Tabs -> SUBSET Items] BY <1>4 DEF DrawAgain, StarsInv, StarsTypeOK
  <2> QED BY <2>1, <2>2 DEF StarsInv, StarsTypeOK, ShownIsStored, StarredOnce
<1>5. ASSUME NEW t \in Tabs, OpenWorkbench(t) PROVE StarsInv'
  <2>1. /\ stars \in [Tabs -> Bags] /\ persisted \in Bags /\ drawn \in [Tabs -> SUBSET Items]
        /\ missed \in [Tabs -> SUBSET Items]
    BY DEF StarsInv, StarsTypeOK
  <2>2. /\ persisted' = persisted /\ toggles' = toggles /\ doubled' = doubled
        /\ stars' = [stars EXCEPT ![t] = persisted] /\ missed' = [missed EXCEPT ![t] = {}]
        /\ drawn' = [drawn EXCEPT ![t] = {x \in Items : persisted[x] > 0}]
    BY <1>5 DEF OpenWorkbench
  <2>3. stars' \in [Tabs -> Bags] /\ drawn' \in [Tabs -> SUBSET Items] /\ missed' \in [Tabs -> SUBSET Items]
    BY <2>1, <2>2
  <2>4. StarsTypeOK' BY <2>2, <2>3 DEF StarsInv, StarsTypeOK
  <2>5. \A u \in Tabs : /\ stars'[u] = IF u = t THEN persisted ELSE stars[u]
                        /\ missed'[u] = IF u = t THEN {} ELSE missed[u]
    BY <2>1, <2>2
  <2>6. ShownIsStored' BY <2>2, <2>5 DEF StarsInv, ShownIsStored
  <2>7. StarredOnce' BY <2>2, <2>5 DEF StarsInv, StarredOnce
  <2>8. \A u \in Tabs, x \in Items : stars'[u][x] <= toggles' BY <2>2, <2>5 DEF StarsInv
  <2> QED BY <2>2, <2>4, <2>6, <2>7, <2>8 DEF StarsInv
<1>6. CASE UNCHANGED starVars
  BY <1>6 DEF starVars, StarsInv, StarsTypeOK, ShownIsStored, StarredOnce
<1> QED BY <1>1, <1>2, <1>3, <1>4, <1>5, <1>6 DEF StarsNext

\* What a tab shows as starred is what is stored, and once, but for what another tab changed
\* and for buttons that were not drawn again: for any number of tabs, items and clicks.
THEOREM StarsHold == StarsInit /\ [][StarsNext]_starVars => [](StarsTypeOK /\ ShownIsStored /\ StarredOnce)
<1>1. StarsInv => StarsTypeOK /\ ShownIsStored /\ StarredOnce BY DEF StarsInv
<1> QED BY <1>1, InitStars, StarsStep, PTL
-----------------------------------------------------------------------------
(* The workbench *)

\* A step of the whole is a step of each part, or leaves it alone
LEMMA BenchStep ==
  [AllNext]_allVars =>
    /\ [StructureNext]_structureVars /\ [PickerNext]_pickerVars
    /\ [BackendNext]_backendVars /\ [StarsNext]_starVars
<1> SUFFICES ASSUME [AllNext]_allVars
             PROVE  /\ StructureNext \/ UNCHANGED structureVars
                    /\ PickerNext \/ UNCHANGED pickerVars
                    /\ BackendNext \/ UNCHANGED backendVars
                    /\ StarsNext \/ UNCHANGED starVars
  OBVIOUS
<1> QED BY Zenon DEF AllNext, allVars, formVars, accountVars

\* The structure and the columns that are shown are those of the table, the lists of a foreign
\* key those of the choice before them, but for the causes that are named; what was typed
\* into an open dialog survives every answer that arrives.  The history has the queries that
\* ended, the keys are kept, and what is starred is stored once, but for what is named.
THEOREM WorkbenchToldHolds == AllSpec => WorkbenchTold
<1>1. AllSpec => StructureInit /\ PickerInit /\ BackendInit /\ StarsInit BY DEF AllSpec, AllInit
<1>2. AllSpec => /\ [][StructureNext]_structureVars /\ [][PickerNext]_pickerVars
                 /\ [][BackendNext]_backendVars /\ [][StarsNext]_starVars
  BY BenchStep, PTL DEF AllSpec
<1> QED BY <1>1, <1>2, StructureHolds, PickerHolds, BackendHolds, StarsHold, PTL DEF WorkbenchTold
=============================================================================
