------------------------------ MODULE QueryRun ------------------------------
(***************************************************************************)
(* One query from the browser to the audit log (handlers/query.go,         *)
(* handlers/stream.go, client/api.go, api_account.py).                     *)
(*                                                                         *)
(* The query service asks the API whether the user may use the account,    *)
(* runs the query, and starts a goroutine that reports it to the API for   *)
(* the audit log, which checks the user again.  Handler, goroutine, API    *)
(* and the people who change access run side by side, and the service may  *)
(* exit between any two steps.                                             *)
(***************************************************************************)
EXTENDS Naturals

CONSTANTS
  Requests,  \* the requests of one user for one account
  Limit,     \* maxRows of a stream
  MaxRows    \* bound on the rows of a query

ASSUME BoundAssumption == Limit \in Nat \ {0} /\ MaxRows \in Nat

VARIABLES
  may,       \* the session is live, the account active and its access granted
  auditing,  \* workspace.settings.audit_enabled
  service,   \* the life of the query service
  req        \* the requests

vars == <<may, auditing, service, req>>

Request ==
  [pc : {"none", "sent", "passed", "running", "rows", "ended", "logging",
         "done", "panicked", "killed"},
   kind : {"run", "stream", "csv", "lines"},  \* /run, /stream, and the exports
   size : 0 .. MaxRows,            \* rows of the query, within a maximum its client sets
   sent : 0 .. MaxRows,            \* rows read so far, and unless it is a /run written
   begun : BOOLEAN,                \* the answer's body has begun
   ok : BOOLEAN,                   \* the driver returned without an error
   ran : BOOLEAN,                  \* the query was given to the database
   gone : BOOLEAN,                 \* the client has closed its connection
   told : {"nothing", "rows", "truncated", "error"},  \* what the client takes the answer for
   audit : {"none", "calling", "posted", "over"},     \* the goroutine's call of /log
   entries : Nat]                  \* its entries in the audit log

Unmade == [pc |-> "none", kind |-> "run", size |-> 0, sent |-> 0, begun |-> FALSE,
           ok |-> FALSE, ran |-> FALSE, gone |-> FALSE, told |-> "nothing",
           audit |-> "none", entries |-> 0]

Handled == {"sent", "passed", "running", "rows", "ended", "logging"}
Final == {"done", "panicked", "killed"}

TypeOK ==
  /\ may \in BOOLEAN /\ auditing \in BOOLEAN
  /\ service \in {"serving", "draining", "exited"}
  /\ req \in [Requests -> Request]
  /\ \A q \in Requests :
       req[q].sent <= req[q].size /\ (req[q].kind = "stream" => req[q].sent <= Limit)
-----------------------------------------------------------------------------
Init ==
  /\ may \in BOOLEAN /\ auditing \in BOOLEAN
  /\ service = "serving"
  /\ req = [q \in Requests |-> Unmade]

\* Only q changes, and it becomes r
Becomes(q, r) == req' = [req EXCEPT ![q] = r] /\ UNCHANGED <<may, auditing, service>>

\* What the client makes of an answer that ends; one that has left hears nothing
Tells(r, answer) == IF r.gone THEN "nothing" ELSE answer

Cap(r) == IF r.kind = "stream" /\ Limit < r.size THEN Limit ELSE r.size

\* writeExportError says nothing once the body has begun
Outcome(r) ==
  CASE r.ok /\ r.kind = "stream" /\ r.sent >= Limit -> "truncated"
    [] r.ok /\ ~(r.kind = "stream" /\ r.sent >= Limit) -> "rows"
    [] ~r.ok /\ r.kind \in {"csv", "lines"} /\ r.begun -> "rows"
    [] ~r.ok /\ ~(r.kind \in {"csv", "lines"} /\ r.begun) -> "error"
-----------------------------------------------------------------------------
(***************************************************************************)
(* The client and those who decide about its access                        *)
(***************************************************************************)
\* A grant, a revocation, its end, a logout, a deactivation; a change of the settings
ChangeAccess == may' = ~may /\ UNCHANGED <<auditing, service, req>>
ChangeSettings == auditing' = ~auditing /\ UNCHANGED <<may, service, req>>

Submit(q) ==
  /\ service = "serving" /\ req[q].pc = "none"
  /\ \E kind \in {"run", "stream", "csv", "lines"}, n \in 0 .. MaxRows :
       Becomes(q, [req[q] EXCEPT !.pc = "sent", !.kind = kind, !.size = n])

\* Closing the connection ends the context of the query
Leave(q) ==
  /\ req[q].pc \in Handled /\ ~req[q].gone
  /\ Becomes(q, [req[q] EXCEPT !.gone = TRUE])
-----------------------------------------------------------------------------
(***************************************************************************)
(* The handler                                                             *)
(***************************************************************************)
Check(q) ==
  /\ req[q].pc = "sent" /\ may
  /\ Becomes(q, [req[q] EXCEPT !.pc = "passed"])

\* The API refuses, fails or does not answer in 30 seconds; or the format of an export or
\* the type of the database is unknown
Refuse(q) ==
  /\ req[q].pc = "sent"
  /\ Becomes(q, [req[q] EXCEPT !.pc = "done", !.told = Tells(req[q], "error")])

\* The tunnel and the handle are there
Connect(q) ==
  /\ req[q].pc = "passed"
  /\ Becomes(q, [req[q] EXCEPT !.pc = "running", !.ran = TRUE])

ConnectFails(q) ==
  /\ req[q].pc = "passed"
  /\ Becomes(q, [req[q] EXCEPT !.pc = "ended"])

\* onColumns: a stream writes its meta event, a CSV file its header
Columns(q) ==
  /\ req[q].pc = "running"
  /\ Becomes(q, [req[q] EXCEPT !.pc = "rows", !.begun = req[q].kind \in {"stream", "csv"}])

\* Mutant: the loop over the rows has no limit
RowUnlimited(q) ==
  /\ req[q].pc = "rows" /\ req[q].sent < req[q].size
  /\ Becomes(q, [req[q] EXCEPT !.sent = @ + 1, !.begun = req[q].kind # "run"])

Row(q) ==
  /\ req[q].pc = "rows" /\ req[q].sent < Cap(req[q])
  /\ Becomes(q, [req[q] EXCEPT !.sent = @ + 1, !.begun = req[q].kind # "run"])

End(q) ==
  /\ req[q].pc = "rows" /\ req[q].sent = Cap(req[q])
  /\ Becomes(q, [req[q] EXCEPT !.pc = "ended", !.ok = TRUE])

\* Mutant: the query has no deadline of its own
BreakIfGone(q) ==
  /\ req[q].pc \in {"running", "rows"} /\ req[q].gone
  /\ Becomes(q, [req[q] EXCEPT !.pc = "ended"])

\* The deadline, a client that has left, an error of the database or of a column that
\* was asked for
Break(q) ==
  /\ req[q].pc \in {"running", "rows"}
  /\ Becomes(q, [req[q] EXCEPT !.pc = "ended"])

\* Recoverer answers a panic with status 500 and an object.  A client that has part of the
\* body cannot see the status, and takes the object for a line it does not know.
Panic(q) ==
  /\ req[q].pc \in {"passed", "running", "rows"}
  /\ LET answer == IF req[q].begun THEN "rows" ELSE "error"
     IN  Becomes(q, [req[q] EXCEPT !.pc = "panicked", !.told = Tells(req[q], answer)])

\* Mutant: the call of /log is bound to the context of the request
AuditUnlessGone(q) ==
  /\ req[q].pc = "ended"
  /\ Becomes(q, [req[q] EXCEPT !.pc = "logging",
                               !.audit = IF req[q].gone THEN "over" ELSE "calling"])

\* go func() of the call of /log
Audit(q) ==
  /\ req[q].pc = "ended"
  /\ Becomes(q, [req[q] EXCEPT !.pc = "logging", !.audit = "calling"])

\* Mutant: the limit is taken for reached only when it is passed
AnswerPassed(q) ==
  /\ req[q].pc = "logging"
  /\ LET r == req[q]
         answer == IF r.ok THEN "rows" ELSE Outcome(r)
     IN  Becomes(q, [r EXCEPT !.pc = "done", !.told = Tells(r, answer)])

\* The last event, the result or the end of the body
Answer(q) ==
  /\ req[q].pc = "logging"
  /\ Becomes(q, [req[q] EXCEPT !.pc = "done", !.told = Tells(req[q], Outcome(req[q]))])
-----------------------------------------------------------------------------
(***************************************************************************)
(* The goroutine and /log                                                  *)
(***************************************************************************)
Post(q) ==
  /\ req[q].audit = "calling"
  /\ Becomes(q, [req[q] EXCEPT !.audit = "posted"])

\* Mutant: an answer that does not come in time is asked for again
RecordAgain(q) ==
  /\ req[q].audit = "posted"
  /\ \E again \in BOOLEAN :
       Becomes(q, [req[q] EXCEPT !.audit = IF again THEN "calling" ELSE "over",
                                 !.entries = IF may /\ auditing THEN @ + 1 ELSE @])

\* log_query asks again whether the user may use the account.  Neither a refusal nor the
\* switch in the settings is an error to the caller.
Record(q) ==
  /\ req[q].audit = "posted"
  /\ Becomes(q, [req[q] EXCEPT !.audit = "over",
                               !.entries = IF may /\ auditing THEN @ + 1 ELSE @])

\* The API is not reached in 10 seconds, or fails
CallFails(q) ==
  /\ req[q].audit \in {"calling", "posted"}
  /\ Becomes(q, [req[q] EXCEPT !.audit = "over"])
-----------------------------------------------------------------------------
(***************************************************************************)
(* The process.  Shutdown waits for handlers, not for goroutines; a call   *)
(* that has reached the API is served there all the same.                  *)
(***************************************************************************)
Drain ==
  /\ service = "serving"
  /\ service' = "draining"
  /\ UNCHANGED <<may, auditing, req>>

Killed(r) ==
  [r EXCEPT !.pc = IF r.pc \in Handled THEN "killed" ELSE r.pc,
            !.told = IF r.pc \in Handled THEN Tells(r, "error") ELSE r.told,
            !.audit = IF r.audit = "calling" THEN "over" ELSE r.audit]

\* main returns when Shutdown has, after 5 seconds it exits; or the process dies
Exit ==
  /\ service # "exited"
  /\ service' = "exited"
  /\ req' = [q \in Requests |-> Killed(req[q])]
  /\ UNCHANGED <<may, auditing>>

Next ==
  \/ ChangeAccess \/ ChangeSettings \/ Drain \/ Exit
  \/ \E q \in Requests :
       \/ Submit(q) \/ Leave(q)
       \/ Check(q) \/ Refuse(q) \/ Connect(q) \/ ConnectFails(q)
       \/ Columns(q) \/ Row(q) \/ End(q) \/ Break(q) \/ Panic(q)
       \/ Audit(q) \/ Answer(q)
       \/ Post(q) \/ Record(q) \/ CallFails(q)

\* Every wait has a deadline: the call of /check, the connection, the query and the call of
\* /log.  The database need not answer.
Fairness ==
  \A q \in Requests :
    /\ WF_vars(Refuse(q)) /\ WF_vars(ConnectFails(q)) /\ WF_vars(Break(q))
    /\ WF_vars(Audit(q)) /\ WF_vars(Answer(q)) /\ WF_vars(CallFails(q))

Spec == Init /\ [][Next]_vars /\ Fairness
-----------------------------------------------------------------------------
(***************************************************************************)
(* Properties                                                              *)
(***************************************************************************)
\* A client that takes its answer for the whole result has the whole result, but for two
\* cases: an export that fails after its body has begun, and a panic after that
\* (StreamQuery, writeExportError, Recoverer).
WholeOrTold ==
  \A q \in Requests :
    LET r == req[q] IN
    r.told = "rows" /\ r.sent # r.size =>
      \/ r.kind \in {"csv", "lines"} /\ ~r.ok /\ r.begun
      \/ r.kind # "run" /\ r.pc = "panicked" /\ r.begun

\* A query has one entry at most, made after it has ended, for one that passed the check
\* (the goroutines, log_query).
OneEntryPerRun ==
  \A q \in Requests :
    req[q].entries # 0 =>
      /\ req[q].entries = 1 /\ req[q].audit = "over"
      /\ req[q].pc \in {"logging", "done", "killed"}

\* The query ran, and nothing is left that would record it
Missed(q) ==
  /\ req[q].ran /\ req[q].entries = 0
  /\ req[q].audit = "over" \/ (req[q].audit = "none" /\ req[q].pc \in Final)

\* A query that ran stays out of the audit log in four ways only: the user may no longer
\* use the account when it is reported, or auditing is off by then; the call of /log
\* fails; the service exits; the handler panics.  An error of the query, its deadline or
\* a client that has left are not among them.
MissedForCause ==
  [][\A q \in Requests :
       ~Missed(q) /\ Missed(q)' =>
         \/ req[q].audit = "posted" /\ (~may \/ ~auditing)
         \/ CallFails(q) \/ Panic(q) \/ Exit]_vars

\* Every request comes to an end and so does its report, whatever the database does.
EveryQuerySettles ==
  \A q \in Requests :
    req[q].pc = "sent" ~> req[q].pc \in Final /\ req[q].audit \in {"none", "over"}
=============================================================================
