--------------------------- MODULE TableTabProofs ---------------------------
(***************************************************************************)
(* Proofs about TableTab, for any number of requests, rows and windows.    *)
(***************************************************************************)
EXTENDS MCTableTab, FiniteSetTheorems, WellFoundedInduction, TLAPS

Request1(x) ==
  /\ x.sent <= x.size
  /\ x.pc \in {"ended"} => x.sent = x.size \/ x.cut
  /\ x.pc \in {"estimate", "count"} => ~x.filtered

RequestsOK ==
  \A r \in Requests : Request1(req[r]) /\ (r > latest => req[r].pc = "none")

\* Before the first request nothing is there to show
Blank == latest = 0 => rows = {} /\ buffer = {} /\ status = "idle"

\* Once the rows of the latest request are all shown, no flush is left that could take some away
Whole ==
  status = "success" =>
    /\ latest # 0 /\ buffer = {}
    /\ req[latest].pc = "done" /\ shown = Received(latest)
    /\ req[latest].sent = req[latest].size \/ req[latest].cut

Inv == TypeOK /\ RequestsOK /\ Blank /\ NoMixedRows /\ Whole

LEMMA RequestsNat == Requests \subseteq Nat /\ 0 \notin Requests
BY BoundAssumption DEF Requests

LEMMA UnmadeType == Unmade \in Request /\ Unmade.pc = "none" /\ Request1(Unmade)
BY BoundAssumption DEF Unmade, Request, Request1

LEMMA InitInv == Init => Inv
<1> SUFFICES ASSUME Init PROVE Inv OBVIOUS
<1>1. TypeOK
  <2>1. total \in BOOLEAN BY Zenon DEF Init
  <2>2. req \in [Requests -> Request] BY UnmadeType DEF Init
  <2>3. latest \in 0 .. MaxRequests BY BoundAssumption DEF Init
  <2> QED BY <2>1, <2>2, <2>3 DEF Init, TypeOK, NoRequest
<1>2. RequestsOK BY UnmadeType DEF Init, RequestsOK
<1>3. Blank /\ NoMixedRows /\ Whole BY DEF Init, Blank, NoMixedRows, Whole
<1> QED BY <1>1, <1>2, <1>3 DEF Inv

\* One request moves on
LEMMA Moves ==
  ASSUME Inv, NEW r \in Requests, NEW x \in Request, req' = [req EXCEPT ![r] = x],
         req[r].pc # "none", latest' = latest, x.sent >= req[r].sent, Request1(x)
  PROVE  /\ req' \in [Requests -> Request] /\ req'[r] = x
         /\ \A q \in Requests : q # r => req'[q] = req[q] /\ Received(q)' = Received(q)
         /\ r <= latest /\ latest # 0
         /\ RequestsOK'
         /\ \A q \in Requests : Received(q) \subseteq Received(q)'
<1>1. req' \in [Requests -> Request] /\ req'[r] = x BY DEF Inv, TypeOK
<1>2. \A q \in Requests : q # r => req'[q] = req[q] BY DEF Inv, TypeOK
<1>3. \A q \in Requests : q # r => Received(q)' = Received(q) BY <1>2 DEF Received
<1>4. r <= latest /\ latest # 0
  BY RequestsNat, BoundAssumption DEF Inv, TypeOK, RequestsOK
<1>5. RequestsOK'
  <2> SUFFICES ASSUME NEW q \in Requests
               PROVE  Request1(req'[q]) /\ (q > latest => req'[q].pc = "none")
    BY DEF RequestsOK, Request1
  <2>1. CASE q = r BY <1>1, <1>4, <2>1, RequestsNat DEF Inv, TypeOK
  <2>2. CASE q # r BY <1>2, <2>2 DEF Inv, RequestsOK
  <2> QED BY <2>1, <2>2
<1>6. Received(r) \subseteq Received(r)'
  <2>1. req[r].sent \in Nat /\ x.sent \in Nat BY BoundAssumption DEF Inv, TypeOK, Request
  <2> QED BY <1>1, <2>1 DEF Received
<1> QED BY <1>1, <1>2, <1>3, <1>4, <1>5, <1>6

\* What a request was sent are rows
LEMMA ReceivedRows ==
  ASSUME Inv, NEW r \in Requests
  PROVE  Received(r) \subseteq Row /\ \A a \in Received(r) : a[1] = r
<1>1. req[r].sent \in 0 .. MaxRows BY DEF Inv, TypeOK, Request
<1> QED BY <1>1, BoundAssumption DEF Received, Row

LEMMA LatestType == ASSUME Inv PROVE latest \in Nat /\ (latest # 0 => latest \in Requests)
BY BoundAssumption DEF Inv, TypeOK, Requests

\* A flush, or none, with the requests as they are but for one
LEMMA Flushes ==
  ASSUME Inv, NEW r \in Requests, r <= latest, Flush(r)
  PROVE  /\ rows' \subseteq Row /\ buffer' \subseteq Row /\ shown' \subseteq Row
         /\ rows' \cup buffer' \subseteq Received(latest)
         /\ \A a, b \in shown' : a[1] = b[1]
         /\ buffer = {} => UNCHANGED <<rows, buffer, shown>>
<1>1. latest \in Requests BY LatestType, RequestsNat
<1>2. rows \cup buffer \subseteq Received(latest) BY <1>1, RequestsNat DEF Inv, NoMixedRows
<1> QED BY <1>1, <1>2, ReceivedRows DEF Flush, Inv, TypeOK, NoMixedRows
-----------------------------------------------------------------------------
LEMMA BeginKeeps == ASSUME Inv, NEW filtered \in BOOLEAN, Begin(filtered) PROVE Inv'
<1> DEFINE r == latest + 1
<1>1. PICK n \in 0 .. MaxRows :
        req' = [req EXCEPT ![r] =
                  [pc |-> IF ~filtered /\ window \notin Manual THEN "estimate" ELSE "asked",
                   filtered |-> filtered,
                   window |-> IF ~filtered /\ window \notin Manual THEN None ELSE window,
                   size |-> n, sent |-> 0, cut |-> FALSE]]
  BY DEF Begin
<1> DEFINE x == [pc |-> IF ~filtered /\ window \notin Manual THEN "estimate" ELSE "asked",
                 filtered |-> filtered,
                 window |-> IF ~filtered /\ window \notin Manual THEN None ELSE window,
                 size |-> n, sent |-> 0, cut |-> FALSE]
<1>2. /\ r \in Requests /\ latest' = r
      /\ rows' = {} /\ buffer' = {} /\ timer' = NoRequest /\ status' = "loading"
      /\ total' = (total /\ ~filtered) /\ UNCHANGED <<window, shown>>
      /\ req' = [req EXCEPT ![r] = x]
  BY <1>1 DEF Begin
<1>3. x \in Request /\ Request1(x)
  BY BoundAssumption DEF Request, Request1, Inv, TypeOK
<1> HIDE DEF x
<1>4. \A q \in Requests : req'[q] = IF q = r THEN x ELSE req[q] BY <1>2 DEF Inv, TypeOK
<1>5. TypeOK'
  <2>1. latest' \in 0 .. MaxRequests /\ total' \in BOOLEAN
    BY <1>2, BoundAssumption DEF Inv, TypeOK, Requests
  <2> QED BY <1>2, <1>3, <2>1 DEF Inv, TypeOK
<1>6. RequestsOK'
  <2> SUFFICES ASSUME NEW q \in Requests
               PROVE  Request1(req'[q]) /\ (q > latest' => req'[q].pc = "none")
    BY DEF RequestsOK, Request1
  <2>1. latest \in Nat /\ q \in Nat BY LatestType, RequestsNat
  <2>2. CASE q = r BY <1>2, <1>3, <1>4, <2>1, <2>2
  <2>3. CASE q # r BY <1>2, <1>4, <2>1, <2>3 DEF Inv, RequestsOK
  <2> QED BY <2>2, <2>3
<1>7. Blank' /\ NoMixedRows' /\ Whole' BY <1>2, LatestType, RequestsNat DEF Inv, Blank, NoMixedRows, Whole
<1> QED BY <1>5, <1>6, <1>7 DEF Inv

\* A step that moves a request and leaves the grid alone
LEMMA QuietKeeps ==
  ASSUME Inv, NEW r \in Requests, NEW x \in Request, req' = [req EXCEPT ![r] = x],
         req[r].pc \notin {"none", "done"}, x.sent = req[r].sent, Request1(x),
         UNCHANGED <<window, shown, latest, rows, buffer, timer>>, total' \in BOOLEAN,
         \/ status' = status
         \/ status' = "error"
  PROVE  Inv'
<1>1. x.sent >= req[r].sent BY BoundAssumption DEF Inv, TypeOK, Request
<1>2. /\ req' \in [Requests -> Request] /\ RequestsOK' /\ latest # 0
      /\ \A q \in Requests : q # r => req'[q] = req[q] /\ Received(q)' = Received(q)
      /\ \A q \in Requests : Received(q) \subseteq Received(q)'
  BY <1>1, Moves
<1>3. TypeOK' BY <1>2 DEF Inv, TypeOK
<1>4. Blank' BY <1>2 DEF Blank
<1>5. latest \in Requests BY <1>2, LatestType
<1>6. NoMixedRows' BY <1>2, <1>5 DEF Inv, NoMixedRows
<1>7. Whole' BY <1>2, <1>5 DEF Inv, Whole
<1> QED BY <1>2, <1>3, <1>4, <1>6, <1>7 DEF Inv

LEMMA CountKeeps == ASSUME Inv, NEW r \in Requests, Estimate(r) \/ Count(r) PROVE Inv'
<1> DEFINE x == [req[r] EXCEPT !.pc = "asked", !.window = window]
           y == [req[r] EXCEPT !.pc = "count"]
<1>1. /\ req[r].pc \in {"estimate", "count"} /\ req[r] \in Request /\ Request1(req[r])
      /\ window \in Windows
  BY DEF Estimate, Count, Inv, TypeOK, RequestsOK
<1>2. x \in Request /\ x.sent = req[r].sent /\ Request1(x) BY <1>1 DEF Request, Request1
<1>3. y \in Request /\ y.sent = req[r].sent /\ Request1(y) BY <1>1 DEF Request, Request1
<1>4. req' = [req EXCEPT ![r] = x] \/ req' = [req EXCEPT ![r] = y]
  BY DEF Estimate, Count, Ask, Goto
<1>5. UNCHANGED <<window, shown, status, latest, rows, buffer, timer>> /\ total' \in BOOLEAN
  BY DEF Estimate, Count, refVars, Inv, TypeOK
<1> HIDE DEF x, y
<1> QED BY <1>1, <1>2, <1>3, <1>4, <1>5, QuietKeeps

LEMMA FailKeeps == ASSUME Inv, NEW r \in Requests, Fail(r) PROVE Inv'
<1> DEFINE x == [req[r] EXCEPT !.pc = "failed"]
<1>1. req[r].pc \in {"asked", "stream"} /\ req[r] \in Request /\ Request1(req[r])
  BY DEF Fail, Inv, TypeOK, RequestsOK
<1>2. x \in Request /\ x.sent = req[r].sent /\ Request1(x) BY <1>1 DEF Request, Request1
<1>3. /\ req' = [req EXCEPT ![r] = x] /\ status' \in {status, "error"}
      /\ UNCHANGED <<window, total, shown, latest, rows, buffer, timer>>
  BY DEF Fail, Goto, refVars
<1> HIDE DEF x
<1> QED BY <1>1, <1>2, <1>3, QuietKeeps DEF Inv, TypeOK

LEMMA ColumnsKeeps == ASSUME Inv, NEW r \in Requests, Columns(r) PROVE Inv'
<1> DEFINE x == [req[r] EXCEPT !.pc = "stream"]
<1>1. req[r].pc = "asked" /\ req[r] \in Request /\ Request1(req[r])
  BY DEF Columns, Inv, TypeOK, RequestsOK
<1>2. x \in Request /\ x.sent = req[r].sent /\ Request1(x) /\ x.pc = "stream"
  BY <1>1 DEF Request, Request1
<1>3. /\ req' = [req EXCEPT ![r] = x] /\ shown' = IF r = latest THEN rows ELSE shown
      /\ UNCHANGED <<window, total, status, latest, rows, buffer, timer>>
  BY DEF Columns, Goto, refVars
<1> HIDE DEF x
<1>4. x.sent >= req[r].sent BY <1>1, <1>2, BoundAssumption DEF Request
<1>5. /\ req' \in [Requests -> Request] /\ RequestsOK' /\ latest # 0
      /\ \A q \in Requests : q # r => req'[q] = req[q] /\ Received(q)' = Received(q)
      /\ \A q \in Requests : Received(q) \subseteq Received(q)'
  BY <1>1, <1>2, <1>3, <1>4, Moves
<1>6. latest \in Requests BY <1>5, LatestType
<1>7. TypeOK' BY <1>3, <1>5 DEF Inv, TypeOK
<1>8. Blank' BY <1>3, <1>5 DEF Blank
<1>9. NoMixedRows'
  BY <1>3, <1>5, <1>6, ReceivedRows DEF Inv, NoMixedRows
<1>10. Whole' BY <1>1, <1>3, <1>5, <1>6 DEF Inv, Whole
<1> QED BY <1>5, <1>7, <1>8, <1>9, <1>10 DEF Inv

LEMMA ReceiveKeeps == ASSUME Inv, NEW r \in Requests, Receive(r) PROVE Inv'
<1> DEFINE x == [req[r] EXCEPT !.sent = req[r].sent + 1]
<1>1. /\ req[r].pc = "stream" /\ req[r].sent < req[r].size /\ req[r] \in Request
      /\ Request1(req[r])
  BY DEF Receive, Inv, TypeOK, RequestsOK
<1>2. x \in Request /\ x.sent = req[r].sent + 1 /\ x.sent >= req[r].sent /\ Request1(x)
  BY <1>1, BoundAssumption DEF Request, Request1
<1>3. /\ req' = [req EXCEPT ![r] = x]
      /\ IF r = latest
         THEN buffer' = buffer \cup {<<r, req[r].sent + 1>>} /\ timer' = r
         ELSE UNCHANGED <<buffer, timer>>
      /\ UNCHANGED <<window, total, status, shown, latest, rows>>
  BY DEF Receive, storeVars
<1> HIDE DEF x
<1>5. /\ req' \in [Requests -> Request] /\ RequestsOK' /\ latest # 0 /\ req'[r] = x
      /\ \A q \in Requests : q # r => req'[q] = req[q] /\ Received(q)' = Received(q)
      /\ \A q \in Requests : Received(q) \subseteq Received(q)'
  BY <1>1, <1>2, <1>3, Moves
<1>6. latest \in Requests BY <1>5, LatestType
<1>7. <<r, req[r].sent + 1>> \in Received(r)' /\ <<r, req[r].sent + 1>> \in Row
  BY <1>1, <1>2, <1>5, BoundAssumption DEF Received, Row, Request
<1>8. TypeOK' BY <1>3, <1>5, <1>7 DEF Inv, TypeOK
<1>9. Blank' BY <1>3, <1>5 DEF Blank
<1>10. NoMixedRows' BY <1>3, <1>5, <1>6, <1>7 DEF Inv, NoMixedRows
<1>11. Whole' BY <1>1, <1>3, <1>5, <1>6 DEF Inv, Whole
<1> QED BY <1>5, <1>8, <1>9, <1>10, <1>11 DEF Inv

LEMMA EndKeeps ==
  ASSUME Inv, NEW r \in Requests, NEW x \in Request,
         req[r].pc = "stream", req' = [req EXCEPT ![r] = x], Flush(r),
         x.pc = "ended", x.filtered = req[r].filtered, x.window = req[r].window,
         x.size = req[r].size, x.sent = req[r].sent, x.sent = x.size \/ x.cut,
         UNCHANGED <<window, total, status, latest, timer>>
  PROVE Inv'
<1>1. req[r].pc = "stream" /\ req[r] \in Request /\ Request1(req[r])
  BY DEF Inv, TypeOK, RequestsOK
<1>2. x \in Request /\ x.sent = req[r].sent /\ Request1(x)
  BY <1>1, BoundAssumption DEF Request, Request1
<1>3. /\ req' = [req EXCEPT ![r] = x] /\ Flush(r)
      /\ UNCHANGED <<window, total, status, latest, timer>>
  OBVIOUS
<1>4. x.sent >= req[r].sent BY <1>1, <1>2, BoundAssumption DEF Request
<1>5. /\ req' \in [Requests -> Request] /\ RequestsOK' /\ latest # 0 /\ r <= latest
      /\ \A q \in Requests : q # r => req'[q] = req[q] /\ Received(q)' = Received(q)
      /\ \A q \in Requests : Received(q) \subseteq Received(q)'
  BY <1>1, <1>2, <1>3, <1>4, Moves
<1>6. latest \in Requests BY <1>5, LatestType
<1>7. /\ rows' \subseteq Row /\ buffer' \subseteq Row /\ shown' \subseteq Row
      /\ rows' \cup buffer' \subseteq Received(latest)
      /\ \A a, b \in shown' : a[1] = b[1]
      /\ buffer = {} => UNCHANGED <<rows, buffer, shown>>
  BY <1>3, <1>5, Flushes
<1>8. TypeOK' BY <1>3, <1>5, <1>7 DEF Inv, TypeOK
<1>9. Blank' BY <1>3, <1>5 DEF Blank
<1>10. NoMixedRows' BY <1>3, <1>5, <1>6, <1>7 DEF NoMixedRows
<1>11. Whole' BY <1>1, <1>3, <1>5, <1>6, <1>7 DEF Inv, Whole
<1> QED BY <1>5, <1>8, <1>9, <1>10, <1>11 DEF Inv

LEMMA CompleteKeeps == ASSUME Inv, NEW r \in Requests, Complete(r) PROVE Inv'
<1> DEFINE x == [req[r] EXCEPT !.pc = "ended"]
<1>1. req[r].pc = "stream" /\ req[r] \in Request /\ req[r].sent = req[r].size
  BY DEF Complete, Inv, TypeOK
<1>2. /\ x \in Request /\ x.pc = "ended" /\ x.filtered = req[r].filtered
      /\ x.window = req[r].window /\ x.size = req[r].size /\ x.sent = req[r].sent
      /\ x.sent = x.size
  BY <1>1 DEF Request
<1>3. req' = [req EXCEPT ![r] = x] BY DEF Complete, Goto
<1>4. Flush(r) /\ UNCHANGED <<window, total, status, latest, timer>> BY DEF Complete
<1> HIDE DEF x
<1> QED BY <1>1, <1>2, <1>3, <1>4, EndKeeps

LEMMA CutKeeps == ASSUME Inv, NEW r \in Requests, Cut(r) PROVE Inv'
<1> DEFINE x == [req[r] EXCEPT !.pc = "ended", !.cut = TRUE]
<1>1. req[r].pc = "stream" /\ req[r] \in Request BY DEF Cut, Inv, TypeOK
<1>2. /\ x \in Request /\ x.pc = "ended" /\ x.filtered = req[r].filtered
      /\ x.window = req[r].window /\ x.size = req[r].size /\ x.sent = req[r].sent
      /\ x.cut = TRUE
  BY <1>1 DEF Request
<1>3. req' = [req EXCEPT ![r] = x] BY DEF Cut
<1>4. Flush(r) /\ UNCHANGED <<window, total, status, latest, timer>> BY DEF Cut
<1> HIDE DEF x
<1> QED BY <1>1, <1>2, <1>3, <1>4, EndKeeps

LEMMA ReturnKeeps == ASSUME Inv, NEW r \in Requests, Return(r) PROVE Inv'
<1> DEFINE x == [req[r] EXCEPT !.pc = "done"]
<1>1. req[r].pc \in {"ended", "failed"} /\ req[r] \in Request /\ Request1(req[r])
  BY DEF Return, Inv, TypeOK, RequestsOK
<1>2. /\ x \in Request /\ x.sent = req[r].sent /\ Request1(x)
      /\ x.pc = "done" /\ x.size = req[r].size /\ x.cut = req[r].cut
  BY <1>1 DEF Request, Request1
<1>3. req' = [req EXCEPT ![r] = x] /\ UNCHANGED <<window, total, latest, timer>>
  BY DEF Return, Goto
<1> HIDE DEF x
<1>4. CASE r # latest \/ req[r].pc = "failed"
  <2>1. UNCHANGED <<shown, rows, buffer>> /\ status' \in {status, "error"}
    BY <1>1, <1>4 DEF Return
  <2> QED BY <1>1, <1>2, <1>3, <2>1, QuietKeeps DEF Inv, TypeOK
<1>5. CASE r = latest /\ req[r].pc = "ended"
  <2>1. /\ status' = "success" /\ shown' = Received(r)
        /\ rows' = rows \cup buffer /\ buffer' = {}
    BY <1>5 DEF Return
  <2>2. x.sent >= req[r].sent BY <1>1, <1>2, BoundAssumption DEF Request
  <2>3. /\ req' \in [Requests -> Request] /\ RequestsOK' /\ latest # 0 /\ req'[r] = x
        /\ Received(r) \subseteq Received(r)'
    BY <1>1, <1>2, <1>3, <2>2, Moves
  <2>4. Received(r)' = Received(r) BY <1>2, <2>3 DEF Received
  <2>5. TypeOK' BY <1>3, <2>1, <2>3, ReceivedRows DEF Inv, TypeOK
  <2>6. Blank' BY <1>3, <2>3 DEF Blank
  <2>7. NoMixedRows'
    BY <1>3, <1>5, <2>1, <2>3, <2>4, ReceivedRows DEF Inv, NoMixedRows
  <2>8. Whole' BY <1>1, <1>2, <1>3, <1>5, <2>1, <2>3, <2>4 DEF Whole, Request1
  <2> QED BY <2>3, <2>5, <2>6, <2>7, <2>8 DEF Inv
<1> QED BY <1>1, <1>4, <1>5

LEMMA TimerKeeps == ASSUME Inv, TimerFires PROVE Inv'
<1>1. /\ timer = latest /\ latest # 0 /\ timer' = NoRequest /\ Flush(latest)
      /\ UNCHANGED <<window, total, status, latest, req>>
  BY DEF TimerFires, Inv, TypeOK, NoRequest
<1>2. latest \in Requests /\ latest <= latest BY <1>1, LatestType
<1>3. /\ rows' \subseteq Row /\ buffer' \subseteq Row /\ shown' \subseteq Row
      /\ rows' \cup buffer' \subseteq Received(latest)
      /\ \A a, b \in shown' : a[1] = b[1]
      /\ buffer = {} => UNCHANGED <<rows, buffer, shown>>
  BY <1>1, <1>2, Flushes
<1>4. TypeOK' BY <1>1, <1>3 DEF Inv, TypeOK
<1>5. RequestsOK' BY <1>1 DEF Inv, RequestsOK, Request1
<1>6. Received(latest)' = Received(latest) BY <1>1 DEF Received
<1>7. Blank' /\ NoMixedRows' BY <1>1, <1>3, <1>6 DEF Blank, NoMixedRows
<1>8. Whole' BY <1>1, <1>3, <1>6 DEF Inv, Whole
<1> QED BY <1>4, <1>5, <1>7, <1>8 DEF Inv

LEMMA StillKeeps ==
  ASSUME Inv, window' \in Windows, UNCHANGED <<total, status, shown, latest, rows, buffer, timer, req>>
  PROVE  Inv'
<1>1. TypeOK' BY DEF Inv, TypeOK
<1>2. RequestsOK' BY DEF Inv, RequestsOK, Request1
<1>3. Blank' /\ NoMixedRows' /\ Whole' BY DEF Inv, Blank, NoMixedRows, Whole, Received
<1> QED BY <1>1, <1>2, <1>3 DEF Inv

LEMMA NextInv == Inv /\ [Next]_vars => Inv'
<1> SUFFICES ASSUME Inv, [Next]_vars PROVE Inv' OBVIOUS
<1>1. ASSUME NEW filtered \in BOOLEAN, Begin(filtered) PROVE Inv' BY <1>1, BeginKeeps
<1>2. ASSUME NEW v \in Windows, SetWindow(v) PROVE Inv'
  BY <1>2, StillKeeps DEF SetWindow, refVars
<1>3. ASSUME NEW r \in Requests, Answer(r) PROVE Inv'
  BY <1>3, CountKeeps, ColumnsKeeps, ReceiveKeeps, CompleteKeeps, CutKeeps, FailKeeps, ReturnKeeps DEF Answer
<1>4. CASE TimerFires BY <1>4, TimerKeeps
<1>5. CASE UNCHANGED vars
  BY <1>5, StillKeeps DEF vars, storeVars, refVars, Inv, TypeOK
<1> QED BY <1>1, <1>2, <1>3, <1>4, <1>5 DEF Next

LEMMA InvHolds == Spec => []Inv
BY InitInv, NextInv, PTL DEF Spec

\* Every reachable state is type-correct, and a timer is of the latest request.
THEOREM TypeCorrect == Spec => []TypeOK
BY InvHolds, PTL DEF Inv

\* The grid never mixes the rows of two requests.
THEOREM NoMixedRowsHolds == Spec => []NoMixedRows
BY InvHolds, PTL DEF Inv

\* Success is about the latest request and shows every row it was sent.
THEOREM SuccessIsWholeHolds == Spec => []SuccessIsWhole
<1>1. Inv => SuccessIsWhole BY DEF Inv, Whole, SuccessIsWhole
<1> QED BY <1>1, InvHolds, PTL
-----------------------------------------------------------------------------
\* The total of the table is shown over filtered rows only by a request that was overtaken.
THEOREM WrongTotalOvertakenHolds == Spec => WrongTotalOvertaken
<1> DEFINE Late == \E r \in Requests :
                     /\ r < latest /\ ~req[r].filtered
                     /\ req[r].pc \in {"estimate", "count"} /\ req'[r].pc = "asked"
<1>1. ASSUME Inv, [Next]_vars, ~WrongTotal, WrongTotal' PROVE Late
  <2>1. ASSUME NEW filtered \in BOOLEAN, Begin(filtered) PROVE FALSE
    <3>1. latest + 1 \in Requests /\ latest' = latest + 1 /\ total' = (total /\ ~filtered)
      BY <2>1 DEF Begin
    <3>2. req'[latest + 1].filtered = filtered BY <1>1, <2>1, <3>1 DEF Begin, Inv, TypeOK
    <3> QED BY <1>1, <3>1, <3>2 DEF WrongTotal
  <2>2. ASSUME NEW r \in Requests, Estimate(r) \/ Count(r) PROVE Late
    <3>1. req[r].pc \in {"estimate", "count"} /\ ~req[r].filtered
      BY <1>1, <2>2 DEF Estimate, Count, Inv, RequestsOK, Request1
    <3>2. latest' = latest /\ latest # 0 BY <1>1, <2>2 DEF Estimate, Count, refVars, WrongTotal
    <3>3. latest \in Requests BY <1>1, <3>2, LatestType
    <3>0. \/ req' = [req EXCEPT ![r].pc = "asked", ![r].window = window]
          \/ req' = [req EXCEPT ![r].pc = "count"]
      BY <2>2 DEF Estimate, Count, Ask, Goto
    <3>8. req \in [Requests -> Request] BY <1>1 DEF Inv, TypeOK
    <3>9. req'[latest].filtered = req[latest].filtered BY <3>0, <3>3, <3>8 DEF Request
    <3>4. req'[latest].filtered = req[latest].filtered /\ req[latest].filtered
      BY <1>1, <3>2, <3>9 DEF WrongTotal
    <3>5. ~total /\ total' BY <1>1, <3>2, <3>4 DEF WrongTotal
    <3>6. req'[r].pc = "asked"
      <4>1. CASE Estimate(r)
        <5>1. \/ req' = [req EXCEPT ![r].pc = "asked", ![r].window = window]
              \/ total' = total
          BY <3>5, <4>1 DEF Estimate, Ask, Goto
        <5>2. total' # total BY <3>5
        <5>3. req' = [req EXCEPT ![r].pc = "asked", ![r].window = window] BY <5>1, <5>2
        <5> QED BY <2>2, <3>8, <5>3 DEF Request
      <4>2. CASE Count(r)
        <5>1. req' = [req EXCEPT ![r].pc = "asked", ![r].window = window] BY <4>2 DEF Count, Ask
        <5> QED BY <2>2, <3>8, <5>1 DEF Request
      <4> QED BY <2>2, <4>1, <4>2
    <3>7. r < latest
      BY <1>1, <3>1, <3>3, <3>4, RequestsNat DEF Inv, RequestsOK
    <3> QED BY <3>1, <3>6, <3>7
  <2>3. ASSUME NEW r \in Requests, Columns(r) \/ Receive(r) \/ Complete(r) \/ Cut(r) \/ Fail(r) \/ Return(r)
        PROVE  FALSE
    <3>1. total' = total /\ latest' = latest
      BY <2>3 DEF Columns, Receive, Complete, Cut, Fail, Return, storeVars, refVars
    <3>2. latest # 0 /\ latest \in Requests BY <1>1, <3>1, LatestType DEF WrongTotal
    <3>3. req'[latest].filtered = req[latest].filtered
      <4>1. req \in [Requests -> Request] BY <1>1 DEF Inv, TypeOK
      <4>2. ASSUME NEW pc, Goto(r, pc) PROVE req'[latest].filtered = req[latest].filtered
        BY <4>1, <4>2, <3>2 DEF Goto, Request
      <4>3. CASE Columns(r) BY <4>2, <4>3 DEF Columns
      <4>4. CASE Complete(r) BY <4>2, <4>4 DEF Complete
      <4>5. CASE Fail(r) BY <4>2, <4>5 DEF Fail
      <4>6. CASE Return(r) BY <4>2, <4>6 DEF Return
      <4>7. CASE Receive(r) BY <4>1, <4>7, <3>2 DEF Receive, Request
      <4>8. CASE Cut(r) BY <4>1, <4>8, <3>2 DEF Cut, Request
      <4> QED BY <2>3, <4>3, <4>4, <4>5, <4>6, <4>7, <4>8
    <3> QED BY <1>1, <3>1, <3>3 DEF WrongTotal
  <2>4. CASE UNCHANGED <<total, latest, req>> BY <1>1, <2>4 DEF WrongTotal
  <2> QED BY <1>1, <2>1, <2>2, <2>3, <2>4
          DEF Next, Answer, SetWindow, TimerFires, refVars, storeVars, vars
<1>2. Inv /\ [Next]_vars => [~WrongTotal /\ WrongTotal' => Late]_vars BY <1>1
<1> QED BY <1>2, InvHolds, PTL DEF Spec, WrongTotalOvertaken
-----------------------------------------------------------------------------
(* Loading comes to an end because each answer takes its request nearer to it *)

\* The answers a request still waits for, by the stage it is in
Stage(pc) ==
  CASE pc = "estimate" -> 5 [] pc = "count" -> 4 [] pc = "asked" -> 3 [] pc = "stream" -> 2
    [] pc \in {"ended", "failed"} -> 1 [] OTHER -> 0

UnderWay == {"estimate", "count", "asked", "stream", "ended", "failed"}

\* The most answers that may still come for it
StepsLeft(x) == Stage(x.pc) + (x.size - x.sent)

\* Every answer takes its request nearer its end, and nothing else takes it back
\* (fetchData, its callbacks, streamQuery).
AnswersCountDown ==
  [][\A r \in Requests :
       /\ Answer(r) => StepsLeft(req'[r]) < StepsLeft(req[r])
       /\ req[r].pc # "none" => req'[r] = req[r] \/ StepsLeft(req'[r]) < StepsLeft(req[r])]_vars

\* A tab that loads has a latest request, with answers still to come and no row sent
\* that its query does not yield (fetchData, onError, setDataSuccess).
LoadingIsUnderWay ==
  status = "loading" =>
    /\ latest \in Requests /\ req[latest].pc \in UnderWay
    /\ StepsLeft(req[latest]) \in Nat \ {0}

LEMMA StagesAre ==
  /\ Stage("estimate") = 5 /\ Stage("count") = 4 /\ Stage("asked") = 3 /\ Stage("stream") = 2
  /\ Stage("ended") = 1 /\ Stage("failed") = 1 /\ Stage("done") = 0 /\ Stage("none") = 0
BY DEF Stage

\* One answer: the next stage, or one more row
Nearer(x, y) ==
  \/ /\ y.size = x.size /\ y.sent = x.sent
     /\ \/ x.pc = "estimate" /\ y.pc \in {"asked", "count"}
        \/ x.pc = "count" /\ y.pc = "asked"
        \/ x.pc = "asked" /\ y.pc \in {"stream", "failed"}
        \/ x.pc = "stream" /\ y.pc \in {"ended", "failed"}
        \/ x.pc \in {"ended", "failed"} /\ y.pc = "done"
  \/ y.pc = "stream" /\ x.pc = "stream" /\ y.size = x.size /\ y.sent = x.sent + 1

LEMMA NearerFalls ==
  ASSUME NEW x \in Request, NEW y \in Request, Nearer(x, y)
  PROVE  StepsLeft(y) < StepsLeft(x)
<1>1. x.size \in Nat /\ x.sent \in Nat BY BoundAssumption DEF Request
<1>2. CASE y.size = x.size /\ y.sent = x.sent /\ Stage(y.pc) < Stage(x.pc)
           /\ Stage(y.pc) \in Nat /\ Stage(x.pc) \in Nat
  BY <1>1, <1>2 DEF StepsLeft
<1>3. CASE y.pc = x.pc /\ x.pc = "stream" /\ y.size = x.size /\ y.sent = x.sent + 1
  BY <1>1, <1>3, StagesAre DEF StepsLeft
<1>4. \/ y.pc = x.pc /\ x.pc = "stream" /\ y.size = x.size /\ y.sent = x.sent + 1
      \/ /\ y.size = x.size /\ y.sent = x.sent
         /\ Stage(y.pc) < Stage(x.pc) /\ Stage(y.pc) \in Nat /\ Stage(x.pc) \in Nat
  BY StagesAre DEF Nearer
<1> QED BY <1>2, <1>3, <1>4

LEMMA AnswerIsNearer ==
  ASSUME Inv, NEW r \in Requests, Answer(r)
  PROVE  /\ Nearer(req[r], req'[r]) /\ req'[r] \in Request
         /\ \A q \in Requests : q # r => req'[q] = req[q]
<1> DEFINE Becomes(y) == req' = [req EXCEPT ![r] = y]
<1>1. req \in [Requests -> Request] BY DEF Inv, TypeOK
<1>2. PICK x \in Request : x = req[r] BY <1>1
<1>3. ASSUME NEW y \in Request, Becomes(y), Nearer(x, y)
      PROVE  /\ Nearer(req[r], req'[r]) /\ req'[r] \in Request
             /\ \A q \in Requests : q # r => req'[q] = req[q]
  BY <1>1, <1>2, <1>3
<1>4. ASSUME NEW pc \in {"count", "asked", "stream", "ended", "failed", "done"}
      PROVE  /\ [x EXCEPT !.pc = pc] \in Request /\ [x EXCEPT !.pc = pc].pc = pc
             /\ [x EXCEPT !.pc = pc].size = x.size /\ [x EXCEPT !.pc = pc].sent = x.sent
  BY DEF Request
<1> HIDE DEF Becomes
<1>5. ASSUME NEW pc \in {"count", "asked", "stream", "ended", "failed", "done"}, Goto(r, pc)
      PROVE  Becomes([x EXCEPT !.pc = pc])
  BY <1>2, <1>5 DEF Goto, Becomes
<1>6. CASE Estimate(r) \/ Count(r)
  <2> DEFINE y == [x EXCEPT !.pc = "asked", !.window = window]
  <2>1. y \in Request /\ y.pc = "asked" /\ y.size = x.size /\ y.sent = x.sent
    BY DEF Request, Inv, TypeOK
  <2>2. Ask(r) => Becomes(y) BY <1>2 DEF Ask, Becomes
  <2>3. x.pc = "estimate" \/ (x.pc = "count" /\ Ask(r)) BY <1>2, <1>6 DEF Estimate, Count
  <2>4. Ask(r) \/ Goto(r, "count") BY <1>6 DEF Estimate, Count
  <2> HIDE DEF y
  <2>5. CASE Ask(r)
    <3>1. Nearer(x, y) BY <2>1, <2>3 DEF Nearer
    <3> QED BY <1>3, <2>1, <2>2, <2>5, <3>1
  <2>6. CASE ~Ask(r)
    <3>1. Nearer(x, [x EXCEPT !.pc = "count"]) BY <1>4, <2>3, <2>6 DEF Nearer
    <3> QED BY <1>3, <1>4, <1>5, <2>4, <2>6, <3>1
  <2> QED BY <2>5, <2>6
<1>7. ASSUME Columns(r) \/ Complete(r) \/ Fail(r) \/ Return(r)
      PROVE  \E pc \in {"stream", "ended", "failed", "done"} :
               Goto(r, pc) /\ Nearer(x, [x EXCEPT !.pc = pc])
  <2>1. CASE Columns(r)
    <3>1. Goto(r, "stream") /\ x.pc = "asked" BY <1>2, <2>1 DEF Columns
    <3> QED BY <1>4, <3>1 DEF Nearer
  <2>2. CASE Complete(r)
    <3>1. Goto(r, "ended") /\ x.pc = "stream" BY <1>2, <2>2 DEF Complete
    <3> QED BY <1>4, <3>1 DEF Nearer
  <2>3. CASE Fail(r)
    <3>1. Goto(r, "failed") /\ x.pc \in {"asked", "stream"} BY <1>2, <2>3 DEF Fail
    <3> QED BY <1>4, <3>1 DEF Nearer
  <2>4. CASE Return(r)
    <3>1. Goto(r, "done") /\ x.pc \in {"ended", "failed"} BY <1>2, <2>4 DEF Return
    <3> QED BY <1>4, <3>1 DEF Nearer
  <2> QED BY <1>7, <2>1, <2>2, <2>3, <2>4
<1>8. CASE Columns(r) \/ Complete(r) \/ Fail(r) \/ Return(r)
  <2>1. PICK pc \in {"stream", "ended", "failed", "done"} :
          Goto(r, pc) /\ Nearer(x, [x EXCEPT !.pc = pc])
    BY <1>7, <1>8
  <2> QED BY <1>3, <1>4, <1>5, <2>1
<1>9. CASE Receive(r)
  <2> DEFINE y == [x EXCEPT !.sent = x.sent + 1]
  <2>1. Becomes(y) BY <1>2, <1>9 DEF Receive, Becomes
  <2>2. x.pc = "stream" /\ x.sent < x.size BY <1>2, <1>9 DEF Receive
  <2>3. y \in Request /\ y.pc = x.pc /\ y.size = x.size /\ y.sent = x.sent + 1
    BY <2>2, BoundAssumption DEF Request
  <2> HIDE DEF y
  <2>4. Nearer(x, y) BY <2>2, <2>3 DEF Nearer
  <2> QED BY <1>3, <2>1, <2>3, <2>4
<1>10. CASE Cut(r)
  <2> DEFINE y == [x EXCEPT !.pc = "ended", !.cut = TRUE]
  <2>1. Becomes(y) BY <1>2, <1>10 DEF Cut, Becomes
  <2>2. x.pc = "stream" BY <1>2, <1>10 DEF Cut
  <2>3. y \in Request /\ y.pc = "ended" /\ y.size = x.size /\ y.sent = x.sent BY DEF Request
  <2> HIDE DEF y
  <2>4. Nearer(x, y) BY <2>2, <2>3 DEF Nearer
  <2> QED BY <1>3, <2>1, <2>3, <2>4
<1> QED BY <1>6, <1>8, <1>9, <1>10 DEF Answer

\* A new call of fetchData takes a number no request has
LEMMA BeginIsNew ==
  ASSUME Inv, NEW filtered \in BOOLEAN, Begin(filtered)
  PROVE  /\ latest' \in Requests /\ req[latest'].pc = "none"
         /\ \A q \in Requests : req[q].pc # "none" => req'[q] = req[q]
         /\ req'[latest'].pc \in {"estimate", "asked"}
<1> DEFINE r == latest + 1
<1>1. PICK n \in 0 .. MaxRows :
        req' = [req EXCEPT ![r] =
                  [pc |-> IF ~filtered /\ window \notin Manual THEN "estimate" ELSE "asked",
                   filtered |-> filtered,
                   window |-> IF ~filtered /\ window \notin Manual THEN None ELSE window,
                   size |-> n, sent |-> 0, cut |-> FALSE]]
  BY DEF Begin
<1> DEFINE y == [pc |-> IF ~filtered /\ window \notin Manual THEN "estimate" ELSE "asked",
                 filtered |-> filtered,
                 window |-> IF ~filtered /\ window \notin Manual THEN None ELSE window,
                 size |-> n, sent |-> 0, cut |-> FALSE]
<1>4. y.pc \in {"estimate", "asked"} OBVIOUS
<1>5. req' = [req EXCEPT ![r] = y] BY <1>1
<1>6. latest' = r /\ r \in Requests BY DEF Begin
<1> HIDE DEF y
<1>2. r > latest BY LatestType
<1> HIDE DEF r
<1>3. req[r].pc = "none" BY <1>2, <1>6 DEF Inv, RequestsOK
<1>7. req'[r] = y /\ \A q \in Requests : q # r => req'[q] = req[q] BY <1>5, <1>6 DEF Inv, TypeOK
<1> QED BY <1>3, <1>4, <1>6, <1>7

\* What the steps that are nobody's answer leave alone
LEMMA OthersWait ==
  ASSUME [Next]_vars,
         \A filtered \in BOOLEAN : ~Begin(filtered),
         \A r \in Requests : ~Answer(r)
  PROVE  UNCHANGED <<req, latest, status>>
BY DEF Next, SetWindow, TimerFires, vars, storeVars, refVars

\* Each answer takes its request nearer its end.
THEOREM AnswersCountDownHolds == Spec => AnswersCountDown
<1>1. ASSUME Inv, [Next]_vars, NEW r \in Requests
      PROVE  /\ Answer(r) => StepsLeft(req'[r]) < StepsLeft(req[r])
             /\ req[r].pc # "none" => req'[r] = req[r] \/ StepsLeft(req'[r]) < StepsLeft(req[r])
  <2>1. req[r] \in Request BY <1>1 DEF Inv, TypeOK
  <2>2. ASSUME Answer(r) PROVE StepsLeft(req'[r]) < StepsLeft(req[r])
    BY <1>1, <2>1, <2>2, AnswerIsNearer, NearerFalls
  <2>3. ASSUME NEW q \in Requests, q # r, Answer(q) PROVE req'[r] = req[r]
    BY <1>1, <2>3, AnswerIsNearer
  <2>4. ASSUME NEW filtered \in BOOLEAN, Begin(filtered), req[r].pc # "none" PROVE req'[r] = req[r]
    BY <1>1, <2>4, BeginIsNew
  <2>5. ASSUME \A filtered \in BOOLEAN : ~Begin(filtered), \A q \in Requests : ~Answer(q)
        PROVE  req'[r] = req[r]
    BY <1>1, <2>5, OthersWait
  <2> QED BY <2>2, <2>3, <2>4, <2>5
<1>2. Inv /\ [Next]_vars =>
        [\A r \in Requests :
           /\ Answer(r) => StepsLeft(req'[r]) < StepsLeft(req[r])
           /\ req[r].pc # "none" =>
                req'[r] = req[r] \/ StepsLeft(req'[r]) < StepsLeft(req[r])]_vars
  BY <1>1
<1> QED BY <1>2, InvHolds, PTL DEF Spec, AnswersCountDown

\* The latest request of a tab that loads is under way
Waits == status = "loading" => latest \in Requests /\ req[latest].pc \in UnderWay

LEMMA WaitsStep == Inv /\ Waits /\ [Next]_vars => Waits'
<1> SUFFICES ASSUME Inv, Waits, [Next]_vars, status' = "loading"
             PROVE  latest' \in Requests /\ req'[latest'].pc \in UnderWay
  BY DEF Waits, UnderWay
<1> DEFINE Goal == latest' \in Requests /\ req'[latest'].pc \in UnderWay
<1>1. ASSUME NEW filtered \in BOOLEAN, Begin(filtered) PROVE Goal
  BY <1>1, BeginIsNew DEF UnderWay
<1>2. ASSUME NEW r \in Requests, Answer(r) PROVE Goal
  <2>1. latest' = latest
    BY <1>2 DEF Answer, Estimate, Count, Columns, Receive, Complete, Cut, Fail, Return, refVars
  <2>2. CASE ~Return(r)
    <3>1. status' = status \/ status' = "error"
      BY <1>2, <2>2 DEF Answer, Estimate, Count, Columns, Receive, Complete, Cut, Fail, storeVars
    <3>2. status = "loading" BY <3>1
    <3>3. latest \in Requests /\ req[latest].pc \in UnderWay BY <3>2 DEF Waits
    <3>4. CASE r # latest BY <1>2, <2>1, <3>3, <3>4, AnswerIsNearer
    <3>5. CASE r = latest
      <4>1. Nearer(req[r], req'[r]) BY <1>2, AnswerIsNearer
      <4>2. req'[r].pc # "done" \/ req[r].pc \in {"ended", "failed"} BY <4>1 DEF Nearer
      <4>3. req[r].pc \notin {"ended", "failed"}
        BY <1>2, <2>2 DEF Answer, Estimate, Count, Columns, Receive, Complete, Cut, Fail
      <4>4. req'[r].pc \in UnderWay BY <4>1, <4>2, <4>3 DEF Nearer, UnderWay
      <4> QED BY <2>1, <3>3, <3>5, <4>4
    <3> QED BY <3>4, <3>5
  <2>3. CASE Return(r)
    <3>1. r # latest /\ status' = status BY <2>3 DEF Return
    <3>2. latest \in Requests /\ req[latest].pc \in UnderWay BY <3>1 DEF Waits
    <3> QED BY <1>2, <2>1, <3>1, <3>2, AnswerIsNearer
  <2> QED BY <2>2, <2>3
<1>3. ASSUME \A filtered \in BOOLEAN : ~Begin(filtered), \A r \in Requests : ~Answer(r)
      PROVE  Goal
  <2>1. UNCHANGED <<req, latest, status>> BY <1>3, OthersWait
  <2> QED BY <2>1 DEF Waits
<1> QED BY <1>1, <1>2, <1>3

\* A tab that loads waits for a request whose answers are yet to come.
THEOREM LoadingIsUnderWayHolds == Spec => []LoadingIsUnderWay
<1>1. Init => Waits BY DEF Init, Waits
<1>2. Inv /\ Waits => LoadingIsUnderWay
  <2> SUFFICES ASSUME Inv, Waits, status = "loading"
               PROVE  /\ latest \in Requests /\ req[latest].pc \in UnderWay
                      /\ StepsLeft(req[latest]) \in Nat \ {0}
    BY DEF LoadingIsUnderWay
  <2>1. latest \in Requests /\ req[latest].pc \in UnderWay BY DEF Waits
  <2>2. PICK x \in Request : x = req[latest] BY <2>1 DEF Inv, TypeOK
  <2>3. x.sent <= x.size BY <2>1, <2>2 DEF Inv, RequestsOK, Request1
  <2>4. x.sent \in Nat /\ x.size \in Nat BY BoundAssumption DEF Request
  <2>5. Stage(x.pc) \in Nat \ {0} BY <2>1, <2>2, StagesAre DEF UnderWay
  <2>6. StepsLeft(x) \in Nat \ {0} BY <2>3, <2>4, <2>5 DEF StepsLeft
  <2> QED BY <2>1, <2>2, <2>6
<1> QED BY <1>1, <1>2, WaitsStep, InvHolds, PTL DEF Spec
-----------------------------------------------------------------------------
(* TableFilters: which rows are asked for *)

\* Before a tab fetches, its toolbar has what the tab was opened with
Unmounted == ~mounted => chips = config /\ raw = NoRaw /\ ~counting

FiltersInv == FiltersTypeOK /\ AskedAsShown /\ WantedIsShown /\ CountedIsWhole /\ Unmounted

LEMMA ChipsAre ==
  \A s : s \in Chips <=> s \in Seq(Conditions) /\ Len(s) <= MaxChips
<1> TAKE s
<1>1. ASSUME s \in Chips PROVE s \in Seq(Conditions) /\ Len(s) <= MaxChips
  <2>1. PICK m \in 0 .. MaxChips : s \in [1 .. m -> Conditions]
    BY <1>1, Zenon DEF Chips, BoundedSeq, SeqOf
  <2> QED BY <2>1, FiltersAssumption
<1>2. ASSUME s \in Seq(Conditions), Len(s) <= MaxChips PROVE s \in Chips
  <2>1. Len(s) \in 0 .. MaxChips /\ s \in [1 .. Len(s) -> Conditions]
    BY <1>2, FiltersAssumption
  <2> QED BY <2>1, Zenon DEF Chips, BoundedSeq, SeqOf
<1> QED BY <1>1, <1>2

LEMMA ChipsChange ==
  ASSUME NEW s \in Chips
  PROVE  /\ <<>> \in Chips /\ Len(s) \in Nat
         /\ \A c \in Conditions : Len(s) < MaxChips => Append(s, c) \in Chips
         /\ \A c \in Conditions, i \in DOMAIN s : [s EXCEPT ![i] = c] \in Chips
         /\ \A i \in DOMAIN s : RemoveAt(s, i) \in Chips
<1>1. s \in Seq(Conditions) /\ Len(s) <= MaxChips /\ Len(s) \in Nat BY ChipsAre
<1>2. <<>> \in Chips
  <2>1. <<>> \in Seq(Conditions) /\ Len(<<>>) = 0 OBVIOUS
  <2>2. PICK e : e = <<>> OBVIOUS
  <2>3. e \in Seq(Conditions) /\ Len(e) <= MaxChips BY <2>1, <2>2, FiltersAssumption
  <2>4. e \in Chips BY <2>3, ChipsAre
  <2> QED BY <2>2, <2>4
<1>3. ASSUME NEW c \in Conditions, Len(s) < MaxChips PROVE Append(s, c) \in Chips
  <2>1. Append(s, c) \in Seq(Conditions) BY <1>1
  <2>2. Len(Append(s, c)) = Len(s) + 1 BY <1>1
  <2>3. Len(s) + 1 <= MaxChips BY <1>1, <1>3, FiltersAssumption
  <2>4. PICK a : a = Append(s, c) OBVIOUS
  <2>5. a \in Seq(Conditions) /\ Len(a) <= MaxChips BY <2>1, <2>2, <2>3, <2>4
  <2>6. a \in Chips BY <2>5, ChipsAre
  <2> QED BY <2>4, <2>6
<1>4. ASSUME NEW c \in Conditions, NEW i \in DOMAIN s PROVE [s EXCEPT ![i] = c] \in Chips
  <2>1. [s EXCEPT ![i] = c] \in Seq(Conditions) /\ Len([s EXCEPT ![i] = c]) = Len(s) BY <1>1
  <2> QED BY <1>1, <2>1, ChipsAre
<1>5. ASSUME NEW i \in DOMAIN s PROVE RemoveAt(s, i) \in Chips
  <2>1. i \in 1 .. Len(s) BY <1>1
  <2>2. SubSeq(s, 1, i - 1) \in Seq(Conditions) /\ Len(SubSeq(s, 1, i - 1)) = i - 1
    BY <1>1, <2>1
  <2>3. SubSeq(s, i + 1, Len(s)) \in Seq(Conditions) /\ Len(SubSeq(s, i + 1, Len(s))) = Len(s) - i
    BY <1>1, <2>1
  <2>4. RemoveAt(s, i) \in Seq(Conditions)
    BY <2>2, <2>3 DEF RemoveAt
  <2>5. Len(RemoveAt(s, i)) = (i - 1) + (Len(s) - i)
    BY <2>2, <2>3 DEF RemoveAt
  <2> QED BY <1>1, <2>1, <2>4, <2>5, ChipsAre, FiltersAssumption
<1> QED BY <1>1, <1>2, <1>3, <1>4, <1>5

LEMMA FetchGives ==
  ASSUME NEW filters \in Chips, NEW where \in RawTexts \cup {NoRaw}, NEW m \in Modes,
         NEW p \in Pages \cup {ManualPage}, FiltersTypeOK, Fetch(filters, where, m, p)
  PROVE  /\ counting' \in BOOLEAN /\ query' \in Query
         /\ counting' => filters = <<>> /\ where = NoRaw
         /\ ~counting' => /\ query'.filters = filters /\ query'.raw = where
                          /\ query'.mode = m /\ query'.page = p
<1>1. [filters |-> filters, raw |-> where, mode |-> m, page |-> p] \in Query BY DEF Query
<1> QED BY <1>1 DEF Fetch, FiltersTypeOK

LEMMA ApplyKeeps ==
  ASSUME FiltersInv, NEW filters \in Chips, NEW where \in RawTexts \cup {NoRaw}, NEW m \in Modes,
         Apply(filters, where, m)
  PROVE  FiltersInv'
<1> USE DEF Apply, FiltersInv
<1>0. page \in Pages \cup {ManualPage} BY DEF FiltersTypeOK
<1>1. /\ counting' \in BOOLEAN /\ query' \in Query
      /\ counting' => filters = <<>> /\ where = NoRaw
      /\ ~counting' => /\ query'.filters = filters /\ query'.raw = where
                       /\ query'.mode = m /\ query'.page = page
  BY <1>0, FetchGives
<1>2. FiltersTypeOK' BY <1>1 DEF FiltersTypeOK
<1>3. AskedAsShown' BY <1>1 DEF AskedAsShown
<1>4. WantedIsShown' /\ CountedIsWhole' /\ Unmounted' BY <1>1 DEF WantedIsShown, CountedIsWhole, Unmounted
<1> QED BY <1>2, <1>3, <1>4

LEMMA InitFilters == FiltersInit => FiltersInv
<1> SUFFICES ASSUME FiltersInit PROVE FiltersInv OBVIOUS
<1>1. config \in Chips /\ <<>> \in Chips BY ChipsChange DEF FiltersInit
<1>2. 0 \in Pages BY FiltersAssumption DEF Pages
<1>3. query \in Query BY <1>1, <1>2 DEF FiltersInit, Query, Modes
<1>4. FiltersTypeOK BY <1>1, <1>2, <1>3 DEF FiltersInit, FiltersTypeOK, Modes
<1> QED BY <1>4 DEF FiltersInit, FiltersInv, AskedAsShown, WantedIsShown, CountedIsWhole, Unmounted

LEMMA FiltersStep == FiltersInv /\ [FiltersNext]_filtersVars => FiltersInv'
<1> SUFFICES ASSUME FiltersInv, [FiltersNext]_filtersVars PROVE FiltersInv' OBVIOUS
<1> USE DEF FiltersInv
<1>0. /\ config \in Chips /\ chips \in Chips /\ raw \in RawTexts \cup {NoRaw} /\ mode \in Modes
      /\ page \in Pages \cup {ManualPage} /\ NoRaw \in RawTexts \cup {NoRaw}
  BY DEF FiltersTypeOK
<1>1. CASE MountTab
  <2>1. /\ counting' \in BOOLEAN /\ query' \in Query
        /\ counting' => config = <<>> /\ NoRaw = NoRaw
        /\ ~counting' => /\ query'.filters = config /\ query'.raw = NoRaw
                         /\ query'.mode = mode /\ query'.page = page
    <3>1. Fetch(config, NoRaw, mode, page) BY <1>1 DEF MountTab
    <3> QED BY <1>0, <3>1, FetchGives
  <2>2. chips = config /\ raw = NoRaw BY <1>1 DEF MountTab, Unmounted
  <2>3. FiltersTypeOK' BY <1>1, <2>1 DEF MountTab, FiltersTypeOK
  <2>4. AskedAsShown' BY <1>1, <2>1, <2>2 DEF MountTab, AskedAsShown
  <2>5. WantedIsShown' /\ CountedIsWhole' /\ Unmounted'
    BY <1>1, <2>1, <2>2 DEF MountTab, WantedIsShown, CountedIsWhole, Unmounted
  <2> QED BY <2>3, <2>4, <2>5
<1>2. CASE Counted
  <2>1. query' \in Query /\ counting' = FALSE /\ <<>> \in Chips
    BY <1>0, <1>2, ChipsChange DEF Counted, Query
  <2>2. FiltersTypeOK' BY <1>2, <2>1 DEF Counted, FiltersTypeOK
  <2>3. AskedAsShown'
    <3>1. chips = <<>> /\ (raw = NoRaw \/ "raw" \in excuse) BY <1>2 DEF Counted, CountedIsWhole
    <3>2. Len(chips) = 0 BY <3>1
    <3> QED BY <1>2, <3>1, <3>2 DEF Counted, AskedAsShown
  <2>4. WantedIsShown' BY <1>2 DEF Counted, WantedIsShown
  <2>5. CountedIsWhole' /\ Unmounted' BY <1>2 DEF Counted, CountedIsWhole, Unmounted
  <2> QED BY <2>2, <2>3, <2>4, <2>5
<1>3. CASE Refresh
  <2>1. /\ counting' \in BOOLEAN /\ query' \in Query
        /\ counting' => chips = <<>> /\ raw = NoRaw
        /\ ~counting' => /\ query'.filters = chips /\ query'.raw = raw
                         /\ query'.mode = mode /\ query'.page = page
    <3>1. Fetch(chips, raw, mode, page) BY <1>3 DEF Refresh
    <3> QED BY <1>0, <3>1, FetchGives
  <2>2. FiltersTypeOK' BY <1>3, <2>1 DEF Refresh, FiltersTypeOK
  <2>3. AskedAsShown' BY <1>3, <2>1 DEF Refresh, AskedAsShown
  <2>4. WantedIsShown' BY <1>3 DEF Refresh, WantedIsShown
  <2>5. CountedIsWhole' /\ Unmounted' BY <1>3, <2>1 DEF Refresh, CountedIsWhole, Unmounted
  <2> QED BY <2>2, <2>3, <2>4, <2>5
<1>4. CASE RemoveRawSql BY <1>0, <1>4, ApplyKeeps DEF RemoveRawSql
<1>5. CASE ClearFilters BY <1>0, <1>5, ApplyKeeps, ChipsChange DEF ClearFilters
<1>6. ASSUME NEW filters \in Chips, OpenAgain(filters) PROVE FiltersInv'
  <2>1. CASE filters # <<>> /\ filters # config
    <3>0. Fetch(filters, NoRaw, mode, page) BY <1>6, <2>1 DEF OpenAgain
    <3>1. /\ counting' \in BOOLEAN /\ query' \in Query
          /\ counting' => filters = <<>> /\ NoRaw = NoRaw
          /\ ~counting' => /\ query'.filters = filters /\ query'.raw = NoRaw
                           /\ query'.mode = mode /\ query'.page = page
      BY <1>0, <3>0, FetchGives
    <3>2. FiltersTypeOK' BY <1>6, <2>1, <3>1 DEF OpenAgain, FiltersTypeOK
    <3>3. AskedAsShown' BY <1>6, <2>1, <3>1 DEF OpenAgain, AskedAsShown
    <3>4. WantedIsShown' /\ CountedIsWhole' /\ Unmounted'
      BY <1>6, <2>1, <3>1 DEF OpenAgain, WantedIsShown, CountedIsWhole, Unmounted
    <3> QED BY <3>2, <3>3, <3>4
  <2>2. CASE ~(filters # <<>> /\ filters # config)
    <3>1. excuse' = excuse \cup {IF filters = <<>> THEN "emptied" ELSE "repeated"}
      BY <1>6, <2>2 DEF OpenAgain
    <3>2. /\ chips' = chips /\ query' = query /\ counting' = counting
          /\ mounted /\ mounted' = mounted /\ raw' = raw /\ mode' = mode /\ page' = page
          /\ config' = filters /\ wanted' = filters
      BY <1>6, <2>2 DEF OpenAgain
    <3>3. FiltersTypeOK' BY <3>1, <3>2 DEF FiltersTypeOK
    <3>4. AskedAsShown' BY <3>1, <3>2 DEF AskedAsShown
    <3>5. WantedIsShown'
      <4>1. excuse' \cap {"emptied", "repeated"} # {} BY <3>1
      <4> QED BY <4>1 DEF WantedIsShown
    <3>6. CountedIsWhole' /\ Unmounted' BY <3>1, <3>2 DEF CountedIsWhole, Unmounted
    <3> QED BY <3>3, <3>4, <3>5, <3>6
  <2> QED BY <2>1, <2>2
<1>7. ASSUME NEW c \in Conditions, AddFilter(c) PROVE FiltersInv'
  <2>1. Append(chips, c) \in Chips BY <1>0, <1>7, ChipsChange DEF AddFilter
  <2> QED BY <1>0, <1>7, <2>1, ApplyKeeps DEF AddFilter
<1>8. ASSUME NEW c \in Conditions, NEW i \in DOMAIN chips, UpdateFilter(i, c) PROVE FiltersInv'
  <2>1. [chips EXCEPT ![i] = c] \in Chips BY <1>0, ChipsChange
  <2> QED BY <1>0, <1>8, <2>1, ApplyKeeps DEF UpdateFilter
<1>9. ASSUME NEW i \in DOMAIN chips, RemoveFilter(i) PROVE FiltersInv'
  <2>1. RemoveAt(chips, i) \in Chips BY <1>0, ChipsChange
  <2> QED BY <1>0, <1>9, <2>1, ApplyKeeps DEF RemoveFilter
<1>10. ASSUME NEW text \in RawTexts, ApplyRawSql(text) PROVE FiltersInv'
  BY <1>0, <1>10, ApplyKeeps DEF ApplyRawSql
<1>11. ASSUME NEW m \in Modes, SetFilterMode(m) PROVE FiltersInv'
  BY <1>0, <1>11, ApplyKeeps DEF SetFilterMode
<1>12. ASSUME NEW p \in Pages \cup {ManualPage}, SetPage(p) PROVE FiltersInv'
  <2>1. FiltersTypeOK' BY <1>12 DEF SetPage, FiltersTypeOK
  <2>2. AskedAsShown' BY <1>12 DEF SetPage, AskedAsShown
  <2>3. WantedIsShown' /\ CountedIsWhole' /\ Unmounted'
    BY <1>12 DEF SetPage, WantedIsShown, CountedIsWhole, Unmounted
  <2> QED BY <2>1, <2>2, <2>3
<1>13. CASE UNCHANGED filtersVars
  BY <1>13 DEF filtersVars, FiltersTypeOK, AskedAsShown, WantedIsShown, CountedIsWhole, Unmounted
<1> QED BY <1>1, <1>2, <1>3, <1>4, <1>5, <1>6, <1>7, <1>8, <1>9, <1>10, <1>11, <1>12, <1>13
        DEF FiltersNext
-----------------------------------------------------------------------------
(* FilterSql: the editor of one filter *)

LEMMA FiltersAre ==
  \A f : f \in Filters <=>
    \E c \in FilterCategories :
      f \in [category : {c}, operator : ToSet(OperatorsOf(c)), value : LiteralTexts]
BY DEF Filters

\* Every kind of column has an operator to begin with
LEMMA OperatorsType ==
  ASSUME NEW c \in FilterCategories
  PROVE  OperatorsOf(c)[1] \in ToSet(OperatorsOf(c))
<1>1. 1 \in DOMAIN OperatorsOf(c)
  <2>1. CASE c = "text" BY <2>1 DEF OperatorsOf
  <2>2. CASE c = "integer" BY <2>2 DEF OperatorsOf
  <2>3. CASE c = "json" BY <2>3 DEF OperatorsOf
  <2> QED BY <2>1, <2>2, <2>3 DEF FilterCategories
<1> QED BY <1>1 DEF ToSet

LEMMA InitFilter == FilterInit => FilterTypeOK
BY DEF FilterInit, FilterTypeOK

LEMMA FilterStep == FilterTypeOK /\ [FilterNext]_conditionVars => FilterTypeOK'
<1> SUFFICES ASSUME FilterTypeOK, [FilterNext]_conditionVars PROVE FilterTypeOK' OBVIOUS
<1>0. <<>> \in LiteralTexts /\ typed \in LiteralTexts /\ (draft # NoTest => draft \in Filters)
  BY TextsAssumption DEF FilterTypeOK
<1>1. CASE OpenChip BY <1>1 DEF OpenChip, FilterTypeOK
<1>2. CASE CancelFilter BY <1>2 DEF CancelFilter, FilterTypeOK
<1>3. CASE TypeValue
  <2>1. [draft EXCEPT !.value = typed] \in Filters BY <1>0, <1>3, FiltersAre DEF TypeValue
  <2> QED BY <1>3, <2>1 DEF TypeValue, FilterTypeOK
<1>4. CASE SaveFilter
  <2>1. [draft EXCEPT !.value = IF NeedsValue(draft.operator) THEN @ ELSE <<>>] \in Filters
    BY <1>0, <1>4, FiltersAre DEF SaveFilter
  <2> QED BY <1>4, <2>1 DEF SaveFilter, FilterTypeOK
<1>5. ASSUME NEW c \in FilterCategories, OpenNew(c) PROVE FilterTypeOK'
  <2>1. [category |-> c, operator |-> OperatorsOf(c)[1], value |-> <<>>] \in Filters
    BY <1>0, OperatorsType, FiltersAre
  <2> QED BY <1>5, <2>1 DEF OpenNew, FilterTypeOK
<1>6. ASSUME NEW c \in FilterCategories, ChangeColumn(c) PROVE FilterTypeOK'
  <2>1. PICK o \in ToSet(OperatorsOf(c)) :
          draft' = [[draft EXCEPT !.category = c] EXCEPT !.operator = o]
    BY <1>6, OperatorsType DEF ChangeColumn
  <2>4. PICK d \in FilterCategories :
          draft \in [category : {d}, operator : ToSet(OperatorsOf(d)), value : LiteralTexts]
    BY <1>0, <1>6, FiltersAre DEF ChangeColumn
  <2>2. draft' \in [category : {c}, operator : ToSet(OperatorsOf(c)), value : LiteralTexts]
    BY <2>1, <2>4
  <2>3. draft' \in Filters BY <2>2, FiltersAre
  <2> QED BY <1>6, <2>3 DEF ChangeColumn, FilterTypeOK
<1>7. ASSUME NEW o \in ToSet(OperatorsOf(draft.category)), ChangeOperator(o) PROVE FilterTypeOK'
  <2>1. PICK v \in LiteralTexts : draft' = [[draft EXCEPT !.operator = o] EXCEPT !.value = v]
    <3>1. draft.value \in LiteralTexts BY <1>0, <1>7, FiltersAre DEF ChangeOperator
    <3> QED BY <1>0, <1>7, <3>1 DEF ChangeOperator
  <2>2. draft' \in Filters BY <1>0, <1>7, <2>1, FiltersAre DEF ChangeOperator
  <2> QED BY <1>7, <2>2 DEF ChangeOperator, FilterTypeOK
<1>8. CASE UNCHANGED conditionVars BY <1>8 DEF conditionVars, FilterTypeOK
<1> QED BY <1>1, <1>2, <1>3, <1>4, <1>5, <1>6, <1>7, <1>8 DEF FilterNext

\* The rows that are asked for are those of the chips, the raw SQL and the page that are
\* shown, and the chips are those that were wanted, but for the named causes.
THEOREM FiltersAskedHolds == MCSpec => []FiltersAsked
<1>1. MCInit => FiltersInv /\ FilterTypeOK BY InitFilters, InitFilter DEF MCInit
<1>2. FiltersInv /\ FilterTypeOK /\ [MCNext]_<<part, vars, gridVars, queueVars, formVars, filtersVars, conditionVars, tabsVars>>
        => (FiltersInv /\ FilterTypeOK)'
  <2>1. [MCNext]_<<part, vars, gridVars, queueVars, formVars, filtersVars, conditionVars, tabsVars>>
          => [FiltersNext]_filtersVars /\ [FilterNext]_conditionVars
    BY DEF MCNext
  <2> QED BY <2>1, FiltersStep, FilterStep
<1>3. FiltersInv /\ FilterTypeOK => FiltersAsked BY DEF FiltersInv, FiltersAsked
<1> QED BY <1>1, <1>2, <1>3, PTL DEF MCSpec
-----------------------------------------------------------------------------
(* FilterSql: what a condition on a text keeps is what its label says *)

\* Induction over the natural numbers, by a set in place of a predicate
LEMMA SetInduction ==
  ASSUME NEW S, 0 \in S, \A n \in Nat : n \in S => n + 1 \in S
  PROVE  \A n \in Nat : n \in S
<1> SUFFICES ASSUME NEW n \in Nat, n \notin S PROVE FALSE OBVIOUS
<1> DEFINE T == Nat \ S
<1>1. T \subseteq Nat /\ T # {} OBVIOUS
<1>2. PICK x \in T : \A y \in T : <<y, x>> \notin OpToRel(<, Nat)
  BY <1>1, NatLessThanWellFounded, WFMin
<1>3. x \in Nat /\ x # 0 BY <1>2
<1>4. x - 1 \in Nat /\ x - 1 < x /\ (x - 1) + 1 = x BY <1>3
<1>5. x - 1 \in T BY <1>2, <1>4
<1>6. <<x - 1, x>> \in Nat \X Nat BY <1>3, <1>4
<1>7. <<x - 1, x>>[1] < <<x - 1, x>>[2] BY <1>4
<1>8. <<x - 1, x>> \in OpToRel(<, Nat) BY <1>6, <1>7, Zenon DEF OpToRel
<1> QED BY <1>2, <1>5, <1>8

\* The places of t from which it matches p from i on, by those for later i
Matches(from, p, t, i) ==
  IF i > Len(p) THEN {Len(t) + 1}
  ELSE IF p[i] = "%" THEN {j \in 1 .. Len(t) + 1 : \E k \in from[i + 1] : j <= k}
  ELSE IF p[i] = "\\" /\ i < Len(p)
  THEN {j \in 1 .. Len(t) : t[j] = p[i + 1] /\ j + 1 \in from[i + 2]}
  ELSE {j \in 1 .. Len(t) : (p[i] = "_" \/ t[j] = p[i]) /\ j + 1 \in from[i + 1]}

\* Two candidates that agree on what comes after i agree on what comes of it at i
LEMMA MatchesLater ==
  ASSUME NEW p, NEW t, NEW f, NEW g, Len(p) \in Nat, NEW i \in 1 .. Len(p) + 1,
         \A k \in 1 .. Len(p) + 1 : i < k => f[k] = g[k]
  PROVE  Matches(f, p, t, i) = Matches(g, p, t, i)
<1>1. CASE i > Len(p) BY <1>1 DEF Matches
<1>2. CASE i <= Len(p)
  <2>1. f[i + 1] = g[i + 1] BY <1>2
  <2>2. i < Len(p) => f[i + 2] = g[i + 2] BY <1>2
  <2>3. CASE i < Len(p)
    <3>1. f[i + 2] = g[i + 2] BY <2>2, <2>3
    <3> QED BY <2>1, <3>1 DEF Matches
  <2>4. CASE ~(i < Len(p)) BY <2>1, <2>4 DEF Matches
  <2> QED BY <2>3, <2>4
<1> QED BY <1>1, <1>2

Places(f, p, t) == f = [i \in 1 .. Len(p) + 1 |-> Matches(f, p, t, i)]

LEMMA PlacesAre ==
  ASSUME NEW p, NEW t, Len(p) \in Nat
  PROVE  \E f : Places(f, p, t)
<1>0. PICK n \in Nat : n = Len(p) OBVIOUS
<1> DEFINE S == {m \in Nat : \E f : f = [i \in 1 .. n + 1 |-> f[i]]
                                    /\ \A i \in 1 .. n + 1 : n + 1 - i < m => f[i] = Matches(f, p, t, i)}
<1>1. 0 \in S
  <2> DEFINE f == [i \in 1 .. n + 1 |-> {}]
  <2>1. f = [i \in 1 .. n + 1 |-> f[i]] OBVIOUS
  <2>2. \A i \in 1 .. n + 1 : ~(n + 1 - i < 0) OBVIOUS
  <2> QED BY <2>1, <2>2, Zenon
<1>2. ASSUME NEW m \in Nat, m \in S PROVE m + 1 \in S
  <2>1. PICK f : /\ f = [i \in 1 .. n + 1 |-> f[i]]
                 /\ \A i \in 1 .. n + 1 : n + 1 - i < m => f[i] = Matches(f, p, t, i)
    BY <1>2
  <2> DEFINE g == [i \in 1 .. n + 1 |-> Matches(f, p, t, i)]
  <2>2. \A i \in 1 .. n + 1 : n + 1 - i < m => g[i] = f[i] BY <2>1, Zenon
  <2>3. \A i \in 1 .. n + 1 : g[i] = Matches(f, p, t, i) BY Zenon
  <2>4. g = [i \in 1 .. n + 1 |-> g[i]] BY Zenon
  <2> HIDE DEF g
  <2>5. ASSUME NEW i \in 1 .. n + 1, n + 1 - i < m + 1 PROVE g[i] = Matches(g, p, t, i)
    <3>1. ASSUME NEW k \in 1 .. n + 1, i < k PROVE f[k] = g[k]
      <4>1. n + 1 - k < m BY <2>5, <3>1
      <4> QED BY <2>2, <4>1
    <3>2. Matches(f, p, t, i) = Matches(g, p, t, i) BY <1>0, <3>1, MatchesLater
    <3> QED BY <2>3, <3>2
  <2>6. m + 1 \in Nat OBVIOUS
  <2> QED BY <2>4, <2>5, <2>6, Zenon
<1> HIDE DEF S
<1>3. n + 1 \in S BY <1>1, <1>2, SetInduction
<1>4. PICK f : /\ f = [i \in 1 .. n + 1 |-> f[i]]
               /\ \A i \in 1 .. n + 1 : n + 1 - i < n + 1 => f[i] = Matches(f, p, t, i)
  BY <1>3, Zenon DEF S
<1>5. \A i \in 1 .. n + 1 : n + 1 - i < n + 1 OBVIOUS
<1>6. \A i \in 1 .. n + 1 : f[i] = Matches(f, p, t, i) BY <1>4, <1>5, Zenon
<1>7. f = [i \in 1 .. n + 1 |-> Matches(f, p, t, i)] BY <1>4, <1>6, Zenon
<1>8. Places(f, p, t) BY <1>0, <1>7, Zenon DEF Places
<1> QED BY <1>8

\* The places by which Like decides
IsPlaces(f, p, t) ==
  /\ \A i \in 1 .. Len(p) + 1 : f[i] = Matches(f, p, t, i)
  /\ Like(p, t) <=> 1 \in f[1]

LEMMA LikeIs == ASSUME NEW p, NEW t, Len(p) \in Nat PROVE \E f : IsPlaces(f, p, t)
<1> DEFINE f == CHOOSE f : Places(f, p, t)
<1>1. Like(p, t) <=> 1 \in f[1] BY DEF Like, Matches, Places
<1>2. \E h : Places(h, p, t) BY PlacesAre
<1>3. Places(f, p, t) BY <1>2
<1> HIDE DEF f
<1>4. \A i \in 1 .. Len(p) + 1 : f[i] = Matches(f, p, t, i) BY <1>3, Zenon DEF Places
<1> QED BY <1>1, <1>4, Zenon DEF IsPlaces

\* The places e of a pattern hold the characters of a text w, none of them a wildcard, each
\* by itself or behind a backslash
Plain(x) == x # "%" /\ x # "_" /\ x # "\\"

HoldsAt(p, w, e, k) ==
  \/ e[k + 1] = e[k] + 1 /\ p[e[k]] = w[k] /\ Plain(w[k])
  \/ e[k + 1] = e[k] + 2 /\ p[e[k]] = "\\" /\ p[e[k] + 1] = w[k]

Coded(p, w, e) ==
  /\ \A k \in 1 .. Len(w) + 1 : e[k] \in 1 .. Len(p) + 1
  /\ \A k \in 1 .. Len(w) : HoldsAt(p, w, e, k)

\* One character of the text
LEMMA OneCharacter ==
  ASSUME NEW p, NEW t, NEW w, NEW e, NEW f, Len(p) \in Nat, Len(w) \in Nat, Len(t) \in Nat,
         IsPlaces(f, p, t), Coded(p, w, e), NEW k \in 1 .. Len(w), NEW j \in Nat
  PROVE  j \in f[e[k]] <=> j \in 1 .. Len(t) /\ t[j] = w[k] /\ j + 1 \in f[e[k + 1]]
<1>1. PICK i : i = e[k] /\ i \in 1 .. Len(p) + 1 BY DEF Coded
<1>2. e[k + 1] \in 1 .. Len(p) + 1 BY DEF Coded
<1>3. f[i] = Matches(f, p, t, i) BY <1>1 DEF IsPlaces
<1>4. HoldsAt(p, w, e, k) BY DEF Coded
<1>5. CASE e[k + 1] = i + 1 /\ p[i] = w[k] /\ Plain(w[k])
  <2>1. ~(i > Len(p)) BY <1>1, <1>2, <1>5
  <2>2. p[i] # "%" /\ p[i] # "_" /\ p[i] # "\\" BY <1>5 DEF Plain
  <2>3. f[i] = {l \in 1 .. Len(t) : t[l] = p[i] /\ l + 1 \in f[i + 1]}
    BY <1>3, <2>1, <2>2 DEF Matches
  <2>4. j \in f[i] <=> j \in 1 .. Len(t) /\ t[j] = w[k] /\ j + 1 \in f[i + 1] BY <1>5, <2>3
  <2> QED BY <1>1, <1>5, <2>4
<1>6. CASE e[k + 1] = i + 2 /\ p[i] = "\\" /\ p[i + 1] = w[k]
  <2>1. ~(i > Len(p)) /\ i < Len(p) /\ p[i] # "%" BY <1>1, <1>2, <1>6
  <2>2. f[i] = {l \in 1 .. Len(t) : t[l] = p[i + 1] /\ l + 1 \in f[i + 2]}
    BY <1>3, <1>6, <2>1 DEF Matches
  <2> QED BY <1>1, <1>6, <2>2
<1> QED BY <1>1, <1>4, <1>5, <1>6 DEF HoldsAt

\* The text from its k-th character on stands at j
Stands(t, w, k, j) ==
  /\ j + (Len(w) - k) <= Len(t)
  /\ \A m \in 1 .. Len(w) : k <= m => t[j + (m - k)] = w[m]

\* What is coded is found where it stands, and nowhere else
Found(f, t, w, e) ==
  \A j \in Nat \ {0} : j \in f[e[1]] <=> Stands(t, w, 1, j) /\ j + Len(w) \in f[e[Len(w) + 1]]

LEMMA CodedMatches ==
  ASSUME NEW p, NEW t, NEW w, NEW e, NEW f, Len(w) \in Nat,
         Len(p) \in Nat, Len(t) \in Nat, IsPlaces(f, p, t), Coded(p, w, e),
         f[e[Len(w) + 1]] \subseteq 1 .. Len(t) + 1
  PROVE  Found(f, t, w, e)
<1>0. PICK n \in Nat : n = Len(w) OBVIOUS
<1> DEFINE S == {d \in Nat : d <= n =>
                   \A j \in Nat \ {0} :
                     j \in f[e[n + 1 - d]] <=> Stands(t, w, n + 1 - d, j) /\ j + d \in f[e[n + 1]]}
<1>1. 0 \in S
  <2>1. ASSUME NEW j \in Nat \ {0}, j \in f[e[n + 1]] PROVE Stands(t, w, n + 1, j)
    <3>1. j \in 1 .. Len(t) + 1 BY <1>0, <2>1
    <3>2. \A m \in 1 .. n : ~(n + 1 <= m) OBVIOUS
    <3>3. j + (n - (n + 1)) = j - 1 OBVIOUS
    <3>4. j - 1 <= Len(t) BY <3>1
    <3> QED BY <1>0, <3>2, <3>3, <3>4 DEF Stands
  <2>2. n + 1 - 0 = n + 1 /\ \A j \in Nat : j + 0 = j OBVIOUS
  <2> QED BY <2>1, <2>2
<1>2. ASSUME NEW d \in Nat, d \in S PROVE d + 1 \in S
  <2> SUFFICES ASSUME d + 1 <= n, NEW j \in Nat \ {0}
               PROVE  j \in f[e[n + 1 - (d + 1)]] <=>
                        Stands(t, w, n + 1 - (d + 1), j) /\ j + (d + 1) \in f[e[n + 1]]
    OBVIOUS
  <2>1. PICK k : k = n + 1 - (d + 1) /\ k \in 1 .. n /\ k + 1 = n + 1 - d OBVIOUS
  <2>2. \A l \in Nat \ {0} : l \in f[e[k + 1]] <=> Stands(t, w, k + 1, l) /\ l + d \in f[e[n + 1]]
    BY <1>2, <2>1
  <2>3. j \in f[e[k]] <=> j \in 1 .. Len(t) /\ t[j] = w[k] /\ j + 1 \in f[e[k + 1]]
    BY <1>0, <2>1, OneCharacter
  <2>4. j + 1 \in f[e[k + 1]] <=> Stands(t, w, k + 1, j + 1) /\ (j + 1) + d \in f[e[n + 1]]
    <3>1. j + 1 \in Nat \ {0} OBVIOUS
    <3> QED BY <2>2, <3>1, Zenon
  <2>5. (j + 1) + d = j + (d + 1) OBVIOUS
  <2>6. Stands(t, w, k, j) <=> j \in 1 .. Len(t) /\ t[j] = w[k] /\ Stands(t, w, k + 1, j + 1)
    <3>1. (j + 1) + (n - (k + 1)) = j + (n - k) BY <2>1
    <3>2. \A m \in 1 .. n : k + 1 <= m => (j + 1) + (m - (k + 1)) = j + (m - k) BY <2>1
    <3>3. \A m \in 1 .. n : k <= m <=> m = k \/ k + 1 <= m BY <2>1
    <3>4. j + (k - k) = j BY <2>1
    <3>5. j + (n - k) <= Len(t) => j \in 1 .. Len(t) BY <2>1
    <3>6. (\A m \in 1 .. n : k <= m => t[j + (m - k)] = w[m]) <=>
            t[j] = w[k] /\ \A m \in 1 .. n : k + 1 <= m => t[(j + 1) + (m - (k + 1))] = w[m]
      BY <2>1, <3>2, <3>3, <3>4
    <3> QED BY <1>0, <3>1, <3>5, <3>6 DEF Stands
  <2> QED BY <2>1, <2>3, <2>4, <2>5, <2>6
<1> HIDE DEF S
<1>3. n \in S BY <1>1, <1>2, SetInduction
<1>4. n + 1 - n = 1 /\ n <= n OBVIOUS
<1> QED BY <1>0, <1>3, <1>4 DEF S, Found

LEMMA SeqEq ==
  ASSUME NEW A, NEW s \in Seq(A), NEW t \in Seq(A), Len(s) = Len(t),
         \A m \in 1 .. Len(s) : s[m] = t[m]
  PROVE  s = t
<1>1. s = [m \in 1 .. Len(s) |-> s[m]] /\ t = [m \in 1 .. Len(t) |-> t[m]] OBVIOUS
<1> QED BY <1>1

LEMMA PrefixIs ==
  ASSUME NEW A, NEW s \in Seq(A), NEW t \in Seq(A)
  PROVE  IsPrefix(s, t) <=> Len(s) <= Len(t) /\ \A m \in 1 .. Len(s) : t[m] = s[m]
<1>1. SubSeq(s, 1, Len(s)) = s OBVIOUS
<1>2. ASSUME Len(s) <= Len(t)
      PROVE  s = SubSeq(t, 1, Len(s)) <=> \A m \in 1 .. Len(s) : t[m] = s[m]
  <2>1. /\ SubSeq(t, 1, Len(s)) \in Seq(A) /\ Len(SubSeq(t, 1, Len(s))) = Len(s)
        /\ \A m \in 1 .. Len(s) : SubSeq(t, 1, Len(s))[m] = t[m]
    BY <1>2
  <2> QED BY <2>1, SeqEq
<1> QED BY <1>1, <1>2 DEF IsPrefix

LEMMA SuffixIs ==
  ASSUME NEW A, NEW s \in Seq(A), NEW t \in Seq(A)
  PROVE  IsSuffix(s, t) <=>
           Len(s) <= Len(t) /\ \A m \in 1 .. Len(s) : t[Len(t) - Len(s) + m] = s[m]
<1>1. ASSUME NEW u \in Seq(A)
      PROVE  /\ Reverse(u) \in Seq(A) /\ Len(Reverse(u)) = Len(u)
             /\ \A i \in 1 .. Len(u) : Reverse(u)[i] = u[Len(u) - i + 1]
  BY DEF Reverse
<1>2. IsSuffix(s, t) <=> Len(s) <= Len(t) /\ \A i \in 1 .. Len(s) : Reverse(t)[i] = Reverse(s)[i]
  <2>1. PICK x \in Seq(A) : x = Reverse(s) BY <1>1
  <2>2. PICK y \in Seq(A) : y = Reverse(t) BY <1>1
  <2>3. Len(x) = Len(s) /\ Len(y) = Len(t) BY <1>1, <2>1, <2>2
  <2>4. IsPrefix(x, y) <=> Len(x) <= Len(y) /\ \A i \in 1 .. Len(x) : y[i] = x[i] BY PrefixIs
  <2>5. IsSuffix(s, t) <=> IsPrefix(x, y) BY <2>1, <2>2, Zenon DEF IsSuffix
  <2> QED BY <2>1, <2>2, <2>3, <2>4, <2>5
<1>3. ASSUME Len(s) <= Len(t)
      PROVE  (\A i \in 1 .. Len(s) : Reverse(t)[i] = Reverse(s)[i]) <=>
               \A m \in 1 .. Len(s) : t[Len(t) - Len(s) + m] = s[m]
  <2>1. \A i \in 1 .. Len(s) : Reverse(t)[i] = t[Len(t) - i + 1] /\ Reverse(s)[i] = s[Len(s) - i + 1]
    BY <1>1, <1>3
  <2>2. \A i \in 1 .. Len(s) : Len(s) - i + 1 \in 1 .. Len(s)
                               /\ Len(t) - Len(s) + (Len(s) - i + 1) = Len(t) - i + 1
                               /\ Len(s) - (Len(s) - i + 1) + 1 = i
    OBVIOUS
  <2>3. ASSUME \A i \in 1 .. Len(s) : Reverse(t)[i] = Reverse(s)[i], NEW m \in 1 .. Len(s)
        PROVE  t[Len(t) - Len(s) + m] = s[m]
    <3>1. PICK i : i = Len(s) - m + 1 OBVIOUS
    <3>2. i \in 1 .. Len(s) /\ Len(s) - i + 1 = m /\ Len(t) - i + 1 = Len(t) - Len(s) + m BY <3>1
    <3> QED BY <2>1, <2>3, <3>2
  <2>4. ASSUME \A m \in 1 .. Len(s) : t[Len(t) - Len(s) + m] = s[m], NEW i \in 1 .. Len(s)
        PROVE  Reverse(t)[i] = Reverse(s)[i]
    <3>1. t[Len(t) - Len(s) + (Len(s) - i + 1)] = s[Len(s) - i + 1] BY <2>2, <2>4
    <3> QED BY <2>1, <2>2, <3>1
  <2> QED BY <2>3, <2>4
<1> QED BY <1>2, <1>3

\* w is a piece of t, and it stands at j there
IsPiece(w, t) == \E i, j \in 0 .. Len(t) : SubSeq(t, i + 1, j) = w
PieceAt(w, t, j) == j + Len(w) <= Len(t) + 1 /\ \A m \in 1 .. Len(w) : t[j + (m - 1)] = w[m]

LEMMA SubSeqIs ==
  ASSUME NEW A, NEW t \in Seq(A), NEW a \in Nat \ {0}, NEW j \in Nat, a <= j, j <= Len(t)
  PROVE  /\ SubSeq(t, a, j) \in Seq(A) /\ Len(SubSeq(t, a, j)) = (j - a) + 1
         /\ \A m \in 1 .. (j - a) + 1 : SubSeq(t, a, j)[m] = t[a + m - 1]
OBVIOUS

LEMMA PieceIs ==
  ASSUME NEW A, NEW w \in Seq(A), NEW t \in Seq(A)
  PROVE  IsPiece(w, t) <=> \E j \in Nat \ {0} : PieceAt(w, t, j)
<1>1. ASSUME NEW i \in 0 .. Len(t), NEW j \in 0 .. Len(t), SubSeq(t, i + 1, j) = w
      PROVE  \E k \in Nat \ {0} : PieceAt(w, t, k)
  <2>1. CASE j <= i
    <3>1. Len(w) = 0 BY <1>1, <2>1
    <3>2. 1 \in Nat \ {0} /\ 1 + 0 <= Len(t) + 1 /\ \A m \in 1 .. 0 : FALSE OBVIOUS
    <3> QED BY <3>1, <3>2 DEF PieceAt
  <2>2. CASE i < j
    <3>1. Len(w) = j - i /\ \A m \in 1 .. j - i : w[m] = t[(i + 1) + m - 1]
      <4>1. PICK a \in Nat \ {0} : a = i + 1 /\ a <= j BY <2>2
      <4>2. j \in Nat /\ j <= Len(t) OBVIOUS
      <4>3. /\ Len(SubSeq(t, a, j)) = (j - a) + 1
            /\ \A m \in 1 .. (j - a) + 1 : SubSeq(t, a, j)[m] = t[a + m - 1]
        BY <4>1, <4>2, SubSeqIs
      <4>4. (j - a) + 1 = j - i BY <4>1
      <4> QED BY <1>1, <4>1, <4>3, <4>4
    <3>2. \A m \in 1 .. j - i : (i + 1) + m - 1 = (i + 1) + (m - 1) OBVIOUS
    <3>3. i + 1 \in Nat \ {0} /\ (i + 1) + (j - i) <= Len(t) + 1 OBVIOUS
    <3> QED BY <3>1, <3>2, <3>3 DEF PieceAt
  <2> QED BY <2>1, <2>2
<1>2. ASSUME NEW k \in Nat \ {0}, PieceAt(w, t, k)
      PROVE  \E i, j \in 0 .. Len(t) : SubSeq(t, i + 1, j) = w
  <2>1. PICK i : i = k - 1 OBVIOUS
  <2>2. PICK j : j = i + Len(w) OBVIOUS
  <2>0. k + Len(w) <= Len(t) + 1 /\ \A m \in 1 .. Len(w) : t[k + (m - 1)] = w[m] BY <1>2 DEF PieceAt
  <2>3. i \in 0 .. Len(t) /\ j \in 0 .. Len(t) /\ i + 1 = k /\ i + 1 <= Len(t) + 1 BY <2>0, <2>1, <2>2
  <2>4. SubSeq(t, i + 1, j) \in Seq(A) /\ Len(SubSeq(t, i + 1, j)) = Len(w) BY <2>2, <2>3
  <2>5. \A m \in 1 .. Len(w) : SubSeq(t, i + 1, j)[m] = t[(i + 1) + m - 1] BY <2>2, <2>3
  <2>6. \A m \in 1 .. Len(w) : (i + 1) + m - 1 = k + (m - 1) BY <2>3
  <2>7. SubSeq(t, i + 1, j) = w BY <2>0, <2>4, <2>5, <2>6, SeqEq
  <2> QED BY <2>3, <2>7
<1> QED BY <1>1, <1>2 DEF IsPiece

\* The places at the end of a pattern, and at a wildcard for any text
LEMMA EndPlace ==
  ASSUME NEW p, NEW t, NEW f, Len(p) \in Nat, IsPlaces(f, p, t)
  PROVE  f[Len(p) + 1] = {Len(t) + 1}
<1>1. PICK i \in 1 .. Len(p) + 1 : i = Len(p) + 1 OBVIOUS
<1>2. f[i] = Matches(f, p, t, i) BY DEF IsPlaces
<1>3. i > Len(p) BY <1>1
<1> QED BY <1>1, <1>2, <1>3 DEF Matches

LEMMA AnyPlace ==
  ASSUME NEW p, NEW t, NEW f, Len(p) \in Nat, IsPlaces(f, p, t), NEW i \in 1 .. Len(p), p[i] = "%"
  PROVE  f[i] = {j \in 1 .. Len(t) + 1 : \E k \in f[i + 1] : j <= k}
<1>1. f[i] = Matches(f, p, t, i) BY DEF IsPlaces
<1>2. ~(i > Len(p)) OBVIOUS
<1> QED BY <1>1, <1>2 DEF Matches

LEMMA ArePlaces ==
  ASSUME NEW p, NEW t, NEW f, Len(p) \in Nat, Len(t) \in Nat, IsPlaces(f, p, t), NEW i \in 1 .. Len(p) + 1
  PROVE  f[i] \subseteq 1 .. Len(t) + 1
<1>1. f[i] = Matches(f, p, t, i) BY DEF IsPlaces
<1>2. 1 .. Len(t) \subseteq 1 .. Len(t) + 1 /\ Len(t) + 1 \in 1 .. Len(t) + 1 OBVIOUS
<1>3. CASE i > Len(p) BY <1>1, <1>2, <1>3 DEF Matches
<1>4. CASE ~(i > Len(p)) /\ p[i] = "%"
  <2>1. f[i] = {j \in 1 .. Len(t) + 1 : \E k \in f[i + 1] : j <= k} BY <1>1, <1>4, Zenon DEF Matches
  <2> QED BY <2>1
<1>5. CASE ~(i > Len(p)) /\ p[i] # "%"
  <2>1. CASE p[i] = "\\" /\ i < Len(p)
    <3>1. f[i] = {j \in 1 .. Len(t) : t[j] = p[i + 1] /\ j + 1 \in f[i + 2]}
      BY <1>1, <1>5, <2>1, Zenon DEF Matches
    <3> QED BY <1>2, <3>1
  <2>2. CASE ~(p[i] = "\\" /\ i < Len(p))
    <3>1. f[i] = {j \in 1 .. Len(t) : (p[i] = "_" \/ t[j] = p[i]) /\ j + 1 \in f[i + 1]}
      BY <1>1, <1>5, <2>2, Zenon DEF Matches
    <3> QED BY <1>2, <3>1
  <2> QED BY <2>1, <2>2
<1> QED BY <1>3, <1>4, <1>5

\* A wildcard before the end takes all that is left
LEMMA LastPlace ==
  ASSUME NEW p, NEW t, NEW f, Len(p) \in Nat \ {0}, Len(t) \in Nat, IsPlaces(f, p, t), p[Len(p)] = "%"
  PROVE  f[Len(p)] = 1 .. Len(t) + 1
<1>1. f[Len(p) + 1] = {Len(t) + 1} BY EndPlace
<1>2. PICK i \in 1 .. Len(p) : i = Len(p) OBVIOUS
<1>3. f[i] = {j \in 1 .. Len(t) + 1 : \E k \in f[i + 1] : j <= k} BY <1>2, AnyPlace
<1> QED BY <1>1, <1>2, <1>3

\* A pattern that begins with what is coded, ends with it, or has it between two wildcards
LEMMA LikeStarts ==
  ASSUME NEW A, NEW p \in Seq(A), NEW w \in Seq(A), NEW t \in Seq(A), NEW e, Coded(p, w, e),
         e[1] = 1, e[Len(w) + 1] = Len(p), p[Len(p)] = "%"
  PROVE  Like(p, t) <=> IsPrefix(w, t)
<1>0. PICK n \in Nat : n = Len(w) OBVIOUS
<1>1. Len(p) \in Nat /\ Len(t) \in Nat OBVIOUS
<1>2. PICK f : IsPlaces(f, p, t) BY <1>1, LikeIs
<1>3. e[1] \in 1 .. Len(p) + 1 /\ e[n + 1] \in 1 .. Len(p) + 1 BY <1>0 DEF Coded
<1>4. Len(p) \in Nat \ {0} BY <1>0, <1>1, <1>3
<1>5. f[e[n + 1]] = 1 .. Len(t) + 1 BY <1>0, <1>1, <1>2, <1>4, LastPlace
<1>6. \A j \in Nat \ {0} : j \in f[1] <=> Stands(t, w, 1, j) /\ j + n \in f[e[n + 1]]
  <2>1. Found(f, t, w, e) BY <1>0, <1>1, <1>2, <1>5, CodedMatches
  <2> QED BY <1>0, <2>1 DEF Found
<1>7. 1 \in f[1] <=> Stands(t, w, 1, 1) /\ 1 + n \in 1 .. Len(t) + 1
  <2>1. 1 \in Nat \ {0} OBVIOUS
  <2> QED BY <1>5, <1>6, <2>1
<1>8. Stands(t, w, 1, 1) /\ 1 + n \in 1 .. Len(t) + 1 <=>
        n <= Len(t) /\ \A m \in 1 .. n : t[m] = w[m]
  <2>1. \A m \in 1 .. n : 1 <= m /\ 1 + (m - 1) = m OBVIOUS
  <2>2. 1 + (n - 1) = n OBVIOUS
  <2> QED BY <1>0, <1>1, <2>1, <2>2 DEF Stands
<1>9. Like(p, t) <=> 1 \in f[1] BY <1>2 DEF IsPlaces
<1>10. IsPrefix(w, t) <=> n <= Len(t) /\ \A m \in 1 .. n : t[m] = w[m] BY <1>0, PrefixIs
<1> QED BY <1>7, <1>8, <1>9, <1>10

LEMMA LikeEnds ==
  ASSUME NEW A, NEW p \in Seq(A), NEW w \in Seq(A), NEW t \in Seq(A), NEW e, Coded(p, w, e),
         e[1] = 2, e[Len(w) + 1] = Len(p) + 1, p[1] = "%"
  PROVE  Like(p, t) <=> IsSuffix(w, t)
<1>0. PICK n \in Nat : n = Len(w) OBVIOUS
<1>1. Len(p) \in Nat /\ Len(t) \in Nat OBVIOUS
<1>2. PICK f : IsPlaces(f, p, t) BY <1>1, LikeIs
<1>3. 2 \in 1 .. Len(p) + 1 BY <1>0 DEF Coded
<1>4. f[e[n + 1]] = {Len(t) + 1} BY <1>0, <1>1, <1>2, EndPlace
<1>5. f[1] = {j \in 1 .. Len(t) + 1 : \E k \in f[2] : j <= k}
  <2>1. 1 \in 1 .. Len(p) /\ 1 + 1 = 2 BY <1>1, <1>3
  <2> QED BY <1>1, <1>2, <2>1, AnyPlace
<1>6. \A j \in Nat \ {0} : j \in f[2] <=> Stands(t, w, 1, j) /\ j + n \in {Len(t) + 1}
  <2>1. f[e[n + 1]] \subseteq 1 .. Len(t) + 1 BY <1>1, <1>4
  <2>2. Found(f, t, w, e) BY <1>0, <1>1, <1>2, <2>1, CodedMatches
  <2> QED BY <1>0, <1>4, <2>2 DEF Found
<1>7. f[2] \subseteq 1 .. Len(t) + 1 BY <1>1, <1>2, <1>3, ArePlaces
<1>8. 1 \in f[1] <=> \E k \in Nat \ {0} : Stands(t, w, 1, k) /\ k + n = Len(t) + 1
  <2>1. 1 \in f[1] <=> \E k \in Nat \ {0} : k \in f[2] BY <1>1, <1>5, <1>7
  <2> QED BY <1>6, <2>1
<1>9. (\E k \in Nat \ {0} : Stands(t, w, 1, k) /\ k + n = Len(t) + 1) <=>
         n <= Len(t) /\ \A m \in 1 .. n : t[Len(t) - n + m] = w[m]
  <2>0. PICK l \in Nat : l = Len(t) BY <1>1
  <2>1. ASSUME NEW k \in Nat \ {0}, k + n = Len(t) + 1
        PROVE  n <= Len(t) /\ (Stands(t, w, 1, k) <=> \A m \in 1 .. n : t[Len(t) - n + m] = w[m])
    <3>0. k + n = l + 1 BY <2>0, <2>1
    <3>1. \A m \in 1 .. n : 1 <= m /\ k + (m - 1) = l - n + m BY <3>0
    <3>2. k + (n - 1) = l /\ l <= l /\ n <= l BY <3>0
    <3>3. Stands(t, w, 1, k) <=> \A m \in 1 .. n : t[k + (m - 1)] = w[m]
      BY <1>0, <2>0, <3>1, <3>2 DEF Stands
    <3> QED BY <2>0, <3>1, <3>2, <3>3
  <2>2. ASSUME n <= Len(t) PROVE \E k \in Nat \ {0} : k + n = Len(t) + 1
    <3>1. (Len(t) + 1) - n \in Nat \ {0} /\ ((Len(t) + 1) - n) + n = Len(t) + 1 BY <1>1, <2>2
    <3> QED BY <3>1
  <2> QED BY <2>1, <2>2
<1>10. Like(p, t) <=> 1 \in f[1] BY <1>2 DEF IsPlaces
<1>11. IsSuffix(w, t) <=> n <= Len(t) /\ \A m \in 1 .. n : t[Len(t) - n + m] = w[m] BY <1>0, SuffixIs
<1> QED BY <1>8, <1>9, <1>10, <1>11

LEMMA LikeHolds ==
  ASSUME NEW A, NEW p \in Seq(A), NEW w \in Seq(A), NEW t \in Seq(A), NEW e, Coded(p, w, e),
         e[1] = 2, e[Len(w) + 1] = Len(p), p[1] = "%", p[Len(p)] = "%"
  PROVE  Like(p, t) <=> IsPiece(w, t)
<1>0. PICK n \in Nat : n = Len(w) OBVIOUS
<1>1. Len(p) \in Nat /\ Len(t) \in Nat OBVIOUS
<1>2. PICK f : IsPlaces(f, p, t) BY <1>1, LikeIs
<1>3. 2 \in 1 .. Len(p) + 1 BY <1>0 DEF Coded
<1>4. f[e[n + 1]] = 1 .. Len(t) + 1 BY <1>0, <1>1, <1>2, <1>3, LastPlace
<1>5. f[1] = {j \in 1 .. Len(t) + 1 : \E k \in f[2] : j <= k}
  <2>1. 1 \in 1 .. Len(p) /\ 1 + 1 = 2 BY <1>1, <1>3
  <2> QED BY <1>1, <1>2, <2>1, AnyPlace
<1>6. \A j \in Nat \ {0} : j \in f[2] <=> Stands(t, w, 1, j) /\ j + n \in 1 .. Len(t) + 1
  <2>1. Found(f, t, w, e) BY <1>0, <1>1, <1>2, <1>4, CodedMatches
  <2> QED BY <1>0, <1>4, <2>1 DEF Found
<1>7. f[2] \subseteq 1 .. Len(t) + 1 BY <1>1, <1>2, <1>3, ArePlaces
<1>8. 1 \in f[1] <=> \E k \in Nat \ {0} : Stands(t, w, 1, k) /\ k + n \in 1 .. Len(t) + 1
  <2>1. 1 \in f[1] <=> \E k \in Nat \ {0} : k \in f[2] BY <1>1, <1>5, <1>7
  <2> QED BY <1>6, <2>1
<1>9. ASSUME NEW k \in Nat \ {0}
      PROVE  Stands(t, w, 1, k) /\ k + n \in 1 .. Len(t) + 1 <=> PieceAt(w, t, k)
  <2>1. \A m \in 1 .. n : 1 <= m OBVIOUS
  <2>2. k + (n - 1) <= Len(t) <=> k + n <= Len(t) + 1 BY <1>1
  <2>3. k + n <= Len(t) + 1 => k + n \in 1 .. Len(t) + 1 BY <1>1
  <2> QED BY <1>0, <1>1, <2>1, <2>2, <2>3 DEF Stands, PieceAt
<1>10. Like(p, t) <=> 1 \in f[1] BY <1>2 DEF IsPlaces
<1>11. IsPiece(w, t) <=> \E k \in Nat \ {0} : PieceAt(w, t, k) BY PieceIs
<1> QED BY <1>8, <1>9, <1>10, <1>11

\* The joined texts up to the i-th, by those before
Joined(from, seqs, i) == IF i = 1 THEN seqs[i] ELSE from[i - 1] \o seqs[i]
Joins(f, seqs) == f = [i \in 1 .. Len(seqs) |-> Joined(f, seqs, i)]

LEMMA JoinsAre ==
  ASSUME NEW seqs, Len(seqs) \in Nat
  PROVE  \E f : Joins(f, seqs)
<1>0. PICK n \in Nat : n = Len(seqs) OBVIOUS
<1> DEFINE S == {m \in Nat : \E f : f = [i \in 1 .. n |-> f[i]]
                                    /\ \A i \in 1 .. n : i < m => f[i] = Joined(f, seqs, i)}
<1>1. 0 \in S
  <2> DEFINE f == [i \in 1 .. n |-> {}]
  <2>1. f = [i \in 1 .. n |-> f[i]] OBVIOUS
  <2>2. \A i \in 1 .. n : ~(i < 0) OBVIOUS
  <2> QED BY <2>1, <2>2, Zenon
<1>2. ASSUME NEW m \in Nat, m \in S PROVE m + 1 \in S
  <2>1. PICK f : /\ f = [i \in 1 .. n |-> f[i]]
                 /\ \A i \in 1 .. n : i < m => f[i] = Joined(f, seqs, i)
    BY <1>2
  <2> DEFINE g == [i \in 1 .. n |-> Joined(f, seqs, i)]
  <2>2. \A i \in 1 .. n : i < m => g[i] = f[i] BY <2>1, Zenon
  <2>3. \A i \in 1 .. n : g[i] = Joined(f, seqs, i) BY Zenon
  <2>4. g = [i \in 1 .. n |-> g[i]] BY Zenon
  <2> HIDE DEF g
  <2>5. ASSUME NEW i \in 1 .. n, i < m + 1 PROVE g[i] = Joined(g, seqs, i)
    <3>1. CASE i = 1 BY <2>3, <3>1 DEF Joined
    <3>2. CASE i # 1
      <4>1. i - 1 \in 1 .. n /\ i - 1 < m BY <2>5, <3>2
      <4>2. g[i - 1] = f[i - 1] BY <2>2, <4>1
      <4> QED BY <2>3, <3>2, <4>2 DEF Joined
    <3> QED BY <3>1, <3>2
  <2>6. m + 1 \in Nat OBVIOUS
  <2> QED BY <2>4, <2>5, <2>6, Zenon
<1> HIDE DEF S
<1>3. n + 1 \in S BY <1>1, <1>2, SetInduction
<1>4. PICK f : /\ f = [i \in 1 .. n |-> f[i]]
               /\ \A i \in 1 .. n : i < n + 1 => f[i] = Joined(f, seqs, i)
  BY <1>3, Zenon DEF S
<1>5. \A i \in 1 .. n : i < n + 1 OBVIOUS
<1>6. \A i \in 1 .. n : f[i] = Joined(f, seqs, i) BY <1>4, <1>5, Zenon
<1>7. f = [i \in 1 .. n |-> Joined(f, seqs, i)] BY <1>4, <1>6, Zenon
<1>8. Joins(f, seqs) BY <1>0, <1>7, Zenon DEF Joins
<1> QED BY <1>8

\* The texts by whose joining FlattenSeq is made
LEMMA FlattenIs ==
  ASSUME NEW seqs, Len(seqs) \in Nat \ {0}
  PROVE  \E f : /\ FlattenSeq(seqs) = f[Len(seqs)]
                /\ f[1] = seqs[1]
                /\ \A i \in 1 .. Len(seqs) - 1 : f[i + 1] = f[i] \o seqs[i + 1]
<1> DEFINE f == CHOOSE f : Joins(f, seqs)
<1>1. FlattenSeq(seqs) = f[Len(seqs)] BY DEF FlattenSeq, Joins, Joined
<1>2. \E h : Joins(h, seqs) BY JoinsAre
<1>3. Joins(f, seqs) BY <1>2
<1> HIDE DEF f
<1>4. \A i \in 1 .. Len(seqs) : f[i] = Joined(f, seqs, i) BY <1>3, Zenon DEF Joins
<1>5. f[1] = seqs[1]
  <2>1. 1 \in 1 .. Len(seqs) OBVIOUS
  <2> QED BY <1>4, <2>1 DEF Joined
<1>6. ASSUME NEW i \in 1 .. Len(seqs) - 1 PROVE f[i + 1] = f[i] \o seqs[i + 1]
  <2>1. i + 1 \in 1 .. Len(seqs) /\ i + 1 # 1 /\ (i + 1) - 1 = i OBVIOUS
  <2>2. f[i + 1] = Joined(f, seqs, i + 1) BY <1>4, <2>1
  <2> QED BY <2>1, <2>2 DEF Joined
<1> QED BY <1>1, <1>5, <1>6

\* What is written for the characters of a text, up to each
Written(x, c) == IF c = x THEN <<x, x>> ELSE <<c>>

Writing(f, x, t) ==
  /\ Doubled(x, t) = f[Len(t)]
  /\ f[0] = <<>>
  /\ \A i \in 0 .. Len(t) - 1 : f[i + 1] = f[i] \o Written(x, t[i + 1])

LEMMA DoubledIs ==
  ASSUME NEW A, NEW x \in A, NEW t \in Seq(A)
  PROVE  \E f : Writing(f, x, t)
<1>0. PICK n \in Nat : n = Len(t) OBVIOUS
<1>1. PICK seqs : seqs = [i \in 1 .. n |-> Written(x, t[i])] OBVIOUS
<1>2. Doubled(x, t) = FlattenSeq(seqs)
  <2>1. DOMAIN t = 1 .. n BY <1>0
  <2> QED BY <1>1, <2>1, Zenon DEF Doubled, Written
<1>3. seqs \in Seq(Seq(A)) /\ Len(seqs) = n
  <2>1. \A i \in 1 .. n : Written(x, t[i]) \in Seq(A) BY <1>0 DEF Written
  <2> QED BY <1>1, <2>1
<1>4. CASE n = 0
  <2> DEFINE f == [i \in {0} |-> <<>>]
  <2>1. seqs = <<>> BY <1>3, <1>4
  <2>2. FlattenSeq(seqs) = <<>> BY <2>1 DEF FlattenSeq
  <2>3. f[0] = <<>> OBVIOUS
  <2>4. \A i \in 0 .. n - 1 : FALSE BY <1>4
  <2> HIDE DEF f
  <2>5. Doubled(x, t) = f[n] BY <1>2, <1>4, <2>2, <2>3
  <2> QED BY <1>0, <2>3, <2>4, <2>5 DEF Writing
<1>5. CASE n # 0
  <2>1. PICK g : /\ FlattenSeq(seqs) = g[n]
                 /\ g[1] = seqs[1]
                 /\ \A i \in 1 .. n - 1 : g[i + 1] = g[i] \o seqs[i + 1]
    BY <1>3, <1>5, FlattenIs
  <2> DEFINE f == [i \in 0 .. n |-> IF i = 0 THEN <<>> ELSE g[i]]
  <2>2. f[0] = <<>> /\ \A i \in 1 .. n : f[i] = g[i] OBVIOUS
  <2> HIDE DEF f
  <2>3. Doubled(x, t) = f[n] BY <1>2, <1>5, <2>1, <2>2
  <2>4. \A i \in 1 .. n : seqs[i] = Written(x, t[i]) BY <1>1
  <2>5. ASSUME NEW i \in 0 .. n - 1 PROVE f[i + 1] = f[i] \o Written(x, t[i + 1])
    <3>1. i + 1 \in 1 .. n OBVIOUS
    <3>2. f[i + 1] = g[i + 1] /\ seqs[i + 1] = Written(x, t[i + 1]) BY <2>2, <2>4, <3>1
    <3>3. CASE i = 0
      <4>1. f[i + 1] = seqs[1] /\ i + 1 = 1 BY <2>1, <3>2, <3>3
      <4>2. seqs[1] \in Seq(A) BY <1>3, <3>1, <3>3
      <4>3. <<>> \o seqs[1] = seqs[1] BY <4>2
      <4> QED BY <2>2, <3>2, <3>3, <4>1, <4>3
    <3>4. CASE i # 0
      <4>1. i \in 1 .. n - 1 /\ i \in 1 .. n BY <3>4
      <4> QED BY <2>1, <2>2, <3>2, <4>1
    <3> QED BY <3>3, <3>4
  <2> QED BY <1>0, <2>2, <2>3, <2>5 DEF Writing
<1> QED BY <1>4, <1>5

\* A text without the character stays as it is
LEMMA NotDoubled ==
  ASSUME NEW A, NEW x \in A, NEW t \in Seq(A), \A i \in 1 .. Len(t) : t[i] # x
  PROVE  Doubled(x, t) = t
<1>0. PICK n \in Nat : n = Len(t) OBVIOUS
<1>1. PICK f : /\ Doubled(x, t) = f[n] /\ f[0] = <<>>
               /\ \A i \in 0 .. n - 1 : f[i + 1] = f[i] \o Written(x, t[i + 1])
  <2>1. PICK f : Writing(f, x, t) BY DoubledIs
  <2> QED BY <1>0, <2>1 DEF Writing
<1> DEFINE S == {k \in Nat : k <= n => f[k] = SubSeq(t, 1, k)}
<1>2. 0 \in S
  <2>1. SubSeq(t, 1, 0) = <<>> OBVIOUS
  <2> QED BY <1>1, <2>1
<1>3. ASSUME NEW k \in Nat, k \in S PROVE k + 1 \in S
  <2> SUFFICES ASSUME k + 1 <= n PROVE f[k + 1] = SubSeq(t, 1, k + 1) OBVIOUS
  <2>1. k \in 0 .. n - 1 /\ k + 1 \in 1 .. Len(t) BY <1>0
  <2>2. f[k] = SubSeq(t, 1, k) BY <1>3, <2>1
  <2>3. Written(x, t[k + 1]) = <<t[k + 1]>> BY <2>1 DEF Written
  <2>4. f[k + 1] = SubSeq(t, 1, k) \o <<t[k + 1]>> BY <1>1, <2>1, <2>2, <2>3
  <2>5. SubSeq(t, 1, k) \o <<t[k + 1]>> = SubSeq(t, 1, k + 1) BY <2>1
  <2> QED BY <2>4, <2>5
<1> HIDE DEF S
<1>4. n \in S BY <1>2, <1>3, SetInduction
<1>5. f[n] = SubSeq(t, 1, n) BY <1>4 DEF S
<1>6. SubSeq(t, 1, n) = t BY <1>0
<1> QED BY <1>1, <1>5, <1>6

\* One more character, by itself or behind a backslash
Spells(q, c) == (q = <<c>> /\ Plain(c)) \/ q = <<"\\", c>>
Spelled(p, w, e) == Coded(p, w, e) /\ e[1] = 1 /\ e[Len(w) + 1] = Len(p) + 1

LEMMA Appended ==
  ASSUME NEW A, NEW s \in Seq(A), NEW u \in Seq(A)
  PROVE  /\ s \o u \in Seq(A) /\ Len(s \o u) = Len(s) + Len(u)
         /\ \A i \in 1 .. Len(s) : (s \o u)[i] = s[i]
         /\ \A i \in 1 .. Len(u) : (s \o u)[Len(s) + i] = u[i]
OBVIOUS

LEMMA CodedMore ==
  ASSUME NEW A, NEW p \in Seq(A), NEW w \in Seq(A), NEW e, Spelled(p, w, e),
         NEW c \in A, NEW q \in Seq(A), Spells(q, c)
  PROVE  \E d : Spelled(p \o q, w \o <<c>>, d)
<1>0. PICK n \in Nat : n = Len(w) OBVIOUS
<1>1. PICK l \in Nat : l = Len(p) OBVIOUS
<1>2. PICK m \in Nat : m = Len(q) OBVIOUS
<1>3. PICK v \in Seq(A) : v = w \o <<c>>
  <2>1. <<c>> \in Seq(A) OBVIOUS
  <2> QED BY <2>1, Appended
<1>4. PICK r \in Seq(A) : r = p \o q BY Appended
<1>5. /\ Len(v) = n + 1 /\ v[n + 1] = c /\ \A k \in 1 .. n : v[k] = w[k]
  BY <1>0, <1>3
<1>6. /\ Len(r) = l + m /\ \A i \in 1 .. l : r[i] = p[i]
      /\ \A i \in 1 .. m : r[l + i] = q[i]
  BY <1>1, <1>2, <1>4
<1> DEFINE d == [k \in 1 .. n + 2 |-> IF k <= n + 1 THEN e[k] ELSE l + m + 1]
<1>7. (\A k \in 1 .. n + 1 : d[k] = e[k]) /\ d[n + 2] = l + m + 1 OBVIOUS
<1> HIDE DEF d
<1>8. \A k \in 1 .. n + 1 : e[k] \in 1 .. l + 1 BY <1>0, <1>1 DEF Coded, Spelled
<1>9. \A k \in 1 .. Len(v) + 1 : d[k] \in 1 .. Len(r) + 1
  <2>1. ASSUME NEW k \in 1 .. n + 2 PROVE d[k] \in 1 .. l + m + 1
    <3>1. CASE k \in 1 .. n + 1
      <4>1. PICK i \in 1 .. l + 1 : i = e[k] BY <1>8, <3>1
      <4>2. d[k] = i BY <1>7, <3>1, <4>1
      <4> QED BY <4>2
    <3>2. CASE k = n + 2 BY <1>7, <3>2
    <3> QED BY <3>1, <3>2
  <2> QED BY <1>5, <1>6, <2>1
<1>10. ASSUME NEW k \in 1 .. n PROVE HoldsAt(r, v, d, k)
  <2>1. HoldsAt(p, w, e, k) BY <1>0 DEF Coded, Spelled
  <2>2. k \in 1 .. n + 1 /\ k + 1 \in 1 .. n + 1 OBVIOUS
  <2>3. d[k] = e[k] /\ d[k + 1] = e[k + 1] /\ v[k] = w[k] BY <1>5, <1>7, <2>2
  <2>4. e[k] \in 1 .. l + 1 /\ e[k + 1] \in 1 .. l + 1 BY <1>8, <2>2
  <2>5. CASE e[k + 1] = e[k] + 1 /\ p[e[k]] = w[k] /\ Plain(w[k])
    <3>1. PICK i \in 1 .. l + 1 : i = e[k] BY <2>4
    <3>2. PICK j \in 1 .. l + 1 : j = e[k + 1] BY <2>4
    <3>3. j = i + 1 BY <2>5, <3>1, <3>2
    <3>4. i \in 1 .. l BY <3>3
    <3>5. r[e[k]] = p[e[k]] BY <1>6, <3>1, <3>4
    <3> QED BY <2>3, <2>5, <3>5 DEF HoldsAt
  <2>6. CASE e[k + 1] = e[k] + 2 /\ p[e[k]] = "\\" /\ p[e[k] + 1] = w[k]
    <3>1. PICK i \in 1 .. l + 1 : i = e[k] BY <2>4
    <3>2. PICK j \in 1 .. l + 1 : j = e[k + 1] BY <2>4
    <3>3. j = i + 2 BY <2>6, <3>1, <3>2
    <3>4. i \in 1 .. l /\ i + 1 \in 1 .. l BY <3>3
    <3>5. e[k] \in 1 .. l /\ e[k] + 1 \in 1 .. l BY <3>1, <3>4
    <3>6. r[e[k]] = p[e[k]] /\ r[e[k] + 1] = p[e[k] + 1] BY <1>6, <3>5
    <3> QED BY <2>3, <2>6, <3>6 DEF HoldsAt
  <2> QED BY <2>1, <2>5, <2>6 DEF HoldsAt
<1>11. HoldsAt(r, v, d, n + 1)
  <2>1. d[n + 1] = l + 1 /\ d[(n + 1) + 1] = l + m + 1
    <3>1. n + 1 \in 1 .. n + 1 /\ (n + 1) + 1 = n + 2 OBVIOUS
    <3> QED BY <1>0, <1>1, <1>7, <3>1 DEF Spelled
  <2>2. CASE q = <<c>> /\ Plain(c)
    <3>1. m = 1 /\ q[1] = c BY <1>2, <2>2
    <3>2. r[l + 1] = c BY <1>6, <3>1
    <3> QED BY <1>5, <2>1, <2>2, <3>1, <3>2 DEF HoldsAt
  <2>3. CASE q = <<"\\", c>>
    <3>1. m = 2 /\ q[1] = "\\" /\ q[2] = c BY <1>2, <2>3
    <3>2. r[l + 1] = "\\" /\ r[l + 2] = c BY <1>6, <3>1
    <3>3. (l + 1) + 1 = l + 2 /\ l + m + 1 = (l + 1) + 2 BY <3>1
    <3> QED BY <1>5, <2>1, <3>2, <3>3 DEF HoldsAt
  <2> QED BY <2>2, <2>3 DEF Spells
<1>12. \A k \in 1 .. Len(v) : HoldsAt(r, v, d, k)
  <2>1. 1 .. Len(v) = 1 .. n \cup {n + 1} BY <1>5
  <2> QED BY <1>10, <1>11, <2>1
<1>13. Coded(r, v, d) BY <1>9, <1>12 DEF Coded
<1>14. d[1] = 1 /\ d[Len(v) + 1] = Len(r) + 1
  <2>1. 1 \in 1 .. n + 1 /\ Len(v) + 1 = n + 2 BY <1>5
  <2>2. e[1] = 1 BY DEF Spelled
  <2> QED BY <1>6, <1>7, <2>1, <2>2
<1>15. Spelled(r, v, d) BY <1>13, <1>14 DEF Spelled
<1> QED BY <1>3, <1>4, <1>15

NoWildcard(t) == \A i \in 1 .. Len(t) : t[i] # "%" /\ t[i] # "_"

\* Doubled backslashes hold the text
LEMMA DoubledCodes ==
  ASSUME NEW A, "\\" \in A, NEW t \in Seq(A),
         NoWildcard(t)
  PROVE  Doubled("\\", t) \in Seq(A) /\ \E e : Spelled(Doubled("\\", t), t, e)
<1>0. PICK n \in Nat : n = Len(t) OBVIOUS
<1>1. PICK f : /\ Doubled("\\", t) = f[n] /\ f[0] = <<>>
               /\ \A i \in 0 .. n - 1 : f[i + 1] = f[i] \o Written("\\", t[i + 1])
  <2>1. PICK f : Writing(f, "\\", t) BY DoubledIs
  <2> QED BY <1>0, <2>1 DEF Writing
<1> DEFINE S == {k \in Nat : k <= n => f[k] \in Seq(A) /\ \E e : Spelled(f[k], SubSeq(t, 1, k), e)}
<1>2. 0 \in S
  <2>1. SubSeq(t, 1, 0) = <<>> OBVIOUS
  <2> DEFINE e == [k \in {1} |-> 1]
  <2>2. e[1] = 1 OBVIOUS
  <2> HIDE DEF e
  <2>3. Spelled(<<>>, <<>>, e)
    <3>1. \A k \in 1 .. Len(<<>>) + 1 : k = 1 OBVIOUS
    <3>2. \A k \in 1 .. Len(<<>>) : FALSE OBVIOUS
    <3>3. e[1] \in 1 .. Len(<<>>) + 1 /\ e[Len(<<>>) + 1] = Len(<<>>) + 1 BY <2>2
    <3> QED BY <2>2, <3>1, <3>2, <3>3 DEF Coded, Spelled
  <2>4. <<>> \in Seq(A) OBVIOUS
  <2> QED BY <1>1, <2>1, <2>3, <2>4
<1>3. ASSUME NEW k \in Nat, k \in S PROVE k + 1 \in S
  <2> SUFFICES ASSUME k + 1 <= n
               PROVE  f[k + 1] \in Seq(A) /\ \E e : Spelled(f[k + 1], SubSeq(t, 1, k + 1), e)
    OBVIOUS
  <2>1. k \in 0 .. n - 1 /\ k + 1 \in 1 .. Len(t) BY <1>0
  <2>2. PICK p \in Seq(A) : p = f[k] BY <1>3, <2>1
  <2>3. PICK w \in Seq(A) : w = SubSeq(t, 1, k)
    <3>1. SubSeq(t, 1, k) \in Seq(A) BY <2>1
    <3> QED BY <3>1
  <2>4. PICK c \in A : c = t[k + 1] BY <2>1
  <2>5. PICK q : q = Written("\\", c) OBVIOUS
  <2>6. q \in Seq(A) BY <2>5 DEF Written
  <2>7. Spells(q, c) BY <2>1, <2>4, <2>5 DEF NoWildcard, Spells, Written, Plain
  <2>8. PICK e : Spelled(p, w, e) BY <1>3, <2>1, <2>2, <2>3
  <2>9. \E d : Spelled(p \o q, w \o <<c>>, d) BY <2>6, <2>7, <2>8, CodedMore
  <2>10. f[k + 1] = p \o q BY <1>1, <2>1, <2>2, <2>4, <2>5
  <2>11. SubSeq(t, 1, k + 1) = w \o <<c>> BY <2>1, <2>3, <2>4
  <2>12. p \o q \in Seq(A) BY <2>6, Appended
  <2> QED BY <2>9, <2>10, <2>11, <2>12
<1> HIDE DEF S
<1>4. n \in S BY <1>2, <1>3, SetInduction
<1>5. f[n] \in Seq(A) /\ \E e : Spelled(f[n], SubSeq(t, 1, n), e) BY <1>4 DEF S
<1>6. SubSeq(t, 1, n) = t BY <1>0
<1> QED BY <1>1, <1>5, <1>6

\* A text, in small letters or as it is
As(b, t) == IF b THEN Lower(t) ELSE t

LEMMA AsIs ==
  ASSUME NEW A, "a" \in A, NEW b \in BOOLEAN, NEW t \in Seq(A)
  PROVE  /\ As(b, t) \in Seq(A) /\ Len(As(b, t)) = Len(t)
         /\ \A i \in 1 .. Len(t) : As(b, t)[i] = IF b /\ t[i] = "A" THEN "a" ELSE t[i]
<1>1. CASE b
  <2>1. As(b, t) = [i \in 1 .. Len(t) |-> IF t[i] = "A" THEN "a" ELSE t[i]]
    <3>1. DOMAIN t = 1 .. Len(t) OBVIOUS
    <3> QED BY <1>1, <3>1, Zenon DEF As, Lower
  <2>2. \A i \in 1 .. Len(t) : (IF t[i] = "A" THEN "a" ELSE t[i]) \in A OBVIOUS
  <2>3. Len(t) \in Nat OBVIOUS
  <2>4. As(b, t) \in Seq(A) /\ Len(As(b, t)) = Len(t) BY <2>1, <2>2, <2>3
  <2>5. \A i \in 1 .. Len(t) : As(b, t)[i] = IF t[i] = "A" THEN "a" ELSE t[i] BY <2>1, Zenon
  <2> QED BY <1>1, <2>4, <2>5
<1>2. CASE ~b BY <1>2 DEF As
<1> QED BY <1>1, <1>2

LEMMA AnyAs ==
  ASSUME NEW A, "a" \in A, NEW b \in BOOLEAN, NEW t \in Seq(A), NEW i \in 1 .. Len(t), t[i] = "%"
  PROVE  As(b, t)[i] = "%"
BY AsIs

LEMMA CodedAs ==
  ASSUME NEW A, "a" \in A, NEW b \in BOOLEAN, NEW p \in Seq(A), NEW w \in Seq(A), NEW e, Coded(p, w, e)
  PROVE  Coded(As(b, p), As(b, w), e)
<1>1. PICK q \in Seq(A) : q = As(b, p) BY AsIs
<1>2. PICK v \in Seq(A) : v = As(b, w) BY AsIs
<1>3. /\ Len(q) = Len(p)
      /\ \A i \in 1 .. Len(p) : q[i] = IF b /\ p[i] = "A" THEN "a" ELSE p[i]
  BY <1>1, AsIs
<1>4. /\ Len(v) = Len(w)
      /\ \A i \in 1 .. Len(w) : v[i] = IF b /\ w[i] = "A" THEN "a" ELSE w[i]
  BY <1>2, AsIs
<1>5. PICK l \in Nat : l = Len(p) OBVIOUS
<1>6. PICK n \in Nat : n = Len(w) OBVIOUS
<1>7. \A k \in 1 .. n + 1 : e[k] \in 1 .. l + 1 BY <1>5, <1>6 DEF Coded
<1>8. ASSUME NEW k \in 1 .. n PROVE HoldsAt(q, v, e, k)
  <2>1. PICK i \in 1 .. l + 1 : i = e[k] BY <1>7
  <2>2. PICK j \in 1 .. l + 1 : j = e[k + 1] BY <1>7
  <2>3. v[k] = IF b /\ w[k] = "A" THEN "a" ELSE w[k] BY <1>4, <1>6
  <2>4. HoldsAt(p, w, e, k) BY <1>6 DEF Coded
  <2>5. CASE j = i + 1 /\ p[i] = w[k] /\ Plain(w[k])
    <3>1. i \in 1 .. l BY <2>5
    <3>2. q[i] = v[k] BY <1>3, <1>5, <2>3, <2>5, <3>1
    <3>3. Plain(v[k]) BY <2>3, <2>5 DEF Plain
    <3> QED BY <2>1, <2>2, <2>5, <3>2, <3>3 DEF HoldsAt
  <2>6. CASE j = i + 2 /\ p[i] = "\\" /\ p[i + 1] = w[k]
    <3>1. i \in 1 .. l /\ i + 1 \in 1 .. l BY <2>6
    <3>2. q[i] = "\\" /\ q[i + 1] = v[k] BY <1>3, <1>5, <2>3, <2>6, <3>1
    <3> QED BY <2>1, <2>2, <2>6, <3>2 DEF HoldsAt
  <2> QED BY <2>1, <2>2, <2>4, <2>5, <2>6 DEF HoldsAt
<1>9. Coded(q, v, e) BY <1>3, <1>4, <1>5, <1>6, <1>7, <1>8 DEF Coded
<1> QED BY <1>1, <1>2, <1>9

\* What is coded stays so when the pattern goes on, and when it begins earlier
LEMMA CodedLonger ==
  ASSUME NEW A, NEW p \in Seq(A), NEW q \in Seq(A), NEW w \in Seq(A), NEW e, Coded(p, w, e)
  PROVE  Coded(p \o q, w, e)
<1>1. PICK r \in Seq(A) : r = p \o q BY Appended
<1>2. PICK l \in Nat : l = Len(p) OBVIOUS
<1>3. PICK m \in Nat : m = Len(r) OBVIOUS
<1>4. PICK n \in Nat : n = Len(w) OBVIOUS
<1>5. l <= m /\ \A i \in 1 .. l : r[i] = p[i] BY <1>1, <1>2, <1>3, Appended
<1>6. \A k \in 1 .. n + 1 : e[k] \in 1 .. l + 1 BY <1>2, <1>4 DEF Coded
<1>7. ASSUME NEW k \in 1 .. n PROVE HoldsAt(r, w, e, k)
  <2>1. PICK i \in 1 .. l + 1 : i = e[k] BY <1>6
  <2>2. PICK j \in 1 .. l + 1 : j = e[k + 1] BY <1>6
  <2>3. HoldsAt(p, w, e, k) BY <1>4 DEF Coded
  <2>4. CASE j = i + 1 /\ p[i] = w[k] /\ Plain(w[k])
    <3>1. i \in 1 .. l BY <2>4
    <3>2. r[i] = p[i] BY <1>5, <3>1
    <3> QED BY <2>1, <2>2, <2>4, <3>2 DEF HoldsAt
  <2>5. CASE j = i + 2 /\ p[i] = "\\" /\ p[i + 1] = w[k]
    <3>1. i \in 1 .. l /\ i + 1 \in 1 .. l BY <2>5
    <3>2. r[i] = p[i] /\ r[i + 1] = p[i + 1] BY <1>5, <3>1
    <3> QED BY <2>1, <2>2, <2>5, <3>2 DEF HoldsAt
  <2> QED BY <2>1, <2>2, <2>3, <2>4, <2>5 DEF HoldsAt
<1>8. \A k \in 1 .. n + 1 : e[k] \in 1 .. m + 1 BY <1>5, <1>6
<1>9. Coded(r, w, e) BY <1>3, <1>4, <1>7, <1>8 DEF Coded
<1> QED BY <1>1, <1>9

LEMMA CodedLater ==
  ASSUME NEW A, NEW p \in Seq(A), NEW x \in A, NEW w \in Seq(A), NEW e, Spelled(p, w, e)
  PROVE  \E d : /\ Coded(<<x>> \o p, w, d)
                /\ d[1] = 2 /\ d[Len(w) + 1] = Len(<<x>> \o p) + 1
<1>0. PICK one \in Seq(A) : one = <<x>>
  <2>1. <<x>> \in Seq(A) OBVIOUS
  <2> QED BY <2>1
<1>1. PICK r \in Seq(A) : r = one \o p BY Appended
<1>2. PICK l \in Nat : l = Len(p) OBVIOUS
<1>4. PICK n \in Nat : n = Len(w) OBVIOUS
<1>5. Len(r) = l + 1 /\ \A i \in 1 .. l : r[i + 1] = p[i]
  <2>1. Len(one) = 1 BY <1>0
  <2>2. Len(r) = Len(one) + Len(p) /\ \A i \in 1 .. Len(p) : r[Len(one) + i] = p[i]
    BY <1>1
  <2>3. \A i \in 1 .. l : 1 + i = i + 1 OBVIOUS
  <2> QED BY <1>2, <2>1, <2>2, <2>3
<1>6. \A k \in 1 .. n + 1 : e[k] \in 1 .. l + 1 BY <1>2, <1>4 DEF Coded, Spelled
<1> DEFINE d == [k \in 1 .. n + 1 |-> e[k] + 1]
<1>7. \A k \in 1 .. n + 1 : d[k] = e[k] + 1 OBVIOUS
<1> HIDE DEF d
<1>8. ASSUME NEW k \in 1 .. n PROVE HoldsAt(r, w, d, k)
  <2>1. PICK i \in 1 .. l + 1 : i = e[k] BY <1>6
  <2>2. PICK j \in 1 .. l + 1 : j = e[k + 1] BY <1>6
  <2>3. HoldsAt(p, w, e, k) BY <1>4 DEF Coded, Spelled
  <2>4. d[k] = i + 1 /\ d[k + 1] = j + 1 BY <1>7, <2>1, <2>2
  <2>5. CASE j = i + 1 /\ p[i] = w[k] /\ Plain(w[k])
    <3>1. i \in 1 .. l BY <2>5
    <3>2. r[i + 1] = p[i] BY <1>5, <3>1
    <3> QED BY <2>4, <2>5, <3>2 DEF HoldsAt
  <2>6. CASE j = i + 2 /\ p[i] = "\\" /\ p[i + 1] = w[k]
    <3>1. i \in 1 .. l /\ i + 1 \in 1 .. l BY <2>6
    <3>2. r[i + 1] = p[i] /\ r[(i + 1) + 1] = p[i + 1] BY <1>5, <3>1
    <3>3. d[k + 1] = d[k] + 2 BY <2>4, <2>6
    <3> QED BY <2>4, <2>6, <3>2, <3>3 DEF HoldsAt
  <2> QED BY <2>1, <2>2, <2>3, <2>5, <2>6 DEF HoldsAt
<1>9. ASSUME NEW k \in 1 .. n + 1 PROVE d[k] \in 1 .. (l + 1) + 1
  <2>1. PICK i \in 1 .. l + 1 : i = e[k] BY <1>6
  <2>2. d[k] = i + 1 BY <1>7, <2>1
  <2> QED BY <2>2
<1>10. Coded(r, w, d) BY <1>4, <1>5, <1>8, <1>9 DEF Coded
<1>11. d[1] = 2 /\ d[n + 1] = Len(r) + 1
  <2>1. 1 \in 1 .. n + 1 /\ n + 1 \in 1 .. n + 1 OBVIOUS
  <2>2. e[1] = 1 /\ e[n + 1] = l + 1 BY <1>2, <1>4 DEF Spelled
  <2> QED BY <1>5, <1>7, <2>1, <2>2
<1> QED BY <1>0, <1>1, <1>4, <1>10, <1>11

\* A text of plain characters stands for itself
LEMMA PlainWhole ==
  ASSUME NEW A, NEW w \in Seq(A), \A i \in 1 .. Len(w) : Plain(w[i])
  PROVE  \E e : Spelled(w, w, e)
<1>0. PICK n \in Nat : n = Len(w) OBVIOUS
<1> DEFINE e == [k \in 1 .. n + 1 |-> k]
<1>1. \A k \in 1 .. n + 1 : e[k] = k OBVIOUS
<1> HIDE DEF e
<1>2. \A k \in 1 .. n : HoldsAt(w, w, e, k)
  <2>1. ASSUME NEW k \in 1 .. n PROVE HoldsAt(w, w, e, k)
    <3>1. e[k] = k /\ e[k + 1] = k + 1 BY <1>1
    <3>2. Plain(w[k]) BY <1>0
    <3> QED BY <3>1, <3>2 DEF HoldsAt
  <2> QED BY <2>1
<1>3. Coded(w, w, e) BY <1>0, <1>1, <1>2 DEF Coded
<1>4. e[1] = 1 /\ e[n + 1] = n + 1 BY <1>1
<1> QED BY <1>0, <1>3, <1>4 DEF Spelled

\* What the operators of a text ask for
Characters == STRING \cup {"'", "\\", "%", "a"}
Free(sv, operator, v) == ToSet(v) \cap Special(sv, operator) = {}

LEMMA FreeOf ==
  ASSUME NEW v, NEW n \in Nat, DOMAIN v = 1 .. n, NEW S, ToSet(v) \cap S = {}
  PROVE  \A i \in 1 .. n : v[i] \notin S
BY DEF ToSet

LEMMA ComparedIs ==
  ASSUME NEW sv
  PROVE  \E b \in BOOLEAN : \A t : Compared(sv, t) = As(b, t)
<1>1. CASE sv = "mysql"
  <2>1. TRUE \in BOOLEAN /\ \A t : Compared(sv, t) = As(TRUE, t) BY <1>1 DEF Compared, As
  <2> QED BY <2>1
<1>2. CASE sv # "mysql"
  <2>1. FALSE \in BOOLEAN /\ \A t : Compared(sv, t) = As(FALSE, t) BY <1>2 DEF Compared, As
  <2> QED BY <2>1
<1> QED BY <1>1, <1>2

\* The value of startsWith and endsWith stands for the text, in PostgreSQL as it is
LEMMA EscapedWhole ==
  ASSUME NEW A, "'" \in A, "\\" \in A, NEW sv \in {"postgres", "mysql"}, NEW v \in Seq(A), NEW op,
         op \in {"startsWith", "endsWith"}, Free(sv, op, v)
  PROVE  Escaped(sv, v) \in Seq(A) /\ \E e : Spelled(Escaped(sv, v), v, e)
<1>1. \A i \in 1 .. Len(v) : v[i] # "%" /\ v[i] # "_" /\ v[i] # "'" /\ (sv = "postgres" => v[i] # "\\")
  <2>1. DOMAIN v = 1 .. Len(v) /\ Len(v) \in Nat OBVIOUS
  <2>2. \A i \in 1 .. Len(v) : v[i] \notin Special(sv, op) BY <2>1, FreeOf DEF Free
  <2>3. /\ "%" \in Special(sv, op) /\ "_" \in Special(sv, op) /\ "'" \in Special(sv, op)
        /\ sv = "postgres" => "\\" \in Special(sv, op)
    BY DEF Special
  <2> QED BY <2>2, <2>3
<1>2. DoubleQuotes(v) = v BY <1>1, NotDoubled DEF DoubleQuotes
<1>3. CASE sv = "mysql"
  <2>1. Escaped(sv, v) = Doubled("\\", v) BY <1>2, <1>3 DEF Escaped, DoubleSlashes
  <2>2. NoWildcard(v) BY <1>1 DEF NoWildcard
  <2> QED BY <2>1, <2>2, DoubledCodes
<1>4. CASE sv = "postgres"
  <2>1. Escaped(sv, v) = v BY <1>2, <1>4 DEF Escaped
  <2>2. \A i \in 1 .. Len(v) : Plain(v[i]) BY <1>1, <1>4 DEF Plain
  <2> QED BY <2>1, <2>2, PlainWhole
<1> QED BY <1>3, <1>4

LEMMA StartsKept ==
  ASSUME NEW A, "'" \in A, "\\" \in A, "%" \in A, "a" \in A, NEW sv \in {"postgres", "mysql"},
         NEW b \in BOOLEAN, NEW v \in Seq(A), NEW kept \in Seq(A), Free(sv, "startsWith", v)
  PROVE  Like(As(b, Escaped(sv, v) \o <<"%">>), As(b, kept)) <=> IsPrefix(As(b, v), As(b, kept))
<1>1. PICK u \in Seq(A) : u = Escaped(sv, v) BY EscapedWhole
<1>2. PICK e : Spelled(u, v, e) BY <1>1, EscapedWhole
<1>3. PICK any \in Seq(A) : any = <<"%">>
  <2>1. <<"%">> \in Seq(A) OBVIOUS
  <2> QED BY <2>1
<1>4. PICK p \in Seq(A) : p = u \o any BY Appended
<1>5. Coded(p, v, e) BY <1>2, <1>4, CodedLonger DEF Spelled
<1>6. PICK l \in Nat : l = Len(u) OBVIOUS
<1>7. Len(p) = l + 1 /\ p[l + 1] = "%"
  <2>1. Len(any) = 1 /\ any[1] = "%" BY <1>3
  <2>2. Len(p) = Len(u) + Len(any) /\ \A i \in 1 .. Len(any) : p[Len(u) + i] = any[i]
    BY <1>4
  <2>3. 1 \in 1 .. 1 OBVIOUS
  <2> QED BY <1>6, <2>1, <2>2, <2>3
<1>8. e[1] = 1 /\ e[Len(v) + 1] = Len(p) BY <1>2, <1>6, <1>7 DEF Spelled
<1>9. PICK q \in Seq(A) : q = As(b, p) BY AsIs
<1>10. PICK w \in Seq(A) : w = As(b, v) BY AsIs
<1>11. PICK t \in Seq(A) : t = As(b, kept) BY AsIs
<1>12. Coded(q, w, e) BY <1>5, <1>9, <1>10, CodedAs
<1>13. Len(q) = Len(p) /\ Len(w) = Len(v) BY <1>9, <1>10, AsIs
<1>14. q[Len(q)] = "%"
  <2>1. PICK i \in 1 .. Len(p) : i = l + 1 BY <1>7
  <2>2. As(b, p)[i] = "%" BY <1>7, <2>1, AnyAs
  <2> QED BY <1>7, <1>9, <1>13, <2>1, <2>2
<1>15. Like(q, t) <=> IsPrefix(w, t) BY <1>8, <1>12, <1>13, <1>14, LikeStarts
<1> QED BY <1>1, <1>3, <1>4, <1>9, <1>10, <1>11, <1>15

LEMMA EndsKept ==
  ASSUME NEW A, "'" \in A, "\\" \in A, "%" \in A, "a" \in A, NEW sv \in {"postgres", "mysql"},
         NEW b \in BOOLEAN, NEW v \in Seq(A), NEW kept \in Seq(A), Free(sv, "endsWith", v)
  PROVE  Like(As(b, <<"%">> \o Escaped(sv, v)), As(b, kept)) <=> IsSuffix(As(b, v), As(b, kept))
<1>1. PICK u \in Seq(A) : u = Escaped(sv, v) BY EscapedWhole
<1>2. PICK e : Spelled(u, v, e) BY <1>1, EscapedWhole
<1>3. PICK any \in Seq(A) : any = <<"%">>
  <2>1. <<"%">> \in Seq(A) OBVIOUS
  <2> QED BY <2>1
<1>4. PICK p \in Seq(A) : p = any \o u BY Appended
<1>5. PICK d : Coded(p, v, d) /\ d[1] = 2 /\ d[Len(v) + 1] = Len(p) + 1
  BY <1>2, <1>3, <1>4, CodedLater
<1>6. Len(p) \in Nat \ {0} /\ p[1] = "%"
  <2>1. Len(any) = 1 /\ any[1] = "%" BY <1>3
  <2>2. Len(p) = Len(any) + Len(u) /\ \A i \in 1 .. Len(any) : p[i] = any[i]
    BY <1>4
  <2>3. 1 \in 1 .. 1 /\ Len(u) \in Nat OBVIOUS
  <2> QED BY <2>1, <2>2, <2>3
<1>9. PICK q \in Seq(A) : q = As(b, p) BY AsIs
<1>10. PICK w \in Seq(A) : w = As(b, v) BY AsIs
<1>11. PICK t \in Seq(A) : t = As(b, kept) BY AsIs
<1>12. Coded(q, w, d) BY <1>5, <1>9, <1>10, CodedAs
<1>13. Len(q) = Len(p) /\ Len(w) = Len(v) BY <1>9, <1>10, AsIs
<1>14. q[1] = "%"
  <2>1. 1 \in 1 .. Len(p) BY <1>6
  <2> QED BY <1>6, <1>9, <2>1, AnyAs
<1>15. Like(q, t) <=> IsSuffix(w, t) BY <1>5, <1>12, <1>13, <1>14, LikeEnds
<1> QED BY <1>1, <1>3, <1>4, <1>9, <1>10, <1>11, <1>15

LEMMA PiecesKept ==
  ASSUME NEW A, "%" \in A, "a" \in A, NEW sv, NEW op \in {"contains", "icontains"},
         NEW b \in BOOLEAN, NEW v \in Seq(A), NEW kept \in Seq(A), Free(sv, op, v)
  PROVE  Like(As(b, LikeValue(v)), As(b, kept)) <=> IsPiece(As(b, v), As(b, kept))
<1>0. \A i \in 1 .. Len(v) : v[i] # "%" /\ v[i] # "_" /\ v[i] # "\\"
  <2>1. DOMAIN v = 1 .. Len(v) /\ Len(v) \in Nat OBVIOUS
  <2>2. \A i \in 1 .. Len(v) : v[i] \notin Special(sv, op) BY <2>1, FreeOf DEF Free
  <2>3. "%" \in Special(sv, op) /\ "_" \in Special(sv, op) /\ "\\" \in Special(sv, op)
    BY DEF Special
  <2> QED BY <2>2, <2>3
<1>1. LikeValue(v) = (<<"%">> \o v) \o <<"%">>
  <2>1. DOMAIN v = 1 .. Len(v) OBVIOUS
  <2>2. ToSet(v) \cap {"%", "_"} = {} BY <1>0, <2>1 DEF ToSet
  <2> QED BY <2>2, Zenon DEF LikeValue
<1>2. PICK e : Spelled(v, v, e)
  <2>1. \A i \in 1 .. Len(v) : Plain(v[i]) BY <1>0 DEF Plain
  <2> QED BY <2>1, PlainWhole
<1>3. PICK any \in Seq(A) : any = <<"%">>
  <2>1. <<"%">> \in Seq(A) OBVIOUS
  <2> QED BY <2>1
<1>4. PICK r \in Seq(A) : r = any \o v BY Appended
<1>5. PICK d : Coded(r, v, d) /\ d[1] = 2 /\ d[Len(v) + 1] = Len(r) + 1
  BY <1>2, <1>3, <1>4, CodedLater
<1>6. PICK p \in Seq(A) : p = r \o any BY Appended
<1>7. Coded(p, v, d) BY <1>5, <1>6, CodedLonger
<1>8. /\ Len(r) \in Nat \ {0} /\ Len(p) = Len(r) + 1
      /\ p[1] = "%" /\ p[Len(p)] = "%"
  <2>1. Len(any) = 1 /\ any[1] = "%" BY <1>3
  <2>2. Len(r) = Len(any) + Len(v) /\ \A i \in 1 .. Len(any) : r[i] = any[i]
    BY <1>4
  <2>3. /\ Len(p) = Len(r) + Len(any) /\ \A i \in 1 .. Len(r) : p[i] = r[i]
        /\ \A i \in 1 .. Len(any) : p[Len(r) + i] = any[i]
    BY <1>6
  <2>4. 1 \in 1 .. 1 /\ Len(v) \in Nat OBVIOUS
  <2>5. Len(r) \in Nat \ {0} /\ 1 \in 1 .. Len(r) BY <2>1, <2>2, <2>4
  <2> QED BY <2>1, <2>2, <2>3, <2>4, <2>5
<1>9. PICK q \in Seq(A) : q = As(b, p) BY AsIs
<1>10. PICK w \in Seq(A) : w = As(b, v) BY AsIs
<1>11. PICK t \in Seq(A) : t = As(b, kept) BY AsIs
<1>12. Coded(q, w, d) BY <1>7, <1>9, <1>10, CodedAs
<1>13. Len(q) = Len(p) /\ Len(w) = Len(v) BY <1>9, <1>10, AsIs
<1>14. q[1] = "%" /\ q[Len(q)] = "%"
  <2>1. 1 \in 1 .. Len(p) /\ Len(p) \in 1 .. Len(p) BY <1>8
  <2>2. PICK m \in 1 .. Len(p) : m = Len(p) BY <2>1
  <2>3. p[1] = "%" /\ p[m] = "%" BY <1>8, <2>2
  <2>4. As(b, p)[1] = "%" BY <2>1, <2>3, AnyAs
  <2>5. As(b, p)[m] = "%" BY <2>3, AnyAs
  <2> QED BY <1>9, <1>13, <2>2, <2>4, <2>5
<1>15. d[1] = 2 /\ d[Len(w) + 1] = Len(q) BY <1>5, <1>8, <1>13
<1>16. Like(q, t) <=> IsPiece(w, t) BY <1>12, <1>14, <1>15, LikeHolds
<1> QED BY <1>1, <1>3, <1>4, <1>6, <1>9, <1>10, <1>11, <1>16

LEMMA TextOperators ==
  ASSUME NEW o \in ToSet(OperatorsOf("text"))
  PROVE  o \in {"eq", "neq", "contains", "icontains", "startsWith", "endsWith", "isNull", "isNotNull", "in"}
BY DEF ToSet, OperatorsOf

\* Each operator of a text keeps what its label says
Agrees(sv, o, v, kept) == Keeps(sv, o, v, kept) <=> Means(sv, o, v, kept)

LEMMA DirectAgree ==
  ASSUME NEW sv, NEW o \in {"eq", "neq", "isNull", "isNotNull", "in"}, NEW v,
         NEW kept \in LiteralTexts \cup {NoText}
  PROVE  Agrees(sv, o, v, kept)
<1>1. CASE o = "isNull" BY <1>1 DEF Agrees, Keeps, Means
<1>2. CASE o = "isNotNull" BY <1>2 DEF Agrees, Keeps, Means
<1>3. CASE o = "eq" BY <1>3 DEF Agrees, Keeps, Means
<1>4. CASE o = "neq"
  <2>1. Keeps(sv, o, v, kept) = (kept # NoText /\ Compared(sv, kept) # Compared(sv, v)) BY <1>4 DEF Keeps
  <2>2. Means(sv, o, v, kept) =
          (kept \notin {NoText} \cup {t \in LiteralTexts : Compared(sv, t) = Compared(sv, v)})
    BY <1>4 DEF Means
  <2> QED BY <2>1, <2>2 DEF Agrees
<1>5. CASE o = "in"
  <2>1. Keeps(sv, o, v, kept) =
          (kept # NoText /\ \E w \in InValues(v) : Compared(sv, kept) = Compared(sv, w))
    BY <1>5 DEF Keeps
  <2>2. Means(sv, o, v, kept) =
          (kept # NoText /\ \E p \in Parts(v) : Trim(p) # <<>> /\ Compared(sv, Trim(p)) = Compared(sv, kept))
    BY <1>5 DEF Means
  <2>3. (\E w \in InValues(v) : Compared(sv, kept) = Compared(sv, w)) <=>
          \E p \in Parts(v) : Trim(p) # <<>> /\ Compared(sv, Trim(p)) = Compared(sv, kept)
    BY DEF InValues
  <2> QED BY <2>1, <2>2, <2>3 DEF Agrees
<1> QED BY <1>1, <1>2, <1>3, <1>4, <1>5

LEMMA Booleans ==
  ASSUME NEW sv, NEW v, NEW kept,
         NEW o \in {"eq", "neq", "contains", "icontains", "startsWith", "endsWith", "isNull", "isNotNull", "in"}
  PROVE  Keeps(sv, o, v, kept) \in BOOLEAN /\ Means(sv, o, v, kept) \in BOOLEAN
BY DEF Keeps, Means

LEMMA SeqWider ==
  ASSUME NEW A, NEW B, A \subseteq B, NEW s \in Seq(A)
  PROVE  s \in Seq(B)
<1>1. s = [i \in 1 .. Len(s) |-> s[i]] /\ Len(s) \in Nat /\ \A i \in 1 .. Len(s) : s[i] \in B OBVIOUS
<1> QED BY <1>1

LEMMA LikeAgree ==
  ASSUME NEW sv \in {"postgres", "mysql"}, NEW v \in LiteralTexts, NEW kept \in LiteralTexts,
         NEW o \in {"contains", "icontains", "startsWith", "endsWith"}, Free(sv, o, v), kept # NoText
  PROVE  Agrees(sv, o, v, kept)
<1>1. PICK A : A = Characters OBVIOUS
<1>2. "'" \in A /\ "\\" \in A /\ "%" \in A /\ "a" \in A BY <1>1 DEF Characters
<1>3. v \in Seq(A) /\ kept \in Seq(A)
  <2>1. STRING \subseteq A BY <1>1 DEF Characters
  <2>2. v \in Seq(STRING) /\ kept \in Seq(STRING) BY TextsAssumption
  <2> QED BY <2>1, <2>2, SeqWider
<1>4. PICK b \in BOOLEAN : \A t : Compared(sv, t) = As(b, t) BY ComparedIs
<1>5. Len(As(b, kept)) = Len(kept) /\ Len(As(TRUE, kept)) = Len(kept) BY <1>2, <1>3, AsIs
<1>6. \A t : Lower(t) = As(TRUE, t) BY DEF As
<1>7. CASE o = "startsWith"
  <2>1. Keeps(sv, o, v, kept) <=> Like(Compared(sv, Escaped(sv, v) \o <<"%">>), Compared(sv, kept))
    BY <1>7 DEF Keeps
  <2>2. Means(sv, o, v, kept) <=> IsPrefix(Compared(sv, v), Compared(sv, kept)) BY <1>7 DEF Means
  <2>3. Like(As(b, Escaped(sv, v) \o <<"%">>), As(b, kept)) <=> IsPrefix(As(b, v), As(b, kept))
    BY <1>2, <1>3, <1>7, StartsKept
  <2>4. /\ Compared(sv, Escaped(sv, v) \o <<"%">>) = As(b, Escaped(sv, v) \o <<"%">>)
        /\ Compared(sv, kept) = As(b, kept) /\ Compared(sv, v) = As(b, v)
    BY <1>4, Zenon
  <2> QED BY <2>1, <2>2, <2>3, <2>4 DEF Agrees
<1>8. CASE o = "endsWith"
  <2>1. Keeps(sv, o, v, kept) <=> Like(Compared(sv, <<"%">> \o Escaped(sv, v)), Compared(sv, kept))
    BY <1>8 DEF Keeps
  <2>2. Means(sv, o, v, kept) <=> IsSuffix(Compared(sv, v), Compared(sv, kept)) BY <1>8 DEF Means
  <2>3. Like(As(b, <<"%">> \o Escaped(sv, v)), As(b, kept)) <=> IsSuffix(As(b, v), As(b, kept))
    BY <1>2, <1>3, <1>8, EndsKept
  <2>4. /\ Compared(sv, <<"%">> \o Escaped(sv, v)) = As(b, <<"%">> \o Escaped(sv, v))
        /\ Compared(sv, kept) = As(b, kept) /\ Compared(sv, v) = As(b, v)
    BY <1>4, Zenon
  <2> QED BY <2>1, <2>2, <2>3, <2>4 DEF Agrees
<1>9. CASE o = "contains"
  <2>1. Keeps(sv, o, v, kept) <=> Like(Compared(sv, LikeValue(v)), Compared(sv, kept)) BY <1>9 DEF Keeps
  <2>2. Means(sv, o, v, kept) <=>
          \E i, j \in 0 .. Len(kept) : SubSeq(Compared(sv, kept), i + 1, j) = Compared(sv, v)
    BY <1>9 DEF Means
  <2>3. Like(As(b, LikeValue(v)), As(b, kept)) <=> IsPiece(As(b, v), As(b, kept))
    BY <1>2, <1>3, <1>9, PiecesKept
  <2>4. /\ Compared(sv, LikeValue(v)) = As(b, LikeValue(v))
        /\ Compared(sv, kept) = As(b, kept) /\ Compared(sv, v) = As(b, v)
    BY <1>4, Zenon
  <2>5. Means(sv, o, v, kept) <=> IsPiece(As(b, v), As(b, kept)) BY <1>5, <2>2, <2>4 DEF IsPiece
  <2> QED BY <2>1, <2>3, <2>4, <2>5 DEF Agrees
<1>10. CASE o = "icontains"
  <2>1. Keeps(sv, o, v, kept) <=> Like(Lower(LikeValue(v)), Lower(kept)) BY <1>10 DEF Keeps
  <2>2. Means(sv, o, v, kept) <=>
          \E i, j \in 0 .. Len(kept) : SubSeq(Lower(kept), i + 1, j) = Lower(v)
    BY <1>10 DEF Means
  <2>3. Like(As(TRUE, LikeValue(v)), As(TRUE, kept)) <=> IsPiece(As(TRUE, v), As(TRUE, kept))
    BY <1>2, <1>3, <1>10, PiecesKept
  <2>4. Means(sv, o, v, kept) <=> IsPiece(As(TRUE, v), As(TRUE, kept)) BY <1>5, <1>6, <2>2, Zenon DEF IsPiece
  <2> QED BY <1>6, <2>1, <2>3, <2>4, Zenon DEF Agrees
<1> QED BY <1>7, <1>8, <1>9, <1>10

LEMMA NothingAgrees ==
  ASSUME NEW sv, NEW v, NEW o \in {"contains", "icontains", "startsWith", "endsWith"}
  PROVE  Agrees(sv, o, v, NoText)
<1>1. o \notin {"isNull", "isNotNull", "eq", "neq"} OBVIOUS
<1>2. Keeps(sv, o, v, NoText) = FALSE BY <1>1 DEF Keeps
<1>3. Means(sv, o, v, NoText) = FALSE BY <1>1 DEF Means
<1> QED BY <1>2, <1>3 DEF Agrees

LEMMA KeepsLabelled ==
  ASSUME FilterTypeOK
  PROVE  KeepsAsLabelled
<1> SUFFICES ASSUME chip.category = "text", Free(server, chip.operator, chip.value),
                    NEW kept \in LiteralTexts \cup {NoText}
             PROVE  Keeps(server, chip.operator, chip.value, kept) = Means(server, chip.operator, chip.value, kept)
  BY Zenon DEF KeepsAsLabelled, Free
<1>1. chip \in Filters /\ server \in {"postgres", "mysql"}
  <2>1. NoTest.category # "text" BY DEF NoTest
  <2> QED BY <2>1 DEF FilterTypeOK
<1>2. PICK c \in FilterCategories :
        chip \in [category : {c}, operator : ToSet(OperatorsOf(c)), value : LiteralTexts]
  BY <1>1 DEF Filters
<1>3. c = "text" BY <1>2
<1>4. chip.operator \in ToSet(OperatorsOf("text")) /\ chip.value \in LiteralTexts BY <1>2, <1>3
<1>5. PICK o : o = chip.operator OBVIOUS
<1>6. PICK v \in LiteralTexts : v = chip.value BY <1>4
<1>7. o \in {"eq", "neq", "contains", "icontains", "startsWith", "endsWith", "isNull", "isNotNull", "in"}
  BY <1>4, <1>5, TextOperators
<1>8. Agrees(server, o, v, kept)
  <2>1. CASE o \in {"eq", "neq", "isNull", "isNotNull", "in"} BY <2>1, DirectAgree
  <2>2. CASE o \in {"contains", "icontains", "startsWith", "endsWith"} /\ kept = NoText
    BY <2>2, NothingAgrees
  <2>3. CASE o \in {"contains", "icontains", "startsWith", "endsWith"} /\ kept # NoText
    <3>1. kept \in LiteralTexts BY <2>3
    <3>2. Free(server, o, v) BY <1>5, <1>6
    <3> QED BY <1>1, <2>3, <3>1, <3>2, LikeAgree
  <2> QED BY <1>7, <2>1, <2>2, <2>3
<1>9. Keeps(server, o, v, kept) = Means(server, o, v, kept) BY <1>7, <1>8, Booleans DEF Agrees
<1> QED BY <1>5, <1>6, <1>9
-----------------------------------------------------------------------------
(* WorkbenchTabs: the tabs and the work in them *)

KeysOf(s) == {Key(s[i]) : i \in DOMAIN s}
PreviewsOf(s) == {Key(s[i]) : i \in {j \in DOMAIN s : s[j].preview}}

\* Only tables and routines are opened as previews
Proper(s) ==
  /\ s \in Seq(Descriptors)
  /\ \A i, j \in DOMAIN s : i # j => Key(s[i]) # Key(s[j]) /\ ~(s[i].preview /\ s[j].preview)
  /\ \A i \in DOMAIN s : s[i].preview => s[i].kind \in {"table", "routine"}

TabsInv ==
  /\ Proper(tabs)
  /\ tabs = <<>> => active = NoKey
  /\ tabs # <<>> => active \in KeysOf(tabs)
  /\ now \in DraftTabs /\ entered \in BOOLEAN
  /\ unsaved \subseteq KeysOf(tabs)
  /\ creations \in [DesignTabs -> {"none", "running", "orphan"}]
  /\ \A key \in unsaved \cap PreviewsOf(tabs) : key[1] = "routine"

LosesOne ==
  \/ unsaved \subseteq unsaved' \/ last' = "exit"
  \/ \E key \in unsaved :
       /\ unsaved \ unsaved' = {key}
       /\ CASE last' = "save" -> tabs' = tabs
            [] last' = "close" -> tabs' = RemoveAt(tabs, IndexOf(key))
            [] last' = "created" -> key[1] = "design" /\ key \notin {Key(t) : t \in ToSet(tabs')}
            [] OTHER -> key[1] = "routine" /\ key \in Previews /\ last' = "open"

ShowsMeant ==
  active' # active =>
    last' \in {"open", "created"} \/ (last' = "close" /\ active \notin {Key(t) : t \in ToSet(tabs')})

LEMMA KeysAre ==
  /\ TabKeys = KeysOf(tabs) /\ Previews = PreviewsOf(tabs)
  /\ {Key(t) : t \in ToSet(tabs')} = KeysOf(tabs')
BY DEF TabKeys, Previews, KeysOf, PreviewsOf, ToSet

LEMMA DescriptorsAre ==
  \A t : t \in Descriptors <=>
    \E k \in TabKinds : t \in [kind : {k}, id : IdsOf(k), preview : BOOLEAN]
BY DEF Descriptors

LEMMA DescriptorGives ==
  ASSUME NEW k \in TabKinds, NEW id \in IdsOf(k)
  PROVE  /\ Descriptor(k, id) \in Descriptors
         /\ [Descriptor(k, id) EXCEPT !.preview = TRUE] \in Descriptors
         /\ ~Descriptor(k, id).preview /\ [Descriptor(k, id) EXCEPT !.preview = TRUE].preview
         /\ Key(Descriptor(k, id)) = <<k, id>> /\ Key([Descriptor(k, id) EXCEPT !.preview = TRUE]) = <<k, id>>
         /\ Descriptor(k, id).kind = k /\ [Descriptor(k, id) EXCEPT !.preview = TRUE].kind = k
BY DescriptorsAre DEF Descriptor, Key

LEMMA TabAppended ==
  ASSUME NEW s, Proper(s), NEW t \in Descriptors, Key(t) \notin KeysOf(s),
         t.preview => t.kind \in {"table", "routine"} /\ PreviewsOf(s) = {}
  PROVE  /\ Proper(Append(s, t)) /\ Append(s, t) # <<>>
         /\ KeysOf(Append(s, t)) = KeysOf(s) \cup {Key(t)}
         /\ PreviewsOf(Append(s, t)) \subseteq PreviewsOf(s) \cup {Key(t)}
<1>1. s \in Seq(Descriptors) /\ Len(s) \in Nat BY DEF Proper
<1>2. PICK a : a = Append(s, t) OBVIOUS
<1>3. /\ a \in Seq(Descriptors) /\ Len(a) = Len(s) + 1 /\ a[Len(s) + 1] = t
      /\ \A i \in 1 .. Len(s) : a[i] = s[i]
  BY <1>1, <1>2
<1>4. DOMAIN a = 1 .. Len(s) + 1 /\ DOMAIN s = 1 .. Len(s) BY <1>1, <1>3
<1>5. \A i \in DOMAIN s : Key(s[i]) # Key(t) BY DEF KeysOf
<1>6. t.preview => \A i \in DOMAIN s : ~s[i].preview BY DEF PreviewsOf
<1>7. \A i \in DOMAIN a : (i \in DOMAIN s /\ a[i] = s[i]) \/ (i = Len(s) + 1 /\ a[i] = t)
  BY <1>1, <1>3, <1>4
<1>8. Proper(a)
  <2>1. ASSUME NEW i \in DOMAIN a, NEW j \in DOMAIN a, i # j
        PROVE  Key(a[i]) # Key(a[j]) /\ ~(a[i].preview /\ a[j].preview)
    BY <1>5, <1>6, <1>7, <2>1 DEF Proper
  <2>2. ASSUME NEW i \in DOMAIN a, a[i].preview PROVE a[i].kind \in {"table", "routine"}
    BY <1>7, <2>2 DEF Proper
  <2> QED BY <1>3, <2>1, <2>2 DEF Proper
<1>9. KeysOf(a) = KeysOf(s) \cup {Key(t)}
  <2>1. \A i \in DOMAIN s : i \in DOMAIN a /\ a[i] = s[i] BY <1>1, <1>3, <1>4
  <2>2. Len(s) + 1 \in DOMAIN a BY <1>1, <1>4
  <2> QED BY <1>3, <1>7, <2>1, <2>2 DEF KeysOf
<1>10. PreviewsOf(a) \subseteq PreviewsOf(s) \cup {Key(t)} BY <1>7 DEF PreviewsOf
<1>11. a # <<>> BY <1>1, <1>3
<1> QED BY <1>2, <1>8, <1>9, <1>10, <1>11

LEMMA PreviewReplaced ==
  ASSUME NEW s, Proper(s), NEW t \in Descriptors, Key(t) \notin KeysOf(s),
         t.preview, t.kind \in {"table", "routine"}, PreviewsOf(s) # {},
         NEW a, a = [i \in DOMAIN s |-> IF s[i].preview THEN t ELSE s[i]]
  PROVE  \E key \in PreviewsOf(s) :
           /\ Proper(a) /\ a # <<>> /\ PreviewsOf(a) = {Key(t)}
           /\ KeysOf(a) = (KeysOf(s) \ {key}) \cup {Key(t)}
<1>1. s \in Seq(Descriptors) /\ Len(s) \in Nat /\ DOMAIN s = 1 .. Len(s) BY DEF Proper
<1>2. PICK n \in DOMAIN s : s[n].preview BY DEF PreviewsOf
<1>3. \A i \in DOMAIN s : i # n => ~s[i].preview BY <1>2 DEF Proper
<1>4. a \in Seq(Descriptors) /\ DOMAIN a = DOMAIN s
  <2>1. \A i \in DOMAIN s : s[i] \in Descriptors BY <1>1
  <2>2. a \in [1 .. Len(s) -> Descriptors] BY <1>1, <2>1
  <2> QED BY <1>1, <2>2
<1>5. a[n] = t /\ \A i \in DOMAIN s : i # n => a[i] = s[i] BY <1>2, <1>3
<1>6. \A i \in DOMAIN s : Key(s[i]) # Key(t) BY DEF KeysOf
<1>7. Proper(a)
  <2>1. ASSUME NEW i \in DOMAIN a, NEW j \in DOMAIN a, i # j
        PROVE  Key(a[i]) # Key(a[j]) /\ ~(a[i].preview /\ a[j].preview)
    BY <1>3, <1>4, <1>5, <1>6, <2>1 DEF Proper
  <2>2. ASSUME NEW i \in DOMAIN a, a[i].preview PROVE a[i].kind \in {"table", "routine"}
    BY <1>3, <1>4, <1>5, <2>2 DEF Proper
  <2> QED BY <1>4, <2>1, <2>2 DEF Proper
<1>8. KeysOf(a) = (KeysOf(s) \ {Key(s[n])}) \cup {Key(t)}
  <2>1. \A i \in DOMAIN s : i # n => Key(s[i]) # Key(s[n]) BY <1>2 DEF Proper
  <2> QED BY <1>2, <1>4, <1>5, <2>1 DEF KeysOf
<1>9. PreviewsOf(a) = {Key(t)} BY <1>2, <1>3, <1>4, <1>5 DEF PreviewsOf
<1>10. a # <<>> BY <1>1, <1>2, <1>4
<1>11. Key(s[n]) \in PreviewsOf(s) BY <1>2 DEF PreviewsOf
<1> QED BY <1>7, <1>8, <1>9, <1>10, <1>11

PinnedIn(s, key) ==
  [i \in DOMAIN s |-> IF Key(s[i]) = key THEN [s[i] EXCEPT !.preview = FALSE] ELSE s[i]]

LEMMA TabPinned ==
  ASSUME NEW s, Proper(s), NEW key, NEW a, a = PinnedIn(s, key)
  PROVE  /\ Proper(a) /\ (a = <<>> <=> s = <<>>)
         /\ KeysOf(a) = KeysOf(s) /\ PreviewsOf(a) = PreviewsOf(s) \ {key}
<1>1. s \in Seq(Descriptors) /\ Len(s) \in Nat /\ DOMAIN s = 1 .. Len(s) BY DEF Proper
<1>2. ASSUME NEW i \in DOMAIN s
      PROVE  /\ a[i] \in Descriptors /\ Key(a[i]) = Key(s[i]) /\ a[i].kind = s[i].kind
             /\ a[i].preview = IF Key(s[i]) = key THEN FALSE ELSE s[i].preview
  <2>1. s[i] \in Descriptors BY <1>1
  <2>2. PICK k \in TabKinds : s[i] \in [kind : {k}, id : IdsOf(k), preview : BOOLEAN]
    BY <2>1, DescriptorsAre
  <2>3. CASE Key(s[i]) = key
    <3>1. a[i] = [s[i] EXCEPT !.preview = FALSE] BY <2>3 DEF PinnedIn
    <3>2. a[i] \in [kind : {k}, id : IdsOf(k), preview : BOOLEAN] BY <2>2, <3>1
    <3>3. a[i].kind = s[i].kind /\ a[i].id = s[i].id /\ a[i].preview = FALSE BY <2>2, <3>1
    <3> QED BY <2>3, <3>2, <3>3, DescriptorsAre DEF Key
  <2>4. CASE Key(s[i]) # key
    <3>1. a[i] = s[i] BY <2>4 DEF PinnedIn
    <3> QED BY <2>1, <2>4, <3>1
  <2> QED BY <2>3, <2>4
<1>3. a \in Seq(Descriptors) /\ DOMAIN a = DOMAIN s
  <2>1. DOMAIN a = 1 .. Len(s) /\ a = [i \in DOMAIN a |-> a[i]] BY <1>1 DEF PinnedIn
  <2>2. a \in [1 .. Len(s) -> Descriptors] BY <1>1, <1>2, <2>1
  <2> QED BY <1>1, <2>1, <2>2
<1>4. Proper(a)
  <2>1. ASSUME NEW i \in DOMAIN a, NEW j \in DOMAIN a, i # j
        PROVE  Key(a[i]) # Key(a[j]) /\ ~(a[i].preview /\ a[j].preview)
    <3>1. Key(s[i]) # Key(s[j]) /\ ~(s[i].preview /\ s[j].preview) BY <1>3, <2>1 DEF Proper
    <3> QED BY <1>2, <1>3, <3>1
  <2>2. ASSUME NEW i \in DOMAIN a, a[i].preview PROVE a[i].kind \in {"table", "routine"}
    BY <1>2, <1>3, <2>2 DEF Proper
  <2>3. a \in Seq(Descriptors) BY <1>3
  <2> QED BY <2>1, <2>2, <2>3 DEF Proper
<1>5. KeysOf(a) = KeysOf(s) BY <1>2, <1>3 DEF KeysOf
<1>6. PreviewsOf(a) = PreviewsOf(s) \ {key} BY <1>2, <1>3 DEF PreviewsOf
<1>7. (a = <<>> <=> s = <<>>) BY <1>1, <1>3
<1> QED BY <1>4, <1>5, <1>6, <1>7

\* The second part of two sequences put together
LEMMA Beyond ==
  ASSUME NEW S, NEW u \in Seq(S), NEW v \in Seq(S), NEW i \in Nat, Len(u) < i, i <= Len(u) + Len(v)
  PROVE  (u \o v)[i] = v[i - Len(u)]
OBVIOUS

LEMMA TabRemoved ==
  ASSUME NEW s, Proper(s), NEW n \in DOMAIN s, NEW a, a = RemoveAt(s, n)
  PROVE  /\ Proper(a) /\ Len(a) = Len(s) - 1
         /\ KeysOf(a) = KeysOf(s) \ {Key(s[n])}
         /\ PreviewsOf(a) \subseteq PreviewsOf(s)
<1>1. s \in Seq(Descriptors) /\ Len(s) \in Nat /\ DOMAIN s = 1 .. Len(s) /\ n \in 1 .. Len(s)
  BY DEF Proper
<1>2. PICK u, v : u = SubSeq(s, 1, n - 1) /\ v = SubSeq(s, n + 1, Len(s)) OBVIOUS
<1>3. /\ u \in Seq(Descriptors) /\ Len(u) = n - 1
      /\ \A i \in 1 .. n - 1 : u[i] = s[i]
  BY <1>1, <1>2
<1>4. /\ v \in Seq(Descriptors) /\ Len(v) = Len(s) - n
      /\ \A i \in 1 .. Len(s) - n : v[i] = s[n + i]
  BY <1>1, <1>2
<1>5. a = u \o v BY <1>2 DEF RemoveAt
<1>6. a \in Seq(Descriptors) /\ Len(a) = Len(s) - 1
  <2>1. a \in Seq(Descriptors) BY <1>3, <1>4, <1>5
  <2>2. Len(a) = Len(u) + Len(v)
    <3>1. u \in Seq(Descriptors) /\ v \in Seq(Descriptors) BY <1>3, <1>4
    <3>2. Len(u \o v) = Len(u) + Len(v) BY <3>1
    <3> QED BY <1>5, <3>2
  <2> QED BY <1>1, <1>3, <1>4, <2>1, <2>2
<1>7. \A i \in 1 .. Len(s) - 1 : a[i] = IF i < n THEN s[i] ELSE s[i + 1]
  <2> TAKE i \in 1 .. Len(s) - 1
  <2>1. CASE i < n
    <3>1. a[i] = u[i] BY <1>1, <1>3, <1>4, <1>5, <2>1
    <3> QED BY <1>1, <1>3, <2>1, <3>1
  <2>2. CASE ~(i < n)
    <3>0. Len(u) = n - 1 /\ Len(v) = Len(s) - n /\ i \in Nat /\ n - 1 < i /\ i <= Len(u) + Len(v)
      BY <1>1, <1>3, <1>4, <2>2
    <3>1. a[i] = v[i - (n - 1)]
      <4>1. u \in Seq(Descriptors) /\ v \in Seq(Descriptors) BY <1>3, <1>4
      <4>2. (u \o v)[i] = v[i - Len(u)] BY <3>0, <4>1, Beyond
      <4> QED BY <1>5, <3>0, <4>2
    <3>2. i - (n - 1) \in 1 .. Len(s) - n /\ n + (i - (n - 1)) = i + 1 BY <1>1, <2>2
    <3> QED BY <1>4, <2>2, <3>1, <3>2
  <2> QED BY <2>1, <2>2
<1>8. DOMAIN a = 1 .. Len(s) - 1 BY <1>6
<1>9. ASSUME NEW i \in DOMAIN a
      PROVE  \E j \in DOMAIN s : j # n /\ a[i] = s[j] /\ j = IF i < n THEN i ELSE i + 1
  <2>1. CASE i < n BY <1>1, <1>7, <1>8, <2>1
  <2>2. CASE ~(i < n)
    <3>1. i + 1 \in DOMAIN s /\ i + 1 # n BY <1>1, <1>8, <2>2
    <3> QED BY <1>7, <1>8, <2>2, <3>1
  <2> QED BY <2>1, <2>2
<1>10. Proper(a)
  <2>1. ASSUME NEW i \in DOMAIN a, NEW j \in DOMAIN a, i # j
        PROVE  Key(a[i]) # Key(a[j]) /\ ~(a[i].preview /\ a[j].preview)
    <3>1. PICK x \in DOMAIN s : a[i] = s[x] /\ x = IF i < n THEN i ELSE i + 1 BY <1>9
    <3>2. PICK y \in DOMAIN s : a[j] = s[y] /\ y = IF j < n THEN j ELSE j + 1 BY <1>9
    <3>3. x # y BY <1>1, <1>8, <2>1, <3>1, <3>2
    <3> QED BY <3>1, <3>2, <3>3 DEF Proper
  <2>2. ASSUME NEW i \in DOMAIN a, a[i].preview PROVE a[i].kind \in {"table", "routine"}
    BY <1>9, <2>2 DEF Proper
  <2> QED BY <1>6, <2>1, <2>2 DEF Proper
<1>11. KeysOf(a) = KeysOf(s) \ {Key(s[n])}
  <2>1. ASSUME NEW i \in DOMAIN a PROVE Key(a[i]) \in KeysOf(s) \ {Key(s[n])}
    <3>1. PICK j \in DOMAIN s : j # n /\ a[i] = s[j] BY <1>9
    <3> QED BY <3>1 DEF KeysOf, Proper
  <2>2. ASSUME NEW j \in DOMAIN s, j # n PROVE Key(s[j]) \in KeysOf(a)
    <3>1. PICK i : i = IF j < n THEN j ELSE j - 1 OBVIOUS
    <3>2. i \in DOMAIN a BY <1>1, <1>8, <2>2, <3>1
    <3>3. a[i] = s[j] BY <1>1, <1>7, <1>8, <2>2, <3>1, <3>2
    <3> QED BY <3>2, <3>3 DEF KeysOf
  <2> QED BY <2>1, <2>2 DEF KeysOf
<1>12. PreviewsOf(a) \subseteq PreviewsOf(s) BY <1>9 DEF PreviewsOf
<1> QED BY <1>6, <1>10, <1>11, <1>12

LEMMA IndexIs ==
  ASSUME Proper(tabs), NEW key \in KeysOf(tabs)
  PROVE  IndexOf(key) \in DOMAIN tabs /\ Key(tabs[IndexOf(key)]) = key
<1>1. \E i \in DOMAIN tabs : Key(tabs[i]) = key BY DEF KeysOf
<1> QED BY <1>1 DEF IndexOf

LEMMA Opens ==
  ASSUME TabsInv, NEW k \in TabKinds, NEW id \in IdsOf(k),
         \/ AddTab(Descriptor(k, id))
         \/ k \in {"table", "routine"} /\ AddPreviewTab(Descriptor(k, id)),
         Unmounts("open")
  PROVE  TabsInv' /\ LosesOne /\ ShowsMeant
<1>1. PICK t : t = Descriptor(k, id) OBVIOUS
<1>2. PICK p : p = [t EXCEPT !.preview = TRUE] OBVIOUS
<1>3. /\ t \in Descriptors /\ p \in Descriptors /\ ~t.preview /\ p.preview
      /\ Key(t) = <<k, id>> /\ Key(p) = <<k, id>> /\ t.kind = k /\ p.kind = k
  BY <1>1, <1>2, DescriptorGives
<1>4. active' = <<k, id>> BY <1>1, <1>3 DEF AddTab, AddPreviewTab
<1>5. unsaved' = unsaved \cap KeysOf(tabs') /\ last' = "open" /\ now' = now /\ entered' = entered
  BY KeysAre DEF Unmounts
<1>6. creations' \in [DesignTabs -> {"none", "running", "orphan"}]
  BY DEF Unmounts, TabsInv
<1>7. Proper(tabs) BY DEF TabsInv
<1>8. ASSUME Proper(tabs'), <<k, id>> \in KeysOf(tabs'), tabs' # <<>>,
             PreviewsOf(tabs') \subseteq PreviewsOf(tabs) \/
               (PreviewsOf(tabs') \subseteq PreviewsOf(tabs) \cup {<<k, id>>} /\ <<k, id>> \notin KeysOf(tabs)),
             \/ KeysOf(tabs) \subseteq KeysOf(tabs')
             \/ \E key \in PreviewsOf(tabs) : KeysOf(tabs) \ KeysOf(tabs') \subseteq {key}
      PROVE  TabsInv' /\ LosesOne /\ ShowsMeant
  <2>1. \A key \in unsaved' \cap PreviewsOf(tabs') : key[1] = "routine"
    BY <1>5, <1>8 DEF TabsInv
  <2>2. unsaved' \subseteq KeysOf(tabs') BY <1>5
  <2>3. TabsInv' BY <1>4, <1>5, <1>6, <1>8, <2>1, <2>2 DEF TabsInv
  <2>4. LosesOne
    <3>1. CASE KeysOf(tabs) \subseteq KeysOf(tabs') BY <1>5, <3>1 DEF LosesOne, TabsInv
    <3>2. ASSUME NEW key \in PreviewsOf(tabs), KeysOf(tabs) \ KeysOf(tabs') \subseteq {key},
                 ~(unsaved \subseteq unsaved')
          PROVE  LosesOne
      <4>1. unsaved \ unsaved' = {key} /\ key \in unsaved BY <1>5, <3>2 DEF TabsInv
      <4>2. key[1] = "routine" /\ key \in Previews BY <3>2, <4>1, KeysAre DEF TabsInv
      <4> QED BY <1>5, <4>1, <4>2 DEF LosesOne
    <3>3. CASE unsaved \subseteq unsaved' BY <3>3 DEF LosesOne
    <3> QED BY <1>8, <3>1, <3>2, <3>3
  <2>5. ShowsMeant BY <1>5 DEF ShowsMeant
  <2> QED BY <2>3, <2>4, <2>5
<1>9. CASE <<k, id>> \in KeysOf(tabs)
  <2>1. tabs' = tabs BY <1>1, <1>3, <1>9, KeysAre DEF AddTab, AddPreviewTab
  <2>2. tabs # <<>> BY <1>9 DEF KeysOf
  <2> QED BY <1>7, <1>8, <1>9, <2>1, <2>2
<1>10. CASE <<k, id>> \notin KeysOf(tabs) /\ tabs' = Append(tabs, t)
  <2>1. PICK s : s = tabs OBVIOUS
  <2>2. PICK a : a = Append(s, t) OBVIOUS
  <2>3. /\ Proper(a) /\ a # <<>> /\ KeysOf(a) = KeysOf(s) \cup {Key(t)}
        /\ PreviewsOf(a) \subseteq PreviewsOf(s) \cup {Key(t)}
    <3>1. Proper(s) /\ Key(t) \notin KeysOf(s) BY <1>3, <1>7, <1>10, <2>1
    <3> QED BY <1>3, <2>2, <3>1, TabAppended
  <2> QED BY <1>3, <1>8, <1>10, <2>1, <2>2, <2>3
<1>11. CASE /\ <<k, id>> \notin KeysOf(tabs) /\ tabs' = Append(tabs, p)
            /\ k \in {"table", "routine"} /\ Previews = {}
  <2>1. PICK s : s = tabs OBVIOUS
  <2>2. PICK a : a = Append(s, p) OBVIOUS
  <2>3. PreviewsOf(s) = {} BY <1>11, <2>1, KeysAre
  <2>4. /\ Proper(a) /\ a # <<>> /\ KeysOf(a) = KeysOf(s) \cup {Key(p)}
        /\ PreviewsOf(a) \subseteq PreviewsOf(s) \cup {Key(p)}
    <3>1. Proper(s) /\ Key(p) \notin KeysOf(s) BY <1>3, <1>7, <1>11, <2>1
    <3>2. p.kind \in {"table", "routine"} BY <1>3, <1>11
    <3> QED BY <1>3, <2>2, <2>3, <3>1, <3>2, TabAppended
  <2> QED BY <1>3, <1>8, <1>11, <2>1, <2>2, <2>4
<1>12. CASE /\ <<k, id>> \notin KeysOf(tabs) /\ k \in {"table", "routine"} /\ Previews # {}
            /\ tabs' = [i \in DOMAIN tabs |-> IF tabs[i].preview THEN p ELSE tabs[i]]
  <2>1. PICK s : s = tabs OBVIOUS
  <2>2. PICK a : a = [i \in DOMAIN s |-> IF s[i].preview THEN p ELSE s[i]] OBVIOUS
  <2>3. PreviewsOf(s) # {} BY <1>12, <2>1, KeysAre
  <2>4. \E key \in PreviewsOf(s) :
           /\ Proper(a) /\ a # <<>> /\ PreviewsOf(a) = {Key(p)}
           /\ KeysOf(a) = (KeysOf(s) \ {key}) \cup {Key(p)}
    BY <1>3, <1>7, <1>12, <2>1, <2>2, <2>3, PreviewReplaced
  <2>5. a = tabs' BY <1>12, <2>1, <2>2
  <2> QED BY <1>3, <1>8, <1>12, <2>1, <2>4, <2>5
<1> QED BY <1>1, <1>2, <1>3, <1>9, <1>10, <1>11, <1>12, KeysAre DEF AddTab, AddPreviewTab

LEMMA Removes ==
  ASSUME TabsInv, NEW key, RemoveTab(key)
  PROVE  /\ Proper(tabs') /\ KeysOf(tabs') = KeysOf(tabs) \ {key}
         /\ PreviewsOf(tabs') \subseteq PreviewsOf(tabs)
         /\ tabs' = <<>> => active' = NoKey
         /\ tabs' # <<>> => active' \in KeysOf(tabs')
         /\ active' # active => active \notin KeysOf(tabs')
         /\ key \in KeysOf(tabs) => tabs' = RemoveAt(tabs, IndexOf(key))
<1>0. Proper(tabs) BY DEF TabsInv
<1>1. CASE key \notin KeysOf(tabs)
  <2>1. tabs' = tabs /\ active' = active BY <1>1, KeysAre DEF RemoveTab, Without
  <2> QED BY <1>0, <1>1, <2>1 DEF TabsInv
<1>2. CASE key \in KeysOf(tabs)
  <2>1. PICK n : n = IndexOf(key) OBVIOUS
  <2>2. n \in DOMAIN tabs /\ Key(tabs[n]) = key BY <1>0, <1>2, <2>1, IndexIs
  <2>3. PICK s : s = tabs OBVIOUS
  <2>4. PICK a : a = tabs' OBVIOUS
  <2>5. a = RemoveAt(s, n) BY <1>2, <2>1, <2>3, <2>4, KeysAre DEF RemoveTab, Without
  <2>6. /\ Proper(a) /\ Len(a) = Len(s) - 1 /\ KeysOf(a) = KeysOf(s) \ {Key(s[n])}
        /\ PreviewsOf(a) \subseteq PreviewsOf(s)
    BY <1>0, <2>2, <2>3, <2>5, TabRemoved
  <2>7. active \in KeysOf(tabs) BY <1>2 DEF TabsInv, KeysOf
  <2>8. a \in Seq(Descriptors) /\ Len(a) \in Nat /\ (a # <<>> => Len(a) >= 1) BY <2>6 DEF Proper
  <2>9. n \in 1 .. Len(s) BY <1>0, <2>2, <2>3 DEF Proper
  <2>10. CASE active # key
    <3>1. active' = active BY <2>10 DEF RemoveTab
    <3>2. active \in KeysOf(a) BY <2>2, <2>3, <2>6, <2>7, <2>10
    <3>3. a # <<>> BY <3>2 DEF KeysOf
    <3> QED BY <2>1, <2>2, <2>3, <2>4, <2>5, <2>6, <3>1, <3>2, <3>3
  <2>11. CASE active = key
    <3>1. active \notin KeysOf(a) BY <2>2, <2>3, <2>6, <2>11
    <3>2. a = <<>> => active' = NoKey BY <1>2, <2>4, <2>11, KeysAre DEF RemoveTab
    <3>3. ASSUME a # <<>> PROVE active' \in KeysOf(a)
      <4>1. active' = Key(a[IF n > Len(a) THEN Len(a) ELSE n])
        BY <1>2, <2>1, <2>4, <2>11, <3>3, KeysAre DEF RemoveTab
      <4>2. (IF n > Len(a) THEN Len(a) ELSE n) \in DOMAIN a
        BY <2>8, <2>9, <3>3
      <4> QED BY <4>1, <4>2 DEF KeysOf
    <3> QED BY <2>1, <2>2, <2>3, <2>4, <2>5, <2>6, <3>1, <3>2, <3>3
  <2> QED BY <2>10, <2>11
<1> QED BY <1>1, <1>2

LEMMA Closes ==
  ASSUME TabsInv, NEW key \in TabKeys, RemoveTab(key), Unmounts("close")
  PROVE  TabsInv' /\ LosesOne /\ ShowsMeant
<1>1. /\ Proper(tabs') /\ KeysOf(tabs') = KeysOf(tabs) \ {key}
      /\ PreviewsOf(tabs') \subseteq PreviewsOf(tabs)
      /\ tabs' = <<>> => active' = NoKey
      /\ tabs' # <<>> => active' \in KeysOf(tabs')
      /\ active' # active => active \notin KeysOf(tabs')
      /\ tabs' = RemoveAt(tabs, IndexOf(key))
  BY Removes, KeysAre
<1>2. unsaved' = unsaved \cap KeysOf(tabs') /\ last' = "close" /\ now' = now /\ entered' = entered
  BY KeysAre DEF Unmounts
<1>3. creations' \in [DesignTabs -> {"none", "running", "orphan"}]
  BY DEF Unmounts, TabsInv
<1>4. TabsInv' BY <1>1, <1>2, <1>3 DEF TabsInv
<1>5. LosesOne
  <2>1. CASE key \in unsaved
    <3>1. unsaved \ unsaved' = {key} BY <1>1, <1>2, <2>1 DEF TabsInv
    <3> QED BY <1>1, <1>2, <2>1, <3>1 DEF LosesOne
  <2>2. CASE key \notin unsaved
    <3>1. unsaved \subseteq unsaved' BY <1>1, <1>2, <2>2 DEF TabsInv
    <3> QED BY <3>1 DEF LosesOne
  <2> QED BY <2>1, <2>2
<1>6. ShowsMeant BY <1>1, <1>2, KeysAre DEF ShowsMeant
<1> QED BY <1>4, <1>5, <1>6

\* A design has become a table: its tab is closed and that of the table opened.
LEMMA Creates ==
  ASSUME TabsInv, NEW d \in DesignTabs, NEW id \in TableTabs, Created(d, id)
  PROVE  TabsInv' /\ LosesOne /\ ShowsMeant
<1>1. PICK key : key = <<"design", d>> OBVIOUS
<1>2. PICK t : t = Descriptor("table", id) OBVIOUS
<1>3. t \in Descriptors /\ ~t.preview /\ Key(t) = <<"table", id>>
  <2>1. "table" \in TabKinds /\ id \in IdsOf("table") BY DEF TabKinds, IdsOf
  <2> QED BY <1>2, <2>1, DescriptorGives
<1>4. PICK s : s = Without(key) OBVIOUS
<1>5. Proper(s) /\ KeysOf(s) = KeysOf(tabs) \ {key} /\ PreviewsOf(s) \subseteq PreviewsOf(tabs)
  <2>0. Proper(tabs) BY DEF TabsInv
  <2>1. CASE key \in KeysOf(tabs)
    <3>1. PICK n : n = IndexOf(key) OBVIOUS
    <3>2. n \in DOMAIN tabs /\ Key(tabs[n]) = key BY <2>0, <2>1, <3>1, IndexIs
    <3>3. s = RemoveAt(tabs, n) BY <1>4, <2>1, <3>1, KeysAre DEF Without
    <3> QED BY <2>0, <3>2, <3>3, TabRemoved
  <2>2. CASE key \notin KeysOf(tabs)
    <3>1. s = tabs BY <1>4, <2>2, KeysAre DEF Without
    <3> QED BY <2>0, <2>2, <3>1
  <2> QED BY <2>1, <2>2
<1>6. Key(t) # key BY <1>1, <1>3
<1>7. tabs' = IF Key(t) \in KeysOf(tabs) THEN s ELSE Append(s, t)
  BY <1>1, <1>2, <1>3, <1>4, KeysAre DEF Created
<1>8. /\ Proper(tabs') /\ KeysOf(tabs') = KeysOf(s) \cup {Key(t)}
      /\ \A x \in PreviewsOf(tabs') : x \in PreviewsOf(tabs) \/ x \notin KeysOf(tabs)
  <2>1. CASE Key(t) \in KeysOf(tabs)
    <3>1. tabs' = s BY <1>7, <2>1
    <3> QED BY <1>5, <1>6, <2>1, <3>1
  <2>2. CASE Key(t) \notin KeysOf(tabs)
    <3>1. tabs' = Append(s, t) /\ Key(t) \notin KeysOf(s) BY <1>5, <1>7, <2>2
    <3>2. /\ Proper(Append(s, t)) /\ KeysOf(Append(s, t)) = KeysOf(s) \cup {Key(t)}
          /\ PreviewsOf(Append(s, t)) \subseteq PreviewsOf(s) \cup {Key(t)}
      BY <1>3, <1>5, <3>1, TabAppended
    <3> QED BY <1>5, <2>2, <3>1, <3>2
  <2> QED BY <2>1, <2>2
<1>9. /\ unsaved' = unsaved \ {key} /\ last' = "created" /\ active' = Key(t)
      /\ now' = now /\ entered' = entered
  BY <1>1, <1>3 DEF Created
<1>10. creations' \in [DesignTabs -> {"none", "running", "orphan"}]
  BY DEF Created, TabsInv
<1>11. TabsInv'
  <2>1. unsaved' \subseteq KeysOf(tabs') BY <1>5, <1>8, <1>9 DEF TabsInv
  <2>2. \A x \in unsaved' \cap PreviewsOf(tabs') : x[1] = "routine" BY <1>8, <1>9 DEF TabsInv
  <2>3. active' \in KeysOf(tabs') /\ tabs' # <<>> BY <1>8, <1>9 DEF KeysOf
  <2> QED BY <1>8, <1>9, <1>10, <2>1, <2>2, <2>3 DEF TabsInv
<1>12. LosesOne
  <2>1. CASE key \in unsaved
    <3>1. unsaved \ unsaved' = {key} BY <1>9, <2>1
    <3>2. key[1] = "design" BY <1>1
    <3>3. key \notin {Key(u) : u \in ToSet(tabs')} BY <1>5, <1>6, <1>8, KeysAre
    <3> QED BY <1>9, <2>1, <3>1, <3>2, <3>3 DEF LosesOne
  <2>2. CASE key \notin unsaved BY <1>9, <2>2 DEF LosesOne
  <2> QED BY <2>1, <2>2
<1>13. ShowsMeant BY <1>9 DEF ShowsMeant
<1> QED BY <1>11, <1>12, <1>13

LEMMA InitTabs == TabsInit => TabsInv
<1> SUFFICES ASSUME TabsInit PROVE TabsInv OBVIOUS
<1>1. Proper(tabs) BY DEF TabsInit, Proper
<1>2. now \in DraftTabs BY TabsAssumption DEF TabsInit, DraftTabs
<1> QED BY <1>1, <1>2 DEF TabsInit, TabsInv

\* A step after which the tabs and what is shown are as they were
LEMMA Stays ==
  ASSUME TabsInv, tabs' = tabs, active' = active, now' \in DraftTabs, entered' \in BOOLEAN,
         creations' \in [DesignTabs -> {"none", "running", "orphan"}], unsaved' \subseteq unsaved
  PROVE  TabsInv' /\ ShowsMeant /\ (unsaved' = unsaved => LosesOne)
<1>1. TabsInv' BY DEF TabsInv
<1> QED BY <1>1 DEF ShowsMeant, LosesOne

LEMMA Pins ==
  ASSUME TabsInv, NEW key \in TabKeys, tabs' = Pinned(key), active' = active, now' = now,
         entered' = entered, creations' = creations, unsaved' \in {unsaved, unsaved \cup {key}}
  PROVE  TabsInv' /\ ShowsMeant /\ LosesOne
<1>1. PICK s : s = tabs OBVIOUS
<1>2. PICK a : a = tabs' OBVIOUS
<1>3. a = PinnedIn(s, key) BY <1>1, <1>2 DEF Pinned, PinnedIn
<1>4. Proper(s) BY <1>1 DEF TabsInv
<1>5. /\ Proper(a) /\ (a = <<>> <=> s = <<>>)
      /\ KeysOf(a) = KeysOf(s) /\ PreviewsOf(a) = PreviewsOf(s) \ {key}
  <2>1. \A q, b : Proper(q) /\ b = PinnedIn(q, key) =>
          /\ Proper(b) /\ (b = <<>> <=> q = <<>>)
          /\ KeysOf(b) = KeysOf(q) /\ PreviewsOf(b) = PreviewsOf(q) \ {key}
    BY TabPinned
  <2> QED BY <1>3, <1>4, <2>1
<1>6. key \in KeysOf(tabs) BY KeysAre
<1>7. /\ Proper(tabs') /\ (tabs' = <<>> <=> tabs = <<>>)
      /\ KeysOf(tabs') = KeysOf(tabs) /\ PreviewsOf(tabs') = PreviewsOf(tabs) \ {key}
  BY <1>1, <1>2, <1>5
<1>8. unsaved' \subseteq KeysOf(tabs') BY <1>6, <1>7 DEF TabsInv
<1>9. \A j \in unsaved' \cap PreviewsOf(tabs') : j[1] = "routine" BY <1>7 DEF TabsInv
<1>10. TabsInv' BY <1>7, <1>8, <1>9 DEF TabsInv
<1> QED BY <1>10 DEF ShowsMeant, LosesOne

LEMMA TabsStep == TabsInv /\ [TabsNext]_tabsVars => TabsInv' /\ LosesOne /\ ShowsMeant
<1> SUFFICES ASSUME TabsInv, [TabsNext]_tabsVars PROVE TabsInv' /\ LosesOne /\ ShowsMeant
  OBVIOUS
<1>0. /\ now \in DraftTabs /\ entered \in BOOLEAN
      /\ creations \in [DesignTabs -> {"none", "running", "orphan"}]
      /\ Descriptor("draft", now) = Descriptor("draft", now)
  BY DEF TabsInv
<1>1. ASSUME NEW id \in TableTabs, NEW p \in BOOLEAN, OpenTable(id, p)
      PROVE  TabsInv' /\ LosesOne /\ ShowsMeant
  <2>1. "table" \in TabKinds /\ id \in IdsOf("table") BY DEF TabKinds, IdsOf
  <2>2. AddTab(Descriptor("table", id)) \/ AddPreviewTab(Descriptor("table", id))
    BY <1>1 DEF OpenTable
  <2>3. Unmounts("open") BY <1>1 DEF OpenTable
  <2> QED BY <2>1, <2>2, <2>3, Opens
<1>2. ASSUME NEW id \in RoutineTabs, NEW p \in BOOLEAN, OpenRoutine(id, p)
      PROVE  TabsInv' /\ LosesOne /\ ShowsMeant
  <2>1. "routine" \in TabKinds /\ id \in IdsOf("routine") BY DEF TabKinds, IdsOf
  <2>2. AddTab(Descriptor("routine", id)) \/ AddPreviewTab(Descriptor("routine", id))
    BY <1>2 DEF OpenRoutine
  <2>3. Unmounts("open") BY <1>2 DEF OpenRoutine
  <2> QED BY <2>1, <2>2, <2>3, Opens
<1>3. ASSUME NEW d \in DesignTabs, OpenDesign(d) PROVE TabsInv' /\ LosesOne /\ ShowsMeant
  <2>1. "design" \in TabKinds /\ d \in IdsOf("design") BY DEF TabKinds, IdsOf
  <2>2. AddTab(Descriptor("design", d)) /\ Unmounts("open") BY <1>3 DEF OpenDesign
  <2> QED BY <2>1, <2>2, Opens
<1>4. CASE OpenDraft
  <2>1. PICK n \in DraftTabs : n = now BY <1>0
  <2>2. "draft" \in TabKinds /\ n \in IdsOf("draft") BY <2>1 DEF TabKinds, IdsOf
  <2>3. AddTab(Descriptor("draft", n)) /\ Unmounts("open") BY <1>4, <2>1 DEF OpenDraft
  <2> QED BY <2>2, <2>3, Opens
<1>5. CASE TimePasses
  <2>1. now' \in DraftTabs BY <1>0, <1>5, TabsAssumption DEF TimePasses, DraftTabs
  <2> QED BY <1>0, <1>5, <2>1, Stays DEF TimePasses
<1>6. ASSUME NEW k \in TabKeys, SelectTab(k) PROVE TabsInv' /\ LosesOne /\ ShowsMeant
  <2>1. k \in KeysOf(tabs) BY KeysAre
  <2>2. TabsInv'
    <3>1. tabs # <<>> BY <2>1 DEF KeysOf
    <3> QED BY <1>6, <2>1, <3>1 DEF SelectTab, TabsInv
  <2> QED BY <1>6, <2>2 DEF SelectTab, LosesOne, ShowsMeant
<1>7. ASSUME NEW k \in TabKeys, CloseTab(k) PROVE TabsInv' /\ LosesOne /\ ShowsMeant
  BY <1>7, Closes DEF CloseTab
<1>8. ASSUME NEW k \in TabKeys, DropTable(k) PROVE TabsInv' /\ LosesOne /\ ShowsMeant
  BY <1>8, Closes DEF DropTable
<1>9. ASSUME NEW k \in TabKeys, DoubleClickTab(k) PROVE TabsInv' /\ LosesOne /\ ShowsMeant
  BY <1>9, Pins DEF DoubleClickTab
<1>10. ASSUME NEW k \in TabKeys, EditTable(k) PROVE TabsInv' /\ LosesOne /\ ShowsMeant
  BY <1>10, Pins DEF EditTable
<1>11. ASSUME NEW k \in TabKeys, RunDraft(k) PROVE TabsInv' /\ LosesOne /\ ShowsMeant
  BY <1>11, Pins DEF RunDraft
<1>12. ASSUME NEW k \in TabKeys, TypeText(k) PROVE TabsInv' /\ LosesOne /\ ShowsMeant
  <2>1. \A i \in DOMAIN tabs : Key(tabs[i]) = k /\ tabs[i].preview => k[1] = "routine"
    BY <1>12 DEF TypeText, TabsInv, Proper, Key
  <2>2. k \in PreviewsOf(tabs) => k[1] = "routine" BY <2>1 DEF PreviewsOf
  <2>3. k \in KeysOf(tabs) BY KeysAre
  <2>4. unsaved' = unsaved \cup {k} BY <1>12 DEF TypeText
  <2>5. TabsInv' BY <1>12, <2>2, <2>3, <2>4 DEF TypeText, TabsInv
  <2> QED BY <1>12, <2>4, <2>5 DEF TypeText, LosesOne, ShowsMeant
<1>13. ASSUME NEW k \in TabKeys, SaveWork(k) PROVE TabsInv' /\ LosesOne /\ ShowsMeant
  <2>1. TabsInv' /\ ShowsMeant BY <1>0, <1>13, Stays DEF SaveWork
  <2>2. unsaved \ unsaved' = {k} /\ k \in unsaved /\ last' = "save" /\ tabs' = tabs
    BY <1>13 DEF SaveWork
  <2>3. LosesOne BY <2>2 DEF LosesOne
  <2> QED BY <2>1, <2>3
<1>14. ASSUME NEW d \in DesignTabs, StartCreation(d) PROVE TabsInv' /\ LosesOne /\ ShowsMeant
  BY <1>0, <1>14, Stays DEF StartCreation
<1>15. ASSUME NEW d \in DesignTabs, NEW id \in TableTabs, Created(d, id)
       PROVE  TabsInv' /\ LosesOne /\ ShowsMeant
  BY <1>15, Creates
<1>16. ASSUME NEW d \in DesignTabs, NotCreated(d) PROVE TabsInv' /\ LosesOne /\ ShowsMeant
  BY <1>0, <1>16, Stays DEF NotCreated
<1>17. CASE Exit
  <2>1. creations' \in [DesignTabs -> {"none", "running", "orphan"}] BY <1>0, <1>17 DEF Exit
  <2>2. TabsInv' /\ ShowsMeant BY <1>0, <1>17, <2>1, Stays DEF Exit
  <2> QED BY <1>17, <2>2 DEF Exit, LosesOne
<1>18. CASE Enter BY <1>0, <1>18, Stays DEF Enter
<1>19. CASE UNCHANGED tabsVars BY <1>0, <1>19, Stays DEF tabsVars
<1> QED BY <1>1, <1>2, <1>3, <1>4, <1>5, <1>6, <1>7, <1>8, <1>9, <1>10, <1>11, <1>12, <1>13,
           <1>14, <1>15, <1>16, <1>17, <1>18, <1>19 DEF TabsNext

LEMMA TabsInvGives == TabsInv => TabsTypeOK /\ EditedIsPinned
<1> SUFFICES ASSUME TabsInv PROVE TabsTypeOK /\ EditedIsPinned OBVIOUS
<1>1. IF tabs = <<>> THEN active = NoKey ELSE active \in TabKeys BY KeysAre DEF TabsInv
<1>2. unsaved \subseteq TabKeys BY KeysAre DEF TabsInv
<1>3. TabsTypeOK BY <1>1, <1>2 DEF TabsInv, TabsTypeOK, Proper
<1>4. EditedIsPinned BY KeysAre DEF TabsInv, EditedIsPinned
<1> QED BY <1>3, <1>4

\* An id has one tab; work that is not saved is lost with its tab only, one tab at a time,
\* and the tab that is shown is the one that was meant: for any number of tabs.
THEOREM WorkKeptHolds == MCSpec => WorkKept
<1> DEFINE allVars == <<part, vars, gridVars, queueVars, formVars, filtersVars, conditionVars, tabsVars>>
<1>1. MCInit => TabsInv BY InitTabs DEF MCInit
<1>2. TabsInv /\ [MCNext]_allVars => TabsInv' /\ [LosesOne]_tabsVars /\ [ShowsMeant]_tabsVars
  <2>1. [MCNext]_allVars => [TabsNext]_tabsVars BY DEF MCNext
  <2> QED BY <2>1, TabsStep
<1>3. MCSpec => [](TabsTypeOK /\ EditedIsPinned) BY <1>1, <1>2, TabsInvGives, PTL DEF MCSpec
<1>4. MCSpec => [][LosesOne]_tabsVars /\ [][ShowsMeant]_tabsVars BY <1>1, <1>2, PTL DEF MCSpec
<1>5. [][LosesOne]_tabsVars => UnsavedKept BY PTL DEF LosesOne, UnsavedKept
<1>6. [][ShowsMeant]_tabsVars => ShownIsMeant BY PTL DEF ShowsMeant, ShownIsMeant
<1> QED BY <1>3, <1>4, <1>5, <1>6 DEF WorkKept

\* The filters and the tabs together.
THEOREM AskedAndKeptHolds == MCSpec => AskedAndKept
BY FiltersAskedHolds, WorkKeptHolds DEF AskedAndKept
-----------------------------------------------------------------------------
(* RowGrid: the grid and what stands on it *)

\* Whatever is open stands on a row, and what is ticked is among the indices
GridInv ==
  /\ GridTypeOK
  /\ grid \in Seq(GridRows) /\ DOMAIN grid \subseteq Indices /\ ticked \subseteq Indices \X GridRows
  /\ editor # NoEditor => editor.kind \in {"cell", "dialog"} /\ editor.row \in GridRows
  /\ CellHasRow /\ TickedAlone /\ TicksFresh

MeantRow ==
  \A c \in asked' : \/ c.row = c.meant
                     \/ c.by \in {"cell", "dialog"}
                     \/ (c.by = "selection" /\ gridStatus # "success")

LEMMA IndicesAre == IsFiniteSet(Indices) /\ Indices \subseteq Nat /\ Cardinality(GridRows) \in Nat
<1>1. Cardinality(GridRows) \in Nat BY GridAssumption, FS_CardinalityType
<1>2. IsFiniteSet(1 .. Cardinality(GridRows)) BY <1>1, FS_Interval
<1> QED BY <1>1, <1>2 DEF Indices

\* An order in which rows arrive
LEMMA OrdersAre ==
  ASSUME NEW S, S \subseteq GridRows, NEW g \in SetToSeqs(S)
  PROVE  g \in Seq(GridRows) /\ DOMAIN g = 1 .. Len(g) /\ DOMAIN g \subseteq Indices
<1>1. /\ IsFiniteSet(S) /\ Cardinality(S) \in Nat /\ Cardinality(S) <= Cardinality(GridRows)
  <2>1. IsFiniteSet(S) BY GridAssumption, FS_Subset
  <2>2. Cardinality(S) \in Nat BY <2>1, FS_CardinalityType
  <2>3. Cardinality(S) <= Cardinality(GridRows) BY GridAssumption, FS_Subset
  <2> QED BY <2>1, <2>2, <2>3
<1>2. g \in [1 .. Cardinality(S) -> S] BY DEF SetToSeqs
<1>3. g \in Seq(S) /\ Len(g) = Cardinality(S) BY <1>1, <1>2
<1>4. g \in Seq(GridRows) BY <1>3
<1>5. DOMAIN g = 1 .. Cardinality(S) BY <1>2
<1> QED BY <1>1, <1>3, <1>4, <1>5, IndicesAre DEF Indices

LEMMA TicksCounted ==
  ASSUME GridInv
  PROVE  /\ IsFiniteSet(ticked) /\ Cardinality(ticked) \in Nat
         /\ Cardinality(ticked) <= 1 => ~(Cardinality(ticked) > 1)
<1>1. IsFiniteSet(Indices \X GridRows) BY GridAssumption, IndicesAre, FS_Product
<1>2. IsFiniteSet(ticked) BY <1>1, FS_Subset DEF GridInv
<1>3. Cardinality(ticked) \in Nat BY <1>2, FS_CardinalityType
<1> QED BY <1>2, <1>3

LEMMA NoneOpen ==
  /\ NoEditor \in [kind : {"none", "cell", "dialog"}, index : Nat, row : GridRows \cup {NoRow}]
  /\ NoEditor.kind = "none"
<1>1. 0 \in Nat OBVIOUS
<1> QED BY <1>1 DEF NoEditor

LEMMA InitGrid == GridInit => GridInv
<1> SUFFICES ASSUME GridInit PROVE GridInv OBVIOUS
<1>1. grid \in Seq(GridRows) /\ DOMAIN grid \subseteq Indices
  <2>1. PICK S : S = GridRows OBVIOUS
  <2>2. S \subseteq GridRows /\ grid \in SetToSeqs(S) BY <2>1 DEF GridInit
  <2> QED BY <2>2, OrdersAre
<1>2. /\ present = GridRows /\ gridStatus = "success" /\ ticked = {} /\ details = NoRow
      /\ editor = NoEditor /\ asked = {}
  BY DEF GridInit
<1>3. GridTypeOK BY <1>1, <1>2, NoneOpen DEF GridTypeOK
<1> QED BY <1>1, <1>2, <1>3, NoneOpen DEF GridInv, CellHasRow, TickedAlone, TicksFresh

\* What is ticked changes, and the grid does not
LEMMA TickStep ==
  ASSUME GridInv, NEW new, Tick(new), asked' = {}, new \subseteq Indices \X GridRows,
         \A t, u \in new : t[1] = u[1] => t = u,
         ticked \subseteq Standing => new \subseteq Standing
  PROVE  GridInv' /\ MeantRow
<1>1. ticked' = new /\ UNCHANGED <<present, grid, gridStatus>> BY DEF Tick
<1>2. \/ details' = NoRow /\ editor' = NoEditor
      \/ ~(Cardinality(new) > 1) /\ UNCHANGED <<details, editor>>
  BY DEF Tick
<1>3. /\ details' \in GridRows \cup {NoRow}
      /\ editor' \in [kind : {"none", "cell", "dialog"}, index : Nat, row : GridRows \cup {NoRow}]
  BY <1>2, NoneOpen DEF GridInv, GridTypeOK
<1>4. GridTypeOK'
  <2>1. ticked' \subseteq Nat \X GridRows BY <1>1, IndicesAre
  <2>2. \A t, u \in ticked' : t[1] = u[1] => t = u BY <1>1
  <2> QED BY <1>1, <1>3, <2>1, <2>2 DEF GridInv, GridTypeOK
<1>5. (editor # NoEditor => editor.kind \in {"cell", "dialog"} /\ editor.row \in GridRows)' /\ CellHasRow'
  BY <1>1, <1>2, NoneOpen DEF GridInv, CellHasRow
<1>6. TickedAlone' BY <1>1, <1>2 DEF TickedAlone
<1>7. TicksFresh'
  <2>1. Standing' = Standing BY <1>1 DEF Standing
  <2> QED BY <1>1, <2>1 DEF GridInv, TicksFresh
<1>8. Indices' = Indices OBVIOUS
<1> QED BY <1>1, <1>4, <1>5, <1>6, <1>7, <1>8 DEF GridInv, MeantRow

\* The ticks stay; the grid may be read again, and an editor may be opened or closed
LEMMA KeepsTicks ==
  ASSUME GridInv, UNCHANGED ticked, present' \subseteq GridRows,
         grid' \in Seq(GridRows), DOMAIN grid' \subseteq Indices,
         gridStatus' \in {"success", "loading", "error"},
         \/ grid' = grid /\ (gridStatus' = "success" => gridStatus = "success")
         \/ gridStatus' # "success",
         details' \in GridRows \cup {NoRow}, details' \in {details, NoRow} \/ ~(Cardinality(ticked) > 1),
         \/ editor' = NoEditor
         \/ editor' = editor /\ (editor.kind = "cell" => DOMAIN grid' = DOMAIN grid)
         \/ /\ ~(Cardinality(ticked) > 1)
            /\ \E k \in {"cell", "dialog"}, i \in DOMAIN grid, r \in GridRows :
                 editor' = [kind |-> k, index |-> i, row |-> r] /\ grid' = grid,
         asked' \subseteq Change
  PROVE  GridInv'
<1>1. /\ editor' \in [kind : {"none", "cell", "dialog"}, index : Nat, row : GridRows \cup {NoRow}]
      /\ editor' # NoEditor => editor'.kind \in {"cell", "dialog"} /\ editor'.row \in GridRows
      /\ editor'.kind = "cell" => editor'.index \in DOMAIN grid'
      /\ Cardinality(ticked) > 1 => editor' = NoEditor
  <2>1. CASE editor' = NoEditor BY <2>1, NoneOpen
  <2>2. CASE editor' = editor /\ (editor.kind = "cell" => DOMAIN grid' = DOMAIN grid)
    BY <2>2 DEF GridInv, GridTypeOK, CellHasRow, TickedAlone
  <2>3. ASSUME NEW k \in {"cell", "dialog"}, NEW i \in DOMAIN grid, NEW r \in GridRows,
               editor' = [kind |-> k, index |-> i, row |-> r], grid' = grid, ~(Cardinality(ticked) > 1)
        PROVE  /\ editor' \in [kind : {"none", "cell", "dialog"}, index : Nat, row : GridRows \cup {NoRow}]
               /\ editor' # NoEditor => editor'.kind \in {"cell", "dialog"} /\ editor'.row \in GridRows
               /\ editor'.kind = "cell" => editor'.index \in DOMAIN grid'
    <3>1. i \in Nat BY IndicesAre DEF GridInv
    <3>2. editor'.kind = k /\ editor'.index = i /\ editor'.row = r BY <2>3
    <3>3. editor' \in [kind : {"none", "cell", "dialog"}, index : Nat, row : GridRows \cup {NoRow}]
      BY <2>3, <3>1
    <3> QED BY <2>3, <3>2, <3>3
  <2> QED BY <2>1, <2>2, <2>3
<1>2. GridTypeOK' BY <1>1 DEF GridInv, GridTypeOK
<1>3. CellHasRow' BY <1>1 DEF CellHasRow
<1>4. TickedAlone' BY <1>1 DEF GridInv, TickedAlone
<1>5. TicksFresh'
  <2>1. CASE grid' = grid /\ (gridStatus' = "success" => gridStatus = "success")
    <3>1. Standing' = Standing BY <2>1 DEF Standing
    <3> QED BY <2>1, <3>1 DEF GridInv, TicksFresh
  <2>2. CASE gridStatus' # "success" BY <2>2 DEF TicksFresh
  <2> QED BY <2>1, <2>2
<1>6. Indices' = Indices OBVIOUS
<1> QED BY <1>1, <1>2, <1>3, <1>4, <1>5, <1>6 DEF GridInv

\* Rows arrive: the editor in a cell stays when there are as many rows as before
LEMMA EditorKept ==
  ASSUME GridInv, NEW g, g \in Seq(GridRows), DOMAIN g = 1 .. Len(g), editor' = Kept(g)
  PROVE  editor' = NoEditor \/ (editor' = editor /\ (editor.kind = "cell" => DOMAIN g = DOMAIN grid))
<1>1. DOMAIN grid = 1 .. Len(grid) BY DEF GridInv
<1>2. CASE editor.kind = "cell" /\ Len(g) # Len(grid)
  <2>1. Kept(g) = NoEditor BY <1>2 DEF Kept
  <2> QED BY <2>1
<1>3. CASE ~(editor.kind = "cell" /\ Len(g) # Len(grid))
  <2>1. editor' = editor BY <1>3 DEF Kept
  <2>2. editor.kind = "cell" => Len(g) = Len(grid) BY <1>3
  <2> QED BY <1>1, <2>1, <2>2
<1> QED BY <1>2, <1>3

LEMMA GridStep == GridInv /\ [GridNext]_gridVars => GridInv' /\ [MeantRow]_gridVars
<1> SUFFICES ASSUME GridInv, [GridNext]_gridVars PROVE GridInv' /\ [MeantRow]_gridVars OBVIOUS
<1>1. /\ present \subseteq GridRows /\ grid \in Seq(GridRows) /\ gridStatus \in {"success", "loading", "error"}
      /\ details \in GridRows \cup {NoRow} /\ DOMAIN grid \subseteq Indices
      /\ ticked \subseteq Indices \X GridRows /\ \A t, u \in ticked : t[1] = u[1] => t = u
      /\ \A i \in DOMAIN grid : grid[i] \in GridRows
  BY DEF GridInv, GridTypeOK
<1>2. asked' = {} => asked' \subseteq Change /\ MeantRow BY DEF MeantRow
<1>3. Standing \subseteq Indices \X GridRows /\ \A t, u \in Standing : t[1] = u[1] => t = u
  BY <1>1 DEF Standing
<1>4. ASSUME NEW i \in Indices, ToggleRow(i), asked' = {} PROVE GridInv' /\ MeantRow
  <2>1. i \in DOMAIN grid BY <1>4 DEF ToggleRow
  <2>2. <<i, grid[i]>> \in Standing /\ <<i, grid[i]>> \in Indices \X GridRows
    BY <1>1, <2>1 DEF Standing
  <2>3. CASE i \in Chosen
    <3>1. PICK new : new = {t \in ticked : t[1] # i} OBVIOUS
    <3>2. Tick(new) BY <1>4, <2>3, <3>1 DEF ToggleRow
    <3>3. new \subseteq ticked BY <3>1
    <3>4. /\ new \subseteq Indices \X GridRows /\ \A t, u \in new : t[1] = u[1] => t = u
          /\ ticked \subseteq Standing => new \subseteq Standing
      BY <1>1, <3>3
    <3> QED BY <1>4, <3>2, <3>4, TickStep
  <2>4. CASE i \notin Chosen
    <3>1. PICK new : new = ticked \cup {<<i, grid[i]>>} OBVIOUS
    <3>2. Tick(new) BY <1>4, <2>4, <3>1 DEF ToggleRow
    <3>3. \A t \in ticked : t[1] # i BY <2>4 DEF Chosen
    <3>4. \A t, u \in new : t[1] = u[1] => t = u BY <1>1, <3>1, <3>3
    <3>5. /\ new \subseteq Indices \X GridRows
          /\ ticked \subseteq Standing => new \subseteq Standing
      BY <1>1, <2>2, <3>1
    <3> QED BY <1>4, <3>2, <3>4, <3>5, TickStep
  <2> QED BY <2>3, <2>4
<1>5. ASSUME NEW i \in Indices, NEW j \in Indices, TickRange(i, j), asked' = {} PROVE GridInv' /\ MeantRow
  <2>1. PICK new : new = ticked \cup {t \in Standing : t[1] \in i .. j /\ t[1] \notin Chosen} OBVIOUS
  <2>2. Tick(new) BY <1>5, <2>1 DEF TickRange
  <2>3. \A t \in new : t \in ticked \/ (t \in Standing /\ t[1] \notin Chosen) BY <2>1
  <2>4. \A t \in ticked : t[1] \in Chosen BY DEF Chosen
  <2>5. \A t, u \in new : t[1] = u[1] => t = u BY <1>1, <1>3, <2>3, <2>4
  <2>6. /\ new \subseteq Indices \X GridRows
        /\ ticked \subseteq Standing => new \subseteq Standing
    BY <1>1, <1>3, <2>3
  <2> QED BY <1>5, <2>2, <2>5, <2>6, TickStep
<1>6. ASSUME TickAll, asked' = {} PROVE GridInv' /\ MeantRow
  <2>1. PICK new : new = IF Cardinality(ticked) = Len(grid) THEN {} ELSE Standing OBVIOUS
  <2>2. Tick(new) BY <1>6, <2>1 DEF TickAll
  <2>3. new \subseteq Standing BY <2>1
  <2>4. new \subseteq Indices \X GridRows /\ \A t, u \in new : t[1] = u[1] => t = u BY <1>3, <2>3
  <2> QED BY <1>6, <2>2, <2>3, <2>4, TickStep
<1>7. ASSUME NEW i \in Indices, ShowDetails(i), asked' = {} PROVE GridInv' /\ MeantRow
  <2>1. ~(Cardinality(ticked) > 1) BY <1>7, TicksCounted DEF ShowDetails
  <2>2. details' \in GridRows \cup {NoRow} BY <1>1, <1>7 DEF ShowDetails
  <2> QED BY <1>1, <1>2, <1>7, <2>1, <2>2, KeepsTicks DEF ShowDetails
<1>8. ASSUME NEW i \in Indices, NEW k \in {"cell", "dialog"}, OpenEditor(i, k), asked' = {}
      PROVE  GridInv' /\ MeantRow
  <2>1. ~(Cardinality(ticked) > 1) /\ i \in DOMAIN grid BY <1>8, TicksCounted DEF OpenEditor
  <2>2. PICK r \in GridRows : r = grid[i] BY <1>1, <2>1
  <2>3. editor' = [kind |-> k, index |-> i, row |-> r] /\ UNCHANGED <<present, grid, gridStatus, ticked, details>>
    BY <1>8, <2>2 DEF OpenEditor
  <2> QED BY <1>1, <1>2, <1>8, <2>1, <2>3, KeepsTicks
<1>9. ASSUME CancelEditor, asked' = {} PROVE GridInv' /\ MeantRow
  BY <1>1, <1>2, <1>9, KeepsTicks DEF CancelEditor
<1>10. ASSUME NEW r \in GridRows, TableChanges(r), asked' = {} PROVE GridInv' /\ MeantRow
  <2>1. present' \subseteq GridRows BY <1>1, <1>10 DEF TableChanges
  <2> QED BY <1>1, <1>2, <1>10, <2>1, KeepsTicks DEF TableChanges
<1>11. ASSUME Refetch, asked' = {} PROVE GridInv' /\ MeantRow
  <2>1. gridStatus' = "loading" BY <1>11 DEF Refetch
  <2> QED BY <1>1, <1>2, <1>11, <2>1, KeepsTicks DEF Refetch
<1>12. ASSUME RowsFail, asked' = {} PROVE GridInv' /\ MeantRow
  <2>1. gridStatus' = "error" BY <1>12 DEF RowsFail
  <2> QED BY <1>1, <1>2, <1>12, <2>1, KeepsTicks DEF RowsFail
<1>13. ASSUME NEW R \in SUBSET present, RowsArrive(R), asked' = {} PROVE GridInv' /\ MeantRow
  <2>1. PICK g : g = grid' OBVIOUS
  <2>2. /\ gridStatus = "loading" /\ g \in SetToSeqs(R) /\ editor' = Kept(g)
        /\ UNCHANGED <<present, gridStatus, ticked, details>>
    BY <1>13, <2>1 DEF RowsArrive, Kept
  <2>3. g \in Seq(GridRows) /\ DOMAIN g = 1 .. Len(g) /\ DOMAIN g \subseteq Indices
    <3>1. R \subseteq GridRows BY <1>1
    <3> QED BY <2>2, <3>1, OrdersAre
  <2>4. editor' = NoEditor \/ (editor' = editor /\ (editor.kind = "cell" => DOMAIN g = DOMAIN grid))
    BY <2>2, <2>3, EditorKept
  <2> QED BY <1>1, <1>2, <1>13, <2>1, <2>2, <2>3, <2>4, KeepsTicks
<1>14. ASSUME RowsEnd, asked' = {} PROVE GridInv' /\ MeantRow
  <2>1. PICK g : g = grid' OBVIOUS
  <2>2. /\ gridStatus' = "success" /\ ticked' = {} /\ g \in SetToSeqs(present) /\ editor' = Kept(g)
        /\ UNCHANGED <<present, details>>
    BY <1>14, <2>1 DEF RowsEnd, Kept
  <2>3. g \in Seq(GridRows) /\ DOMAIN g = 1 .. Len(g) /\ DOMAIN g \subseteq Indices
    BY <1>1, <2>2, OrdersAre
  <2>4. editor' = NoEditor \/ (editor' = editor /\ (editor.kind = "cell" => DOMAIN g = DOMAIN grid))
    BY <2>2, <2>3, EditorKept
  <2>5. editor \in [kind : {"none", "cell", "dialog"}, index : Nat, row : GridRows \cup {NoRow}]
        /\ (editor # NoEditor => editor.kind \in {"cell", "dialog"} /\ editor.row \in GridRows)
        /\ (editor.kind = "cell" => editor.index \in DOMAIN grid)
    BY DEF GridInv, GridTypeOK, CellHasRow
  <2>6. /\ editor' \in [kind : {"none", "cell", "dialog"}, index : Nat, row : GridRows \cup {NoRow}]
        /\ editor' # NoEditor => editor'.kind \in {"cell", "dialog"} /\ editor'.row \in GridRows
        /\ editor'.kind = "cell" => editor'.index \in DOMAIN grid'
    BY <2>1, <2>4, <2>5, NoneOpen
  <2>7. GridTypeOK'
    BY <1>1, <1>2, <1>14, <2>1, <2>2, <2>3, <2>6 DEF GridTypeOK
  <2>8. TickedAlone'
    <3>1. Cardinality({}) = 0 BY FS_EmptySet
    <3> QED BY <2>2, <3>1 DEF TickedAlone
  <2>9. TicksFresh' BY <2>2 DEF TicksFresh
  <2> QED BY <1>2, <1>14, <2>1, <2>2, <2>3, <2>6, <2>7, <2>8, <2>9 DEF GridInv, CellHasRow
<1>15. ASSUME NEW i \in Indices, EditRow(i) PROVE GridInv' /\ MeantRow
  <2>1. PICK r \in GridRows : r = grid[i] BY <1>1, <1>15 DEF EditRow
  <2>2. PICK c : c = [row |-> r, meant |-> r, by |-> "row"] OBVIOUS
  <2>3. asked' = {c} BY <1>15, <2>1, <2>2 DEF EditRow, AskChange
  <2>4. c \in Change /\ c.row = c.meant BY <2>2 DEF Change
  <2>5. asked' \subseteq Change /\ MeantRow BY <2>3, <2>4 DEF MeantRow
  <2> QED BY <1>1, <1>15, <2>5, KeepsTicks DEF EditRow
<1>16. ASSUME EditDetails PROVE GridInv' /\ MeantRow
  <2>1. PICK r \in GridRows : r = details BY <1>1, <1>16 DEF EditDetails
  <2>2. PICK c : c = [row |-> r, meant |-> r, by |-> "details"] OBVIOUS
  <2>3. asked' = {c} BY <1>16, <2>1, <2>2 DEF EditDetails, AskChange
  <2>4. c \in Change /\ c.row = c.meant BY <2>2 DEF Change
  <2>5. asked' \subseteq Change /\ MeantRow BY <2>3, <2>4 DEF MeantRow
  <2>6. editor' = editor /\ (editor.kind = "cell" => DOMAIN grid' = DOMAIN grid) BY <1>16 DEF EditDetails
  <2> QED BY <1>1, <1>16, <2>5, <2>6, KeepsTicks DEF EditDetails
<1>17. ASSUME SaveEditor PROVE GridInv' /\ MeantRow
  <2>1. PICK e : e = editor OBVIOUS
  <2>2. e.kind \in {"cell", "dialog"} /\ e.row \in GridRows BY <1>17, <2>1 DEF SaveEditor, GridInv
  <2>3. asked' \subseteq Change /\ MeantRow
    <3>1. CASE e.index \in DOMAIN grid
      <4>1. PICK r \in GridRows : r = grid[e.index] BY <1>1, <3>1
      <4>2. PICK c : c = [row |-> r, meant |-> e.row, by |-> e.kind] OBVIOUS
      <4>3. asked' = {c} BY <1>17, <2>1, <3>1, <4>1, <4>2 DEF SaveEditor, AskChange
      <4>4. c \in Change /\ c.by \in {"cell", "dialog"} BY <2>2, <4>2 DEF Change
      <4> QED BY <4>3, <4>4 DEF MeantRow
    <3>2. CASE e.index \notin DOMAIN grid BY <1>2, <1>17, <2>1, <3>2 DEF SaveEditor
    <3> QED BY <3>1, <3>2
  <2> QED BY <1>1, <1>17, <2>3, KeepsTicks DEF SaveEditor
<1>18. ASSUME DeleteSelected PROVE GridInv' /\ MeantRow
  <2>1. PICK D : D = {[row |-> grid[t[1]], meant |-> t[2], by |-> "selection"] :
                        t \in {u \in ticked : u[1] \in DOMAIN grid}} OBVIOUS
  <2>2. asked' = D /\ ticked' = {} /\ UNCHANGED <<present, grid, gridStatus, details, editor>>
    BY <1>18, <2>1 DEF DeleteSelected
  <2>3. ASSUME NEW c \in D
        PROVE  c \in Change /\ c.by = "selection" /\ (ticked \subseteq Standing => c.row = c.meant)
    <3>1. PICK t \in ticked : t[1] \in DOMAIN grid /\ c = [row |-> grid[t[1]], meant |-> t[2], by |-> "selection"]
      BY <2>1
    <3>2. grid[t[1]] \in GridRows /\ t[2] \in GridRows BY <1>1, <3>1
    <3>3. c \in Change /\ c.row = grid[t[1]] /\ c.meant = t[2] /\ c.by = "selection" BY <3>1, <3>2 DEF Change
    <3>4. ticked \subseteq Standing => t[2] = grid[t[1]] BY DEF Standing
    <3> QED BY <3>3, <3>4
  <2>4. asked' \subseteq Change BY <2>2, <2>3
  <2>5. MeantRow BY <2>2, <2>3 DEF GridInv, TicksFresh, MeantRow
  <2>6. Cardinality({}) = 0 BY FS_EmptySet
  <2>7. GridTypeOK' BY <2>2, <2>4 DEF GridInv, GridTypeOK
  <2>8. TickedAlone' /\ TicksFresh' /\ CellHasRow' BY <2>2, <2>6 DEF GridInv, TickedAlone, TicksFresh, CellHasRow
  <2> QED BY <2>2, <2>5, <2>7, <2>8 DEF GridInv
<1>19. CASE UNCHANGED gridVars
  <2>1. GridInv' BY <1>1, <1>19, KeepsTicks DEF gridVars, GridInv, GridTypeOK
  <2> QED BY <1>19, <2>1
<1>20. ASSUME Looks, asked' = {} PROVE GridInv' /\ MeantRow
  BY <1>20, <1>4, <1>5, <1>6, <1>7, <1>8, <1>9, <1>10, <1>11, <1>12, <1>13, <1>14 DEF Looks
<1> QED BY <1>15, <1>16, <1>17, <1>18, <1>19, <1>20 DEF GridNext
-----------------------------------------------------------------------------
(* RowQueue: the changes and the saves *)

Ordered(q) == \A i, j \in DOMAIN q : i < j => q[i] < q[j]

\* What a save lists, and how far it has come
SaveFits(s) ==
  /\ save[s].list \in Seq(1 .. made) /\ Ordered(save[s].list)
  /\ save[s].pc = "none" => save[s].list = <<>>
  /\ save[s].pc # "none" => save[s].at \in DOMAIN save[s].list

\* Statements that a save is past have taken effect
PastHaveRun(s) ==
  \A k \in DOMAIN save[s].list :
    save[s].pc = "done" \/ k < save[s].at => runs[save[s].list[k]] >= 1

\* The save may have run the entry
Came(s, i) ==
  \E k \in DOMAIN save[s].list :
    /\ save[s].list[k] = i
    /\ k < save[s].at \/ (k = save[s].at /\ save[s].pc \in {"done", "failed"})

\* What has taken effect is of a save
RunsFit == \A i \in Ids : runs[i] >= 1 => \E s \in Saves : Came(s, i)

\* Of two saves under way, one was started beside the other
Beside == \A s, t \in Running : s # t => Overlap(s, t)

\* Two saves list the same entry when they ran at once or one of them failed
SharedForCause ==
  \A s, t \in Saves : \A i \in Ids :
    s # t /\ s \in Listed(i) /\ t \in Listed(i) => Overlap(s, t) \/ Failed(s) \/ Failed(t)

\* What a finished save has listed has left the queue
DoneIsGone(s) == save[s].pc = "done" => \A i \in ToSet(save[s].list) : i \notin ToSet(queue)

\* An older change that is still queued is listed wherever a later one is
ListsOlder(s) ==
  \A i \in ToSet(queue), j \in ToSet(save[s].list) : i < j => i \in ToSet(save[s].list)

\* What is queued and not listed by a save under way was made during it
MadeDuring(s) ==
  save[s].pc = "running" =>
    \A i \in ToSet(queue) : i \notin ToSet(save[s].list) => s \in entry[i].during

SaveInv(s) ==
  /\ SaveFits(s) /\ PastHaveRun(s) /\ DoneIsGone(s) /\ ListsOlder(s) /\ MadeDuring(s)

\* An entry is of one of the three kinds, with a value to set where it sets one
EntryFits(i) ==
  /\ entry[i].type \in {"insert", "update", "delete"}
  /\ entry[i].type = "update" => entry[i].value \in Inputs

QueueInv ==
  /\ QueueTypeOK
  /\ \A i \in 1 .. made : EntryFits(i)
  /\ queue \in Seq(1 .. made) /\ Ordered(queue)
  /\ \A s \in Saves : SaveInv(s)
  /\ RunsFit /\ Beside /\ SharedForCause /\ RepeatedForCause /\ LostForCause

\* Sequences of entries: what a later entry at the end, or one taken out, leaves
LEMMA OrderedGrows ==
  ASSUME NEW n \in Nat, NEW q \in Seq(1 .. n), Ordered(q), NEW a, a = Append(q, n + 1)
  PROVE  /\ a \in Seq(1 .. n + 1) /\ Ordered(a)
         /\ ToSet(a) = ToSet(q) \cup {n + 1}
<1>1. q \in Seq(1 .. n + 1) BY SMT
<1>2. n + 1 \in 1 .. n + 1 OBVIOUS
<1>3. a \in Seq(1 .. n + 1) BY <1>1, <1>2
<1>4. Len(a) = Len(q) + 1 /\ DOMAIN a = 1 .. Len(q) + 1 /\ DOMAIN q = 1 .. Len(q) /\ Len(q) \in Nat
  BY <1>2
<1>5. \A k \in DOMAIN q : a[k] = q[k] /\ q[k] \in 1 .. n BY <1>4
<1>6. a[Len(q) + 1] = n + 1 BY <1>4
<1>7. Ordered(a)
  <2> SUFFICES ASSUME NEW i \in DOMAIN a, NEW j \in DOMAIN a, i < j PROVE a[i] < a[j]
    BY DEF Ordered
  <2>1. i \in DOMAIN q BY <1>4
  <2>2. CASE j \in DOMAIN q BY <1>5, <2>1, <2>2 DEF Ordered
  <2>3. CASE j = Len(q) + 1 BY <1>5, <1>6, <2>1, <2>3
  <2> QED BY <1>4, <2>2, <2>3
<1>8. ToSet(a) = ToSet(q) \cup {n + 1}
  <2>1. ASSUME NEW x PROVE x \in ToSet(a) <=> x \in ToSet(q) \cup {n + 1}
    <3>1. ASSUME x \in ToSet(a) PROVE x \in ToSet(q) \cup {n + 1}
      <4>1. PICK k \in DOMAIN a : a[k] = x BY <3>1 DEF ToSet
      <4>2. k \in DOMAIN q \/ k = Len(q) + 1 BY <1>4
      <4> QED BY <1>5, <1>6, <4>1, <4>2 DEF ToSet
    <3>2. ASSUME x \in ToSet(q) PROVE x \in ToSet(a)
      <4>1. PICK k \in DOMAIN q : q[k] = x BY <3>2 DEF ToSet
      <4>2. k \in DOMAIN a BY <1>4
      <4> QED BY <1>5, <4>1, <4>2 DEF ToSet
    <3>3. n + 1 \in ToSet(a)
      <4>1. Len(q) + 1 \in DOMAIN a BY <1>4
      <4> QED BY <1>6, <4>1 DEF ToSet
    <3> QED BY <3>1, <3>2, <3>3
  <2> QED BY <2>1
<1> QED BY <1>3, <1>7, <1>8

LEMMA RemoveAtGives ==
  ASSUME NEW S, NEW q \in Seq(S), NEW n \in DOMAIN q, NEW a, a = RemoveAt(q, n)
  PROVE  /\ a \in Seq(S) /\ Len(a) = Len(q) - 1 /\ DOMAIN a = 1 .. Len(q) - 1
         /\ \A i \in DOMAIN a : i < n => a[i] = q[i]
         /\ \A i \in DOMAIN a : ~(i < n) => a[i] = q[i + 1]
<1>1. Len(q) \in Nat /\ DOMAIN q = 1 .. Len(q) /\ n \in 1 .. Len(q) OBVIOUS
<1>2. PICK u, v : u = SubSeq(q, 1, n - 1) /\ v = SubSeq(q, n + 1, Len(q)) OBVIOUS
<1>3. /\ u \in Seq(S) /\ Len(u) = n - 1
      /\ \A i \in 1 .. n - 1 : u[i] = q[i]
  BY <1>1, <1>2
<1>4. /\ v \in Seq(S) /\ Len(v) = Len(q) - n
      /\ \A i \in 1 .. Len(q) - n : v[i] = q[n + i]
  BY <1>1, <1>2
<1>5. a = u \o v BY <1>2 DEF RemoveAt
<1>6. a \in Seq(S) /\ Len(a) = Len(q) - 1
  <2>1. a \in Seq(S) BY <1>3, <1>4, <1>5
  <2>2. Len(a) = Len(u) + Len(v)
    <3>1. u \in Seq(S) /\ v \in Seq(S) BY <1>3, <1>4
    <3>2. Len(u \o v) = Len(u) + Len(v) BY <3>1
    <3> QED BY <1>5, <3>2
  <2> QED BY <1>1, <1>3, <1>4, <2>1, <2>2
<1>7. \A i \in 1 .. Len(q) - 1 : (i < n => a[i] = q[i]) /\ (~(i < n) => a[i] = q[i + 1])
  <2> TAKE i \in 1 .. Len(q) - 1
  <2>1. CASE i < n
    <3>1. a[i] = u[i] BY <1>1, <1>3, <1>4, <1>5, <2>1
    <3> QED BY <1>1, <1>3, <2>1, <3>1
  <2>2. CASE ~(i < n)
    <3>0. Len(u) = n - 1 /\ Len(v) = Len(q) - n /\ i \in Nat /\ n - 1 < i /\ i <= Len(u) + Len(v)
      BY <1>1, <1>3, <1>4, <2>2
    <3>1. a[i] = v[i - (n - 1)]
      <4>1. u \in Seq(S) /\ v \in Seq(S) BY <1>3, <1>4
      <4>2. (u \o v)[i] = v[i - Len(u)] BY <3>0, <4>1, Beyond
      <4> QED BY <1>5, <3>0, <4>2
    <3>2. i - (n - 1) \in 1 .. Len(q) - n /\ n + (i - (n - 1)) = i + 1 BY <1>1, <2>2
    <3> QED BY <1>4, <2>2, <3>1, <3>2
  <2> QED BY <2>1, <2>2
<1>8. DOMAIN a = 1 .. Len(q) - 1 BY <1>6
<1> QED BY <1>6, <1>7, <1>8

LEMMA OrderedShrinks ==
  ASSUME NEW S, S \subseteq Nat, NEW q \in Seq(S), Ordered(q), NEW k \in DOMAIN q, NEW a, a = RemoveAt(q, k)
  PROVE  a \in Seq(S) /\ Ordered(a) /\ ToSet(a) = ToSet(q) \ {q[k]}
<1>1. DOMAIN q = 1 .. Len(q) /\ Len(q) \in Nat /\ k \in 1 .. Len(q) OBVIOUS
<1>5. /\ a \in Seq(S) /\ DOMAIN a = 1 .. Len(q) - 1
      /\ \A i \in 1 .. Len(q) - 1 : a[i] = IF i < k THEN q[i] ELSE q[i + 1]
  <2>3. a \in Seq(S) BY RemoveAtGives
  <2>4. DOMAIN a = 1 .. Len(q) - 1 BY RemoveAtGives
  <2>5. \A i \in DOMAIN a : i < k => a[i] = q[i] BY RemoveAtGives
  <2>6. \A i \in DOMAIN a : ~(i < k) => a[i] = q[i + 1] BY RemoveAtGives
  <2> QED BY <2>3, <2>4, <2>5, <2>6
<1>8. \A i \in DOMAIN a : a[i] = IF i < k THEN q[i] ELSE q[i + 1] BY <1>5
<1>9. Ordered(a)
  <2> SUFFICES ASSUME NEW i \in DOMAIN a, NEW j \in DOMAIN a, i < j PROVE a[i] < a[j]
    BY DEF Ordered
  <2>1. PICK i0, j0 : i0 = (IF i < k THEN i ELSE i + 1) /\ j0 = (IF j < k THEN j ELSE j + 1) OBVIOUS
  <2>2. i0 \in DOMAIN q /\ j0 \in DOMAIN q /\ i0 < j0
    <3>1. i \in 1 .. Len(q) - 1 /\ j \in 1 .. Len(q) - 1 BY <1>5
    <3> QED BY <1>1, <2>1, <3>1
  <2>3. a[i] = q[i0] /\ a[j] = q[j0] BY <1>8, <2>1
  <2> QED BY <2>2, <2>3 DEF Ordered
<1>10. ToSet(a) = ToSet(q) \ {q[k]}
  <2>1. ASSUME NEW x \in ToSet(a) PROVE x \in ToSet(q) \ {q[k]}
    <3>1. PICK i \in DOMAIN a : a[i] = x BY <2>1 DEF ToSet
    <3>2. PICK i0 : i0 = (IF i < k THEN i ELSE i + 1) OBVIOUS
    <3>3. i0 \in DOMAIN q /\ i0 # k BY <1>1, <1>5, <3>2
    <3>4. x = q[i0] BY <1>8, <3>1, <3>2
    <3>5. q[i0] # q[k]
      <4>1. i0 < k \/ k < i0 BY <1>1, <3>3
      <4>2. q[i0] \in S /\ q[k] \in S BY <1>1, <3>3
      <4>3. q[i0] < q[k] \/ q[k] < q[i0] BY <3>3, <4>1 DEF Ordered
      <4>4. q[i0] \in Nat /\ q[k] \in Nat BY <4>2
      <4> QED BY <4>3, <4>4
    <3> QED BY <3>3, <3>4, <3>5 DEF ToSet
  <2>2. ASSUME NEW x \in ToSet(q) \ {q[k]} PROVE x \in ToSet(a)
    <3>1. PICK i \in DOMAIN q : q[i] = x BY <2>2 DEF ToSet
    <3>2. i # k BY <2>2, <3>1
    <3>3. PICK i1 : i1 = (IF i < k THEN i ELSE i - 1) OBVIOUS
    <3>4. i1 \in DOMAIN a BY <1>1, <1>5, <3>2, <3>3
    <3>5. a[i1] = q[i] BY <1>1, <1>8, <3>2, <3>3, <3>4
    <3> QED BY <3>1, <3>4, <3>5 DEF ToSet
  <2> QED BY <2>1, <2>2
<1> QED BY <1>5, <1>9, <1>10

LEMMA MembersAre == ASSUME NEW S, NEW q \in Seq(S) PROVE \A x \in ToSet(q) : x \in S
BY DEF ToSet

LEMMA MadeAre == QueueInv => 1 .. made \subseteq Ids /\ made \in Nat /\ made <= MaxEntries
<1> SUFFICES ASSUME QueueInv PROVE 1 .. made \subseteq Ids /\ made \in Nat /\ made <= MaxEntries OBVIOUS
<1>1. made \in 0 .. MaxEntries BY DEF QueueInv, QueueTypeOK
<1> QED BY <1>1, QueueBoundAssumption DEF Ids

\* The queue changes, no statement runs and no save starts or ends
LEMMA QueueChanges ==
  ASSUME QueueInv, QueueTypeOK', UNCHANGED <<runs, save>>,
         made' \in Nat, made <= made',
         queue' \in Seq(1 .. made'), Ordered(queue'),
         \A i \in 1 .. made' : EntryFits(i)',
         \A i \in 1 .. made : entry'[i] = entry[i],
         \A i \in ToSet(queue') : i \in ToSet(queue) \/ (i > made /\ entry'[i].during = Running),
         dropped \subseteq dropped',
         \A i \in 1 .. made' : i \in ToSet(queue') \/ i \in dropped' \/ (i <= made /\ i \notin ToSet(queue))
  PROVE  QueueInv'
<1>1. made \in Nat BY DEF QueueInv, QueueTypeOK
<1>2. ASSUME NEW s \in Saves PROVE SaveInv(s)'
  <2>1. PICK x : x = save[s] /\ x = save'[s] OBVIOUS
  <2>2. SaveInv(s) BY DEF QueueInv
  <2>3. x.list \in Seq(1 .. made) BY <2>1, <2>2 DEF SaveInv, SaveFits
  <2>4. \A j \in ToSet(x.list) : j \in 1 .. made BY <2>3, MembersAre
  <2>5. SaveFits(s)'
    <3>1. x.list \in Seq(1 .. made') BY <1>1, <2>3
    <3> QED BY <2>1, <2>2, <3>1 DEF SaveInv, SaveFits
  <2>6. PastHaveRun(s)' BY <2>2 DEF SaveInv, PastHaveRun
  <2>7. DoneIsGone(s)'
    <3> SUFFICES ASSUME x.pc = "done", NEW i \in ToSet(x.list) PROVE i \notin ToSet(queue')
      BY <2>1 DEF DoneIsGone
    <3>1. i \notin ToSet(queue) BY <2>1, <2>2 DEF SaveInv, DoneIsGone
    <3>2. i \in 1 .. made BY <2>4
    <3> QED BY <1>1, <3>1, <3>2
  <2>8. ListsOlder(s)'
    <3> SUFFICES ASSUME NEW i \in ToSet(queue'), NEW j \in ToSet(x.list), i < j PROVE i \in ToSet(x.list)
      BY <2>1 DEF ListsOlder
    <3>1. j \in 1 .. made BY <2>4
    <3>2. i \in 1 .. made' BY MembersAre
    <3>3. i \in ToSet(queue) BY <1>1, <3>1, <3>2
    <3> QED BY <2>1, <2>2, <3>3 DEF SaveInv, ListsOlder
  <2>9. MadeDuring(s)'
    <3> SUFFICES ASSUME x.pc = "running", NEW i \in ToSet(queue'), i \notin ToSet(x.list)
                 PROVE s \in entry'[i].during
      BY <2>1 DEF MadeDuring
    <3>1. CASE i \in ToSet(queue)
      <4>1. s \in entry[i].during BY <2>1, <2>2, <3>1 DEF SaveInv, MadeDuring
      <4>2. i \in 1 .. made BY <3>1, MembersAre DEF QueueInv
      <4> QED BY <4>1, <4>2
    <3>2. CASE entry'[i].during = Running BY <2>1, <3>2 DEF Running
    <3> QED BY <3>1, <3>2
  <2> QED BY <2>5, <2>6, <2>7, <2>8, <2>9 DEF SaveInv
<1>3. RunsFit' BY DEF QueueInv, RunsFit, Came
<1>4. Beside' BY DEF QueueInv, Beside, Running, Overlap
<1>5. SharedForCause' BY DEF QueueInv, SharedForCause, Listed, Overlap, Failed
<1>6. RepeatedForCause' BY DEF QueueInv, RepeatedForCause, Listed, Overlap, Failed
<1>7. LostForCause'
  <2> SUFFICES ASSUME NEW i \in 1 .. made', i \notin ToSet(queue'), i \notin dropped', runs[i] = 0
               PROVE  \E s \in entry'[i].during : save[s].pc = "done"
    BY DEF LostForCause
  <2>1. i <= made /\ i \notin ToSet(queue) /\ i \notin dropped OBVIOUS
  <2>2. i \in 1 .. made BY <1>1, <2>1
  <2>3. \E s \in entry[i].during : save[s].pc = "done" BY <2>1, <2>2 DEF QueueInv, LostForCause
  <2> QED BY <2>2, <2>3
<1> QED BY <1>2, <1>3, <1>4, <1>5, <1>6, <1>7 DEF QueueInv

LEMMA SavesAre == QueueInv => \A s \in Saves : save[s] \in Save
BY DEF QueueInv, QueueTypeOK

LEMMA Commits ==
  ASSUME QueueInv, NEW s \in Saves, Commit(s), preview' \in [open : BOOLEAN, waits : Saves \cup {NoSave}]
  PROVE  QueueInv'
<1>1. made \in Nat /\ queue \in Seq(1 .. made) /\ Ordered(queue) /\ queue # <<>>
  BY DEF QueueInv, QueueTypeOK, Commit
<1>2. PICK n : n = [pc |-> "running", list |-> queue, at |-> 1, beside |-> Running] OBVIOUS
<1>3. n.pc = "running" /\ n.list = queue /\ n.at = 1 /\ n.beside = Running BY <1>2
<1>4. save' = [save EXCEPT ![s] = n] BY <1>2 DEF Commit
<1>5. save \in [Saves -> Save] BY DEF QueueInv, QueueTypeOK
<1>6. save'[s] = n /\ \A t \in Saves : t # s => save'[t] = save[t] BY <1>4, <1>5
<1>7. Running \subseteq Saves BY DEF Running
<1>8. queue \in Seq(Ids) BY DEF QueueInv, QueueTypeOK
<1>9. n \in Save
  <2>1. 1 \in Nat OBVIOUS
  <2> QED BY <1>2, <1>7, <1>8, <2>1 DEF Save
<1>10. save' \in [Saves -> Save] BY <1>4, <1>5, <1>9
<1>11. UNCHANGED <<table, runs, queue, entry, made, dropped>> BY DEF Commit
<1>12. QueueTypeOK' BY <1>10, <1>11 DEF QueueInv, QueueTypeOK
<1>13. s \notin Running BY DEF Commit, Running
<1>14. save[s].pc = "none" /\ save[s].list = <<>> BY DEF Commit, QueueInv, SaveInv, SaveFits
<1>15. ASSUME NEW t \in Saves PROVE SaveInv(t)'
  <2>1. CASE t = s
    <3>1. SaveFits(s)'
      <4>1. 1 \in DOMAIN queue BY <1>1
      <4> QED BY <1>1, <1>3, <1>6, <1>11, <4>1 DEF SaveFits
    <3>2. PastHaveRun(s)'
      <4>1. \A k \in DOMAIN queue : ~(k < 1) BY <1>1
      <4> QED BY <1>3, <1>6, <4>1 DEF PastHaveRun
    <3>3. DoneIsGone(s)' /\ ListsOlder(s)' /\ MadeDuring(s)'
      BY <1>3, <1>6, <1>11 DEF DoneIsGone, ListsOlder, MadeDuring
    <3> QED BY <2>1, <3>1, <3>2, <3>3 DEF SaveInv
  <2>2. CASE t # s
    <3>1. save'[t] = save[t] BY <1>6, <2>2
    <3>2. SaveInv(t) BY DEF QueueInv
    <3> QED BY <1>11, <3>1, <3>2 DEF SaveInv, SaveFits, PastHaveRun, DoneIsGone, ListsOlder, MadeDuring
  <2> QED BY <2>1, <2>2
<1>16. RunsFit'
  <2>1. ASSUME NEW i \in Ids, NEW t \in Saves, Came(t, i) PROVE Came(t, i)'
    <3>1. t # s BY <1>14, <2>1 DEF Came
    <3> QED BY <1>6, <2>1, <3>1 DEF Came
  <2> QED BY <1>11, <2>1 DEF QueueInv, RunsFit
<1>17. Beside'
  <2>1. ASSUME NEW t \in Saves, NEW u \in Saves, t # u, t # s, save'[t].pc = "running", save'[u].pc = "running"
        PROVE  Overlap(t, u)'
    <3>1. CASE u = s
      <4>1. t \in Running BY <1>6, <2>1 DEF Running
      <4> QED BY <1>3, <1>6, <3>1, <4>1 DEF Overlap
    <3>2. CASE u # s
      <4>1. save'[t] = save[t] /\ save'[u] = save[u] BY <1>6, <2>1, <3>2
      <4>2. t \in Running /\ u \in Running BY <2>1, <4>1 DEF Running
      <4> QED BY <2>1, <4>1, <4>2 DEF QueueInv, Beside, Overlap
    <3> QED BY <3>1, <3>2
  <2>2. ASSUME NEW u \in Saves, u # s, save'[u].pc = "running" PROVE Overlap(s, u)'
    <3>1. Overlap(u, s)' BY <2>1, <1>3, <1>6, <2>2
    <3> QED BY <3>1 DEF Overlap
  <2> QED BY <2>1, <2>2 DEF Beside, Running
<1>18. SharedForCause'
  <2>1. ASSUME NEW t \in Saves, NEW i \in Ids, t # s, i \in ToSet(queue), i \in ToSet(save'[t].list)
        PROVE  Overlap(s, t)' \/ Failed(t)'
    <3>1. save'[t] = save[t] BY <1>6, <2>1
    <3>2. save[t] \in Save BY <1>5
    <3>3. SaveInv(t) BY DEF QueueInv
    <3>4. save[t].pc # "none"
      <4>1. save[t].list # <<>> BY <2>1, <3>1 DEF ToSet
      <4> QED BY <3>3, <4>1 DEF SaveInv, SaveFits
    <3>5. save[t].pc # "done" BY <2>1, <3>1, <3>3 DEF SaveInv, DoneIsGone
    <3>6. save[t].pc \in {"running", "failed"} BY <3>2, <3>4, <3>5 DEF Save
    <3>7. CASE save[t].pc = "running"
      <4>1. t \in Running BY <3>7 DEF Running
      <4> QED BY <1>3, <1>6, <4>1 DEF Overlap
    <3>8. CASE save[t].pc = "failed" BY <3>1, <3>8 DEF Failed
    <3> QED BY <3>6, <3>7, <3>8
  <2>2. ASSUME NEW t \in Saves, NEW u \in Saves, NEW i \in Ids, t # u, t # s, u # s,
               i \in ToSet(save'[t].list), i \in ToSet(save'[u].list)
        PROVE  Overlap(t, u)' \/ Failed(t)' \/ Failed(u)'
    <3>1. save'[t] = save[t] /\ save'[u] = save[u] BY <1>6, <2>2
    <3>2. t \in Listed(i) /\ u \in Listed(i) BY <2>2, <3>1 DEF Listed
    <3>3. Overlap(t, u) \/ Failed(t) \/ Failed(u) BY <2>2, <3>2 DEF QueueInv, SharedForCause
    <3> QED BY <3>1, <3>3 DEF Overlap, Failed
  <2>3. ToSet(save'[s].list) = ToSet(queue) BY <1>3, <1>6
  <2>4. \A t, u \in Saves : Overlap(t, u)' <=> Overlap(u, t)' BY DEF Overlap
  <2> SUFFICES ASSUME NEW t \in Saves, NEW u \in Saves, NEW i \in Ids, t # u,
                      i \in ToSet(save'[t].list), i \in ToSet(save'[u].list)
               PROVE  Overlap(t, u)' \/ Failed(t)' \/ Failed(u)'
    BY DEF SharedForCause, Listed
  <2>5. CASE t = s BY <2>1, <2>3, <2>5
  <2>6. CASE u = s BY <2>1, <2>3, <2>4, <2>6
  <2>7. CASE t # s /\ u # s BY <2>2, <2>7
  <2> QED BY <2>5, <2>6, <2>7
<1>19. RepeatedForCause'
  <2> SUFFICES ASSUME NEW i \in Ids, runs[i] > 1
               PROVE  \/ \E t \in Listed(i)' : Failed(t)'
                      \/ \E t, u \in Listed(i)' : Overlap(t, u)'
    BY <1>11 DEF RepeatedForCause
  <2>1. \A t \in Saves : t \in Listed(i) => t \in Listed(i)' /\ t # s /\ save'[t] = save[t]
    BY <1>6, <1>14 DEF Listed, ToSet
  <2>2. \/ \E t \in Listed(i) : Failed(t)
        \/ \E t, u \in Listed(i) : Overlap(t, u)
    BY DEF QueueInv, RepeatedForCause
  <2>3. Listed(i) \subseteq Saves BY DEF Listed
  <2>4. CASE \E t \in Listed(i) : Failed(t) BY <2>1, <2>3, <2>4 DEF Failed
  <2>5. CASE \E t, u \in Listed(i) : Overlap(t, u) BY <2>1, <2>3, <2>5 DEF Overlap
  <2> QED BY <2>2, <2>4, <2>5
<1>20. LostForCause'
  <2> SUFFICES ASSUME NEW i \in 1 .. made, i \notin ToSet(queue), i \notin dropped, runs[i] = 0
               PROVE  \E t \in entry[i].during : save'[t].pc = "done"
    BY <1>11 DEF LostForCause
  <2>1. PICK t \in entry[i].during : save[t].pc = "done" BY DEF QueueInv, LostForCause
  <2>2. t \in Saves
    <3>1. i \in Ids BY MadeAre
    <3>2. entry[i] \in Entry BY <3>1 DEF QueueInv, QueueTypeOK
    <3> QED BY <3>2 DEF Entry
  <2>3. t # s BY <1>14, <2>1
  <2> QED BY <1>6, <2>1, <2>2, <2>3
<1>21. \A i \in 1 .. made' : EntryFits(i)' BY <1>11 DEF QueueInv, EntryFits
<1> QED BY <1>1, <1>11, <1>12, <1>15, <1>16, <1>17, <1>18, <1>19, <1>20, <1>21 DEF QueueInv

LEMMA Current ==
  ASSUME QueueInv, NEW s \in Saves, save[s].pc = "running", NEW i, i = save[s].list[save[s].at]
  PROVE  i \in 1 .. made /\ i \in Ids /\ i \in ToSet(save[s].list) /\ ~Came(s, i)
<1>1. PICK x : x = save[s] OBVIOUS
<1>2. x.list \in Seq(1 .. made) /\ Ordered(x.list) /\ x.at \in DOMAIN x.list
  BY <1>1 DEF QueueInv, SaveInv, SaveFits
<1>3. i \in ToSet(x.list) BY <1>1, <1>2 DEF ToSet
<1>4. i \in 1 .. made BY <1>2, <1>3, MembersAre
<1>5. \A k \in DOMAIN x.list : k < x.at => x.list[k] < i BY <1>1, <1>2 DEF Ordered
<1>6. ~Came(s, i)
  <2>1. \A k \in DOMAIN x.list : k < x.at => x.list[k] # i
    <3>1. i \in Nat BY <1>4
    <3> QED BY <1>5, <3>1
  <2> QED BY <1>1, <2>1 DEF Came
<1> QED BY <1>1, <1>3, <1>4, <1>6, MadeAre

LEMMA TableAndRuns == QueueInv => table \in [Rows -> Cells \cup {Gone}] /\ runs \in [Ids -> Nat]
BY DEF QueueInv, QueueTypeOK

\* What the statement under way does to the table, and that it counts
LEMMA RunGives ==
  ASSUME QueueInv, NEW s \in Saves, save[s].pc = "running", NEW i, i = save[s].list[save[s].at],
         NEW effect \in BOOLEAN, Run(s, effect)
  PROVE  /\ table' \in [Rows -> Cells \cup {Gone}] /\ runs' \in [Ids -> Nat]
         /\ \A j \in Ids : j # i => runs'[j] = runs[j]
         /\ effect => runs'[i] = runs[i] + 1
         /\ ~effect => runs' = runs
<1>1. i \in 1 .. made /\ i \in Ids BY Current
<1>2. table \in [Rows -> Cells \cup {Gone}] /\ runs \in [Ids -> Nat] BY TableAndRuns
<1>3. CASE effect
  <2>1. /\ Runnable(entry[i]) /\ table' = Effect(table, entry[i])
        /\ runs' = [runs EXCEPT ![i] = @ + 1]
    BY <1>3 DEF Run
  <2>2. runs' \in [Ids -> Nat] /\ runs'[i] = runs[i] + 1 /\ \A j \in Ids : j # i => runs'[j] = runs[j]
    <3>1. PICK f : f = runs OBVIOUS
    <3>2. f \in [Ids -> Nat] /\ runs' = [f EXCEPT ![i] = @ + 1] BY <1>2, <2>1, <3>1
    <3>3. f[i] \in Nat /\ i \in Ids BY <1>1, <3>2
    <3> HIDE <3>1
    <3>4. runs' \in [Ids -> Nat] BY <3>2, <3>3
    <3>5. runs'[i] = f[i] + 1 /\ \A j \in Ids : j # i => runs'[j] = f[j] BY <3>2, <3>3
    <3> QED BY <3>1, <3>4, <3>5
  <2>3. PICK e : e = entry[i] OBVIOUS
  <2>4. PICK t : t = table OBVIOUS
  <2>5. e.type \in {"insert", "update", "delete"} /\ (e.type = "update" => e.value \in Inputs)
        /\ e.value # Default
    BY <1>1, <2>1, <2>3 DEF QueueInv, EntryFits, Runnable
  <2>6. e.type = "update" => Stored(e.value) \in Cells
    BY <2>5 DEF Stored, Inputs, Cells
  <2>7. Effect(t, e) \in [Rows -> Cells \cup {Gone}]
    <3>1. ASSUME NEW r \in Rows
          PROVE  (IF t[r] = Gone \/ e.type = "insert" \/ KeyOf[r] # e.key THEN t[r]
                  ELSE IF e.type = "delete" THEN Gone
                  ELSE Stored(e.value)) \in Cells \cup {Gone}
      <4>1. t[r] \in Cells \cup {Gone} BY <1>2, <2>4
      <4> QED BY <2>5, <2>6, <4>1
    <3> QED BY <3>1 DEF Effect
  <2> QED BY <1>3, <2>1, <2>2, <2>3, <2>4, <2>7
<1>4. CASE ~effect BY <1>2, <1>4 DEF Run
<1> QED BY <1>3, <1>4

\* A statement ends: the next one, the end of the save, or its failure
LEMMA StatementEnds ==
  ASSUME QueueInv, NEW s \in Saves, save[s].pc = "running", NEW effect \in BOOLEAN, Run(s, effect),
         NEW n \in Save, save' = [save EXCEPT ![s] = n],
         n.list = save[s].list, n.beside = save[s].beside,
         \/ /\ n.pc = "running" /\ effect /\ save[s].at < Len(save[s].list)
            /\ n.at = save[s].at + 1 /\ queue' = queue
         \/ /\ n.pc = "done" /\ effect /\ ~(save[s].at < Len(save[s].list))
            /\ n.at = save[s].at /\ queue' = <<>>
         \/ n.pc = "failed" /\ n.at = save[s].at /\ queue' = queue,
         UNCHANGED <<entry, made, dropped>>,
         preview' \in [open : BOOLEAN, waits : Saves \cup {NoSave}]
  PROVE  QueueInv'
<1>1. PICK x : x = save[s] OBVIOUS
<1>2. PICK i : i = x.list[x.at] OBVIOUS
<1>3. /\ x.list \in Seq(1 .. made) /\ Ordered(x.list) /\ x.at \in DOMAIN x.list
      /\ DOMAIN x.list = 1 .. Len(x.list) /\ Len(x.list) \in Nat
  <2>1. x.list \in Seq(1 .. made) /\ Ordered(x.list) /\ x.at \in DOMAIN x.list
    BY <1>1 DEF QueueInv, SaveInv, SaveFits
  <2> QED BY <2>1
<1>4. i \in 1 .. made /\ i \in Ids /\ i \in ToSet(x.list) /\ ~Came(s, i) BY <1>1, <1>2, Current
<1>5. /\ table' \in [Rows -> Cells \cup {Gone}] /\ runs' \in [Ids -> Nat]
      /\ \A j \in Ids : j # i => runs'[j] = runs[j]
      /\ effect => runs'[i] = runs[i] + 1
      /\ ~effect => runs' = runs
  BY <1>1, <1>2, RunGives
<1>6. save \in [Saves -> Save] /\ runs \in [Ids -> Nat] /\ queue \in Seq(Ids) BY DEF QueueInv, QueueTypeOK
<1>7. save'[s] = n /\ \A t \in Saves : t # s => save'[t] = save[t] BY <1>6
<1>8. \A j \in Ids : runs[j] >= 1 => runs'[j] >= 1
  <2> TAKE j \in Ids
  <2>1. runs[j] \in Nat BY <1>6
  <2>2. runs'[j] = runs[j] \/ runs'[j] = runs[j] + 1 BY <1>5
  <2> QED BY <2>1, <2>2
<1>9. effect => runs'[i] >= 1
  <2>1. runs[i] \in Nat BY <1>4, <1>6
  <2> QED BY <1>5, <2>1
<1>10. QueueTypeOK'
  <2>1. save' \in [Saves -> Save] BY <1>6
  <2>2. queue' \in Seq(Ids)
    <3>1. queue' = queue \/ queue' = <<>> OBVIOUS
    <3>2. <<>> \in Seq(Ids) OBVIOUS
    <3> QED BY <1>6, <3>1, <3>2
  <2> QED BY <1>5, <2>1, <2>2 DEF QueueInv, QueueTypeOK
<1>11. queue' \in Seq(1 .. made') /\ Ordered(queue')
  <2>1. CASE queue' = queue BY <2>1 DEF QueueInv
  <2>2. CASE queue' = <<>> BY <2>2 DEF Ordered
  <2> QED BY <2>1, <2>2
<1>12. \A j \in ToSet(queue') : j \in ToSet(queue)
  <2>1. CASE queue' = queue BY <2>1
  <2>2. CASE queue' = <<>> BY <2>2 DEF ToSet
  <2> QED BY <2>1, <2>2
<1>13. \A t \in Saves : /\ save'[t].list = save[t].list /\ save'[t].beside = save[t].beside
                        /\ save[t].pc = "failed" => save'[t].pc = "failed"
  BY <1>7
<1>14. \A j : Listed(j)' = Listed(j) BY <1>13 DEF Listed
<1>15. \A t, u \in Saves : Overlap(t, u) => Overlap(t, u)' BY <1>13 DEF Overlap
<1>16. \A t \in Saves : Failed(t) => Failed(t)' BY <1>13 DEF Failed
<1>17. \A j \in Ids, t \in Saves : Came(t, j) => Came(t, j)'
  <2> SUFFICES ASSUME NEW j \in Ids, NEW t \in Saves, Came(t, j) PROVE Came(t, j)' OBVIOUS
  <2>1. CASE t # s BY <1>7, <2>1 DEF Came
  <2>2. CASE t = s
    <3>1. PICK k \in DOMAIN x.list : x.list[k] = j /\ k < x.at BY <1>1, <2>2 DEF Came
    <3>2. k < n.at BY <1>1, <1>3, <3>1
    <3> QED BY <1>1, <1>7, <2>2, <3>1, <3>2 DEF Came
  <2> QED BY <2>1, <2>2
<1>18. effect => Came(s, i)'
  <2> HAVE effect
  <2>1. x.at < n.at \/ (x.at = n.at /\ n.pc \in {"done", "failed"}) BY <1>1, <1>3
  <2> QED BY <1>1, <1>2, <1>3, <1>7, <2>1 DEF Came
<1>19. RunsFit'
  <2> SUFFICES ASSUME NEW j \in Ids, runs'[j] >= 1 PROVE \E t \in Saves : Came(t, j)'
    BY DEF RunsFit
  <2>1. CASE j = i /\ effect BY <1>18, <2>1
  <2>2. CASE ~(j = i /\ effect)
    <3>1. runs'[j] = runs[j] BY <1>5, <2>2
    <3> QED BY <1>17, <3>1 DEF QueueInv, RunsFit
  <2> QED BY <2>1, <2>2
<1>20. Beside'
  <2>1. Running' \subseteq Running BY <1>7 DEF Running
  <2>2. Running \subseteq Saves BY DEF Running
  <2> QED BY <1>15, <2>1, <2>2 DEF QueueInv, Beside
<1>21. SharedForCause' BY <1>14, <1>15, <1>16 DEF QueueInv, SharedForCause
<1>22. RepeatedForCause'
  <2> SUFFICES ASSUME NEW j \in Ids, runs'[j] > 1
               PROVE  \/ \E t \in Listed(j) : Failed(t)'
                      \/ \E t, u \in Listed(j) : Overlap(t, u)'
    BY <1>14 DEF RepeatedForCause
  <2>1. Listed(j) \subseteq Saves BY DEF Listed
  <2>2. CASE j = i /\ effect
    <3>1. runs[i] >= 1
      <4>1. runs[i] \in Nat BY <1>4, <1>6
      <4> QED BY <1>5, <2>2, <4>1
    <3>2. PICK t \in Saves : Came(t, i) BY <1>4, <3>1 DEF QueueInv, RunsFit
    <3>3. t # s BY <1>4, <3>2
    <3>4. t \in Listed(i) /\ s \in Listed(i) BY <1>1, <1>4, <3>2 DEF Came, Listed, ToSet
    <3>5. Overlap(t, s) \/ Failed(t) \/ Failed(s) BY <1>4, <3>3, <3>4 DEF QueueInv, SharedForCause
    <3>6. ~Failed(s) BY DEF Failed
    <3> QED BY <1>15, <1>16, <2>2, <3>4, <3>5, <3>6
  <2>3. CASE ~(j = i /\ effect)
    <3>1. runs'[j] = runs[j] BY <1>5, <2>3
    <3>2. \/ \E t \in Listed(j) : Failed(t)
          \/ \E t, u \in Listed(j) : Overlap(t, u)
      BY <3>1 DEF QueueInv, RepeatedForCause
    <3> QED BY <1>15, <1>16, <2>1, <3>2
  <2> QED BY <2>2, <2>3
<1>23. ASSUME NEW t \in Saves PROVE SaveInv(t)'
  <2>1. SaveInv(t) /\ save[t].list \in Seq(1 .. made) BY DEF QueueInv, SaveInv, SaveFits
  <2>2. SaveFits(t)'
    <3>1. CASE t # s BY <1>7, <2>1, <3>1 DEF SaveInv, SaveFits
    <3>2. CASE t = s
      <4>1. n.at \in DOMAIN x.list BY <1>1, <1>3
      <4> QED BY <1>1, <1>3, <1>7, <3>2, <4>1 DEF SaveFits
    <3> QED BY <3>1, <3>2
  <2>3. PastHaveRun(t)'
    <3>1. CASE t # s
      <4>1. \A k \in DOMAIN save[t].list : save[t].list[k] \in Ids
        <5>1. \A j \in ToSet(save[t].list) : j \in 1 .. made BY <2>1, MembersAre
        <5> QED BY <5>1, MadeAre DEF ToSet
      <4> QED BY <1>7, <1>8, <2>1, <3>1, <4>1 DEF SaveInv, PastHaveRun
    <3>2. CASE t = s
      <4> SUFFICES ASSUME NEW k \in DOMAIN x.list, n.pc = "done" \/ k < n.at
                   PROVE  runs'[x.list[k]] >= 1
        BY <1>1, <1>7, <3>2 DEF PastHaveRun
      <4>1. CASE k < x.at
        <5>1. runs[x.list[k]] >= 1 BY <1>1, <2>1, <3>2, <4>1 DEF SaveInv, PastHaveRun
        <5>2. x.list[k] \in Ids
          <6>1. \A j \in ToSet(x.list) : j \in 1 .. made BY <1>3, MembersAre
          <6> QED BY <6>1, MadeAre DEF ToSet
        <5> QED BY <1>8, <5>1, <5>2
      <4>2. CASE ~(k < x.at)
        <5>1. k = x.at /\ effect BY <1>1, <1>3, <4>2
        <5> QED BY <1>2, <1>9, <5>1
      <4> QED BY <4>1, <4>2
    <3> QED BY <3>1, <3>2
  <2>4. DoneIsGone(t)'
    <3>1. CASE t # s BY <1>7, <1>12, <2>1, <3>1 DEF SaveInv, DoneIsGone
    <3>2. CASE t = s
      <4>1. n.pc = "done" => ToSet(queue') = {} BY DEF ToSet
      <4> QED BY <1>7, <3>2, <4>1 DEF DoneIsGone
    <3> QED BY <3>1, <3>2
  <2>5. ListsOlder(t)' BY <1>12, <1>13, <2>1 DEF SaveInv, ListsOlder
  <2>6. MadeDuring(t)'
    <3>1. save'[t].pc = "running" => save[t].pc = "running" BY <1>7
    <3> QED BY <1>12, <1>13, <2>1, <3>1 DEF SaveInv, MadeDuring
  <2> QED BY <2>2, <2>3, <2>4, <2>5, <2>6 DEF SaveInv
<1>24. LostForCause'
  <2> SUFFICES ASSUME NEW j \in 1 .. made, j \notin ToSet(queue'), j \notin dropped, runs'[j] = 0
               PROVE  \E t \in entry[j].during : save'[t].pc = "done"
    BY DEF LostForCause
  <2>1. j \in Ids BY MadeAre
  <2>2. runs[j] = 0
    <3>1. runs[j] \in Nat BY <1>6, <2>1
    <3> QED BY <1>8, <2>1, <3>1
  <2>3. CASE j \notin ToSet(queue)
    <3>1. PICK t \in entry[j].during : save[t].pc = "done" BY <2>2, <2>3 DEF QueueInv, LostForCause
    <3>2. t \in Saves
      <4>1. entry[j] \in Entry BY <2>1 DEF QueueInv, QueueTypeOK
      <4> QED BY <4>1 DEF Entry
    <3> QED BY <1>7, <3>1, <3>2
  <2>4. CASE j \in ToSet(queue)
    <3>1. n.pc = "done" BY <2>4
    <3>2. j \notin ToSet(x.list)
      <4>1. SaveInv(s)' BY <1>23
      <4>2. PastHaveRun(s)' BY <4>1 DEF SaveInv
      <4>3. \A k \in DOMAIN x.list : runs'[x.list[k]] >= 1 BY <1>1, <1>7, <3>1, <4>2 DEF PastHaveRun
      <4> QED BY <4>3 DEF ToSet
    <3>3. s \in entry[j].during BY <1>1, <2>4, <3>2 DEF QueueInv, SaveInv, MadeDuring
    <3> QED BY <1>7, <3>1, <3>3
  <2> QED BY <2>3, <2>4
<1>25. \A j \in 1 .. made' : EntryFits(j)' BY DEF QueueInv, EntryFits
<1> QED BY <1>10, <1>11, <1>19, <1>20, <1>21, <1>22, <1>23, <1>24, <1>25 DEF QueueInv

LEMMA UnsavedFits == Unsaved \in Save /\ Unsaved.pc = "none" /\ Unsaved.list = <<>>
<1>1. <<>> \in Seq(Ids) /\ 0 \in Nat OBVIOUS
<1> QED BY <1>1 DEF Unsaved, Save

LEMMA InitQueue == QueueInit => QueueInv
<1> SUFFICES ASSUME QueueInit PROVE QueueInv OBVIOUS
<1>1. \A s \in Saves : save[s] = Unsaved BY DEF QueueInit
<1>2. QueueTypeOK
  <2>1. save \in [Saves -> Save] BY UnsavedFits DEF QueueInit
  <2>2. NoEntry \in Entry BY DEF NoEntry, Entry
  <2>3. entry \in [Ids -> Entry] BY <2>2 DEF QueueInit
  <2>4. runs \in [Ids -> Nat] BY DEF QueueInit
  <2>5. table \in [Rows -> Cells \cup {Gone}] BY DEF QueueInit, Cells
  <2>6. made \in 0 .. MaxEntries /\ dropped \subseteq Ids BY QueueBoundAssumption DEF QueueInit
  <2>7. queue \in Seq(Ids) BY DEF QueueInit
  <2>8. preview \in [open : BOOLEAN, waits : Saves \cup {NoSave}] BY DEF QueueInit
  <2> QED BY <2>1, <2>3, <2>4, <2>5, <2>6, <2>7, <2>8 DEF QueueTypeOK
<1>3. made = 0 /\ queue = <<>> /\ ToSet(queue) = {} BY DEF QueueInit, ToSet
<1>4. queue \in Seq(1 .. made) /\ Ordered(queue) BY <1>3 DEF Ordered
<1>5. ASSUME NEW s \in Saves PROVE SaveInv(s)
  <2>1. save[s].pc = "none" /\ save[s].list = <<>> BY <1>1, UnsavedFits
  <2>2. ToSet(save[s].list) = {} BY <2>1 DEF ToSet
  <2>3. SaveFits(s)
    <3>1. <<>> \in Seq(1 .. made) /\ Ordered(<<>>) BY DEF Ordered
    <3> QED BY <2>1, <3>1 DEF SaveFits
  <2>4. PastHaveRun(s) BY <2>1 DEF PastHaveRun
  <2> QED BY <1>3, <2>1, <2>2, <2>3, <2>4 DEF SaveInv, DoneIsGone, ListsOlder, MadeDuring
<1>6. RunsFit /\ RepeatedForCause BY DEF QueueInit, RunsFit, RepeatedForCause
<1>7. Beside BY <1>1, UnsavedFits DEF Beside, Running
<1>8. SharedForCause
  <2>1. \A i \in Ids : Listed(i) = {} BY <1>1, UnsavedFits DEF Listed, ToSet
  <2> QED BY <2>1 DEF SharedForCause
<1>9. LostForCause BY <1>3 DEF LostForCause
<1>10. \A i \in 1 .. made : EntryFits(i) BY <1>3
<1> QED BY <1>2, <1>4, <1>5, <1>6, <1>7, <1>8, <1>9, <1>10 DEF QueueInv

LEMMA QueuedStays ==
  ASSUME QueueInv, NEW type \in {"insert", "update", "delete"}, NEW key \in Keys \cup {Nothing},
         NEW value \in Inputs \cup {Nothing}, type = "update" => value \in Inputs, Queue(type, key, value)
  PROVE  QueueInv'
<1>1. made \in Nat /\ made + 1 \in Ids /\ made' = made + 1 /\ made' \in 0 .. MaxEntries
  <2>1. made \in 0 .. MaxEntries BY DEF QueueInv, QueueTypeOK
  <2> QED BY <2>1, QueueBoundAssumption DEF Queue, Ids
<1>2. PICK e : e = [type |-> type, key |-> key, value |-> value, during |-> Running] OBVIOUS
<1>3. e \in Entry /\ e.type = type /\ e.value = value /\ e.during = Running
  <2>1. Running \subseteq Saves BY DEF Running
  <2>2. e.type = type /\ e.value = value /\ e.during = Running BY <1>2
  <2>3. e \in Entry BY <1>2, <2>1 DEF Entry
  <2> QED BY <2>2, <2>3
<1>4. entry' = [entry EXCEPT ![made + 1] = e] BY <1>2 DEF Queue
<1>5. entry \in [Ids -> Entry] BY DEF QueueInv, QueueTypeOK
<1>6. entry' \in [Ids -> Entry] /\ entry'[made + 1] = e /\ \A i \in 1 .. made : entry'[i] = entry[i]
  <2>1. entry' \in [Ids -> Entry] BY <1>3, <1>4, <1>5
  <2>2. entry'[made + 1] = e BY <1>1, <1>4, <1>5
  <2>3. \A i \in Ids : i # made + 1 => entry'[i] = entry[i] BY <1>4, <1>5
  <2>4. \A i \in 1 .. made : i \in Ids /\ i # made + 1 BY <1>1, MadeAre
  <2> QED BY <2>1, <2>2, <2>3, <2>4
<1>7. queue' = Append(queue, made + 1) /\ queue \in Seq(1 .. made) /\ Ordered(queue) BY DEF Queue, QueueInv
<1>8. /\ queue' \in Seq(1 .. made') /\ Ordered(queue')
      /\ ToSet(queue') = ToSet(queue) \cup {made + 1}
  <2>1. PICK n : n = made OBVIOUS
  <2>2. PICK q : q = queue OBVIOUS
  <2>3. PICK a : a = queue' OBVIOUS
  <2>4. n \in Nat /\ q \in Seq(1 .. n) /\ Ordered(q) /\ a = Append(q, n + 1)
    BY <1>1, <1>7, <2>1, <2>2, <2>3
  <2>5. a \in Seq(1 .. n + 1) /\ Ordered(a) /\ ToSet(a) = ToSet(q) \cup {n + 1}
    BY <2>4, OrderedGrows
  <2>6. Ordered(queue') <=> Ordered(a) BY <2>3 DEF Ordered
  <2>7. ToSet(queue') = ToSet(a) BY <2>3 DEF ToSet
  <2> QED BY <1>1, <2>1, <2>2, <2>3, <2>5, <2>6, <2>7
<1>9. UNCHANGED <<table, runs, dropped, preview, save>> BY DEF Queue
<1>10. QueueTypeOK'
  <2>1. queue \in Seq(Ids) BY DEF QueueInv, QueueTypeOK
  <2>2. queue' \in Seq(Ids) BY <1>1, <1>7, <2>1
  <2> QED BY <1>1, <1>6, <1>9, <2>2 DEF QueueInv, QueueTypeOK
<1>11. \A i \in 1 .. made' : EntryFits(i)'
  <2> SUFFICES ASSUME NEW i \in 1 .. made' PROVE EntryFits(i)' OBVIOUS
  <2>1. i \in 1 .. made \/ i = made + 1 BY <1>1
  <2>2. CASE i \in 1 .. made BY <1>6, <2>2 DEF QueueInv, EntryFits
  <2>3. CASE i = made + 1 BY <1>3, <1>6, <2>3 DEF EntryFits
  <2> QED BY <2>1, <2>2, <2>3
<1>12. \A i \in ToSet(queue') : i \in ToSet(queue) \/ (i > made /\ entry'[i].during = Running)
  <2>1. made + 1 > made BY <1>1
  <2> QED BY <1>3, <1>6, <1>8, <2>1
<1>13. \A i \in 1 .. made' : i \in ToSet(queue') \/ i \in dropped' \/ (i <= made /\ i \notin ToSet(queue))
  <2>1. \A i \in 1 .. made' : i <= made \/ i = made + 1 BY <1>1
  <2> QED BY <1>8, <2>1
<1>14. made' \in Nat /\ made <= made' BY <1>1
<1> QED BY <1>6, <1>8, <1>9, <1>10, <1>11, <1>12, <1>13, <1>14, QueueChanges

LEMMA QueueShrinks ==
  ASSUME QueueInv, UNCHANGED <<table, runs, entry, made, save>>, queue' \in Seq(1 .. made), Ordered(queue'),
         preview' \in [open : BOOLEAN, waits : Saves \cup {NoSave}],
         \A i \in ToSet(queue') : i \in ToSet(queue), dropped \subseteq dropped',
         \A i \in ToSet(queue) : i \in ToSet(queue') \/ i \in dropped', dropped' \subseteq Ids
  PROVE  QueueInv'
<1>1. made \in Nat /\ 1 .. made \subseteq Ids BY MadeAre
<1>2. queue' \in Seq(Ids) BY <1>1
<1>3. QueueTypeOK' BY <1>2 DEF QueueInv, QueueTypeOK
<1>4. \A i \in 1 .. made' : EntryFits(i)' BY DEF QueueInv, EntryFits
<1>5. \A i \in 1 .. made' : i \in ToSet(queue') \/ i \in dropped' \/ (i <= made /\ i \notin ToSet(queue))
  BY <1>1
<1>6. made' \in Nat /\ made <= made' /\ queue' \in Seq(1 .. made') BY <1>1
<1>7. \A i \in 1 .. made : entry'[i] = entry[i] OBVIOUS
<1> QED BY <1>3, <1>4, <1>5, <1>6, <1>7, QueueChanges

LEMMA QueueStep == QueueInv /\ [QueueNext]_queueVars => QueueInv'
<1> SUFFICES ASSUME QueueInv, [QueueNext]_queueVars PROVE QueueInv' OBVIOUS
<1>1. /\ preview \in [open : BOOLEAN, waits : Saves \cup {NoSave}] /\ save \in [Saves -> Save]
      /\ queue \in Seq(1 .. made) /\ Ordered(queue) /\ dropped \subseteq Ids
      /\ made \in Nat /\ 1 .. made \subseteq Ids
  BY MadeAre DEF QueueInv, QueueTypeOK
<1>2. ASSUME NEW r \in Rows, DeleteRow(r) PROVE QueueInv'
  <2>1. KeyOf[r] \in Keys BY QueueKeyAssumption
  <2> QED BY <1>2, <2>1, QueuedStays DEF DeleteRow
<1>3. ASSUME NEW r \in Rows, NEW v \in Inputs, Edit(r, v) PROVE QueueInv'
  <2>1. KeyOf[r] \in Keys BY QueueKeyAssumption
  <2> QED BY <1>3, <2>1, QueuedStays DEF Edit
<1>4. CASE InsertRow BY <1>4, QueuedStays DEF InsertRow
<1>5. ASSUME Clear PROVE QueueInv'
  <2>1. queue' = <<>> /\ dropped' = dropped \cup ToSet(queue) /\ UNCHANGED <<table, runs, entry, made, preview, save>>
    BY <1>5 DEF Clear
  <2>2. ToSet(queue') = {} BY <2>1 DEF ToSet
  <2>3. queue' \in Seq(1 .. made) /\ Ordered(queue') BY <2>1 DEF Ordered
  <2>4. \A i \in ToSet(queue) : i \in 1 .. made BY <1>1, MembersAre
  <2> QED BY <1>1, <2>1, <2>2, <2>3, <2>4, QueueShrinks
<1>6. CASE Discard BY <1>5, <1>6 DEF Discard
<1>7. CASE ClearAll BY <1>5, <1>7 DEF ClearAll
<1>8. ASSUME UNCHANGED <<table, runs, queue, entry, made, dropped, save>>,
             preview' \in [open : BOOLEAN, waits : Saves \cup {NoSave}]
      PROVE  QueueInv'
  <2>1. queue' \in Seq(1 .. made) /\ Ordered(queue') BY <1>1, <1>8 DEF Ordered
  <2>2. ToSet(queue') = ToSet(queue) BY <1>8
  <2>3. dropped \subseteq dropped' /\ dropped' \subseteq Ids BY <1>1, <1>8
  <2> QED BY <1>8, <2>1, <2>2, <2>3, QueueShrinks
<1>9. CASE OpenPreview
  <2>1. preview' \in [open : BOOLEAN, waits : Saves \cup {NoSave}] BY <1>1, <1>9 DEF OpenPreview
  <2> QED BY <1>8, <1>9, <2>1 DEF OpenPreview
<1>10. CASE ClosePreview
  <2>1. preview' \in [open : BOOLEAN, waits : Saves \cup {NoSave}] BY <1>1, <1>10 DEF ClosePreview
  <2> QED BY <1>8, <1>10, <2>1 DEF ClosePreview
<1>11. ASSUME NEW i \in Ids, RemoveEntry(i) PROVE QueueInv'
  <2>1. PICK k \in DOMAIN queue : queue[k] = i /\ queue' = RemoveAt(queue, k) BY <1>11 DEF RemoveEntry
  <2>2. PICK q : q = queue OBVIOUS
  <2>3. PICK a : a = queue' OBVIOUS
  <2>4. PICK S : S = 1 .. made OBVIOUS
  <2>5. S \subseteq Nat /\ q \in Seq(S) /\ Ordered(q) /\ k \in DOMAIN q /\ a = RemoveAt(q, k) /\ q[k] = i
    BY <1>1, <2>1, <2>2, <2>3, <2>4
  <2>6. a \in Seq(S) /\ Ordered(a) /\ ToSet(a) = ToSet(q) \ {q[k]} BY <2>5, OrderedShrinks
  <2>7. Ordered(queue') <=> Ordered(a) BY <2>3 DEF Ordered
  <2>8. ToSet(queue') = ToSet(queue) \ {i}
    <3>1. ToSet(queue') = ToSet(a) /\ ToSet(queue) = ToSet(q) BY <2>2, <2>3 DEF ToSet
    <3> QED BY <2>5, <2>6, <3>1
  <2>9. dropped' = dropped \cup {i} /\ UNCHANGED <<table, runs, entry, made, preview, save>>
    BY <1>11 DEF RemoveEntry
  <2> QED BY <1>1, <2>3, <2>4, <2>6, <2>7, <2>8, <2>9, QueueShrinks
<1>12. ASSUME NEW s \in Saves, PressSave(s) PROVE QueueInv'
  BY <1>1, <1>12, Commits DEF PressSave
<1>13. ASSUME NEW s \in Saves, PressCommit(s) PROVE QueueInv'
  <2>1. preview' \in [open : BOOLEAN, waits : Saves \cup {NoSave}] BY <1>1, <1>13 DEF PressCommit
  <2> QED BY <1>13, <2>1, Commits DEF PressCommit
<1>14. ASSUME NEW s \in Saves PROVE Released(s) \in [open : BOOLEAN, waits : Saves \cup {NoSave}]
  BY <1>1 DEF Released
<1>15. ASSUME NEW s \in Saves, Succeeds(s) PROVE QueueInv'
  <2>1. save[s].pc = "running" /\ Run(s, TRUE) /\ UNCHANGED <<entry, made, dropped>> BY <1>15 DEF Succeeds
  <2>2. PICK x \in Save : x = save[s] BY <1>1
  <2>3. x.at \in Nat /\ x.pc = "running" BY <2>1, <2>2 DEF Save
  <2>4. CASE save[s].at < Len(save[s].list)
    <3>1. save' = [save EXCEPT ![s].at = @ + 1] /\ UNCHANGED <<queue, preview>>
      BY <1>15, <2>4 DEF Succeeds
    <3>2. PICK n : n = [x EXCEPT !.at = @ + 1] OBVIOUS
    <3>3. n.pc = "running" /\ n.list = x.list /\ n.at = x.at + 1 /\ n.beside = x.beside
      BY <2>3, <3>2 DEF Save
    <3>4. n \in Save
      <4>1. x.at + 1 \in Nat BY <2>3
      <4> QED BY <3>2, <4>1 DEF Save
    <3>5. save' = [save EXCEPT ![s] = n] BY <1>1, <2>2, <3>1, <3>2
    <3>6. preview' \in [open : BOOLEAN, waits : Saves \cup {NoSave}] BY <1>1, <3>1
    <3>7. PICK effect \in BOOLEAN : effect = TRUE OBVIOUS
    <3>8. Run(s, effect) BY <2>1, <3>7
    <3> QED BY <2>1, <2>2, <2>4, <3>1, <3>3, <3>4, <3>5, <3>6, <3>7, <3>8, StatementEnds
  <2>5. CASE ~(save[s].at < Len(save[s].list))
    <3>1. save' = [save EXCEPT ![s].pc = "done"] /\ queue' = <<>> /\ preview' = Released(s)
      BY <1>15, <2>5 DEF Succeeds
    <3>2. PICK n : n = [x EXCEPT !.pc = "done"] OBVIOUS
    <3>3. n.pc = "done" /\ n.list = x.list /\ n.at = x.at /\ n.beside = x.beside
      BY <2>3, <3>2 DEF Save
    <3>4. n \in Save BY <3>2 DEF Save
    <3>5. save' = [save EXCEPT ![s] = n] BY <1>1, <2>2, <3>1, <3>2
    <3>6. preview' \in [open : BOOLEAN, waits : Saves \cup {NoSave}] BY <1>14, <3>1
    <3>7. PICK effect \in BOOLEAN : effect = TRUE OBVIOUS
    <3>8. Run(s, effect) BY <2>1, <3>7
    <3> QED BY <2>1, <2>2, <2>5, <3>1, <3>3, <3>4, <3>5, <3>6, <3>7, <3>8, StatementEnds
  <2> QED BY <2>4, <2>5
<1>16. ASSUME NEW s \in Saves, Fails(s) PROVE QueueInv'
  <2>1. /\ save[s].pc = "running" /\ UNCHANGED <<queue, entry, made, dropped>>
        /\ save' = [save EXCEPT ![s].pc = "failed"] /\ preview' = Released(s)
    BY <1>16 DEF Fails
  <2>2. PICK effect \in BOOLEAN : Run(s, effect) BY <1>16 DEF Fails
  <2>3. PICK x \in Save : x = save[s] BY <1>1
  <2>4. PICK n : n = [x EXCEPT !.pc = "failed"] OBVIOUS
  <2>5. n.pc = "failed" /\ n.list = x.list /\ n.at = x.at /\ n.beside = x.beside
    BY <2>3, <2>4 DEF Save
  <2>6. n \in Save BY <2>4 DEF Save
  <2>7. save' = [save EXCEPT ![s] = n] BY <1>1, <2>1, <2>3, <2>4
  <2>8. preview' \in [open : BOOLEAN, waits : Saves \cup {NoSave}] BY <1>14, <2>1
  <2> QED BY <2>1, <2>2, <2>3, <2>5, <2>6, <2>7, <2>8, StatementEnds
<1>17. CASE UNCHANGED queueVars BY <1>1, <1>8, <1>17 DEF queueVars
<1> QED BY <1>2, <1>3, <1>4, <1>6, <1>7, <1>9, <1>10, <1>11, <1>12, <1>13, <1>15, <1>16, <1>17
        DEF QueueNext, Statement

LEMMA CameAt ==
  ASSUME QueueInv, NEW s \in Saves, NEW j, Came(s, j)
  PROVE  \E k \in DOMAIN save[s].list : save[s].list[k] = j /\ k <= save[s].at
<1>1. PICK x : x = save[s] OBVIOUS
<1>2. x.list \in Seq(1 .. made) /\ x.at \in Nat
  BY <1>1 DEF QueueInv, QueueTypeOK, Save, SaveInv, SaveFits
<1>3. PICK k \in DOMAIN x.list : x.list[k] = j /\ (k < x.at \/ k = x.at) BY <1>1 DEF Came
<1>4. k \in Nat BY <1>2
<1>5. k <= x.at BY <1>2, <1>3, <1>4
<1> QED BY <1>1, <1>3, <1>5

LEMMA QueueInvGives == QueueInv => SavedIsApplied /\ RepeatedForCause /\ LostForCause /\ InOrder
<1> SUFFICES ASSUME QueueInv PROVE SavedIsApplied /\ InOrder BY DEF QueueInv
<1>1. SavedIsApplied
  <2> SUFFICES ASSUME NEW s \in Saves, save[s].pc = "done", NEW i \in ToSet(save[s].list) PROVE runs[i] >= 1
    BY DEF SavedIsApplied
  <2> QED BY DEF QueueInv, SaveInv, PastHaveRun, ToSet
<1>2. InOrder
  <2> SUFFICES ASSUME NEW i \in Ids, NEW j \in Ids, i < j, runs[j] > 0, runs[i] = 0, i \in ToSet(queue)
               PROVE  FALSE
    BY DEF InOrder
  <2>1. runs[j] >= 1
    <3>1. runs[j] \in Nat BY DEF QueueInv, QueueTypeOK
    <3> QED BY <3>1
  <2>2. PICK s \in Saves : Came(s, j) BY <2>1 DEF QueueInv, RunsFit
  <2>3. PICK x : x = save[s] OBVIOUS
  <2>4. PICK k \in DOMAIN x.list : x.list[k] = j /\ k <= x.at BY <2>2, <2>3, CameAt
  <2>5. SaveInv(s) BY DEF QueueInv
  <2>6. i \in ToSet(x.list)
    <3>1. j \in ToSet(x.list) BY <2>4 DEF ToSet
    <3> QED BY <2>3, <2>5, <3>1 DEF SaveInv, ListsOlder
  <2>7. PICK h \in DOMAIN x.list : x.list[h] = i BY <2>6 DEF ToSet
  <2>8. Ordered(x.list) /\ x.list \in Seq(1 .. made) BY <2>3, <2>5 DEF SaveInv, SaveFits
  <2>9. DOMAIN x.list \subseteq Nat BY <2>8
  <2>10. i \in Nat /\ j \in Nat BY DEF Ids
  <2>11. h < k
    <3>1. k < h => j < i BY <2>4, <2>7, <2>8 DEF Ordered
    <3>2. h # k BY <2>4, <2>7, <2>10
    <3> QED BY <2>9, <2>10, <3>1, <3>2
  <2>12. x.at \in Nat BY <2>3 DEF QueueInv, QueueTypeOK, Save
  <2>13. h < x.at BY <2>4, <2>9, <2>11, <2>12
  <2>14. runs[i] >= 1 BY <2>3, <2>5, <2>7, <2>13 DEF SaveInv, PastHaveRun
  <2> QED BY <2>14
<1> QED BY <1>1, <1>2
-----------------------------------------------------------------------------
(* RowForms: the forms and the parsers *)

\* The changes to row r among the first k of the queue
UpTo(q, k, r) == {m \in 1 .. k : entry[q[m]].type = "update" /\ entry[q[m]].key = KeyOf[r]}
CutBy(q, k, r) == \E m \in 1 .. k : entry[q[m]].type = "delete" /\ entry[q[m]].key = KeyOf[r]

\* What the first k make of row r, by the last of them
AsLast(q, k, r, v) ==
  IF table[r] = Gone \/ CutBy(q, k, r) THEN v = Gone
  ELSE /\ v # Gone
       /\ UpTo(q, k, r) = {} => v = table[r]
       /\ \A m \in UpTo(q, k, r) :
            (\A l \in UpTo(q, k, r) : l <= m) => v = Stored(entry[q[m]].value)

After(f, q, k) == IF k = 0 THEN table ELSE Effect(f[k - 1], entry[q[k]])

\* The tables after each change are well defined
LEMMA TablesAre ==
  ASSUME NEW q, NEW n \in Nat
  PROVE  \E f : f = [k \in 0 .. n |-> After(f, q, k)]
<1> DEFINE S == {m \in Nat : \E f : f = [k \in 0 .. n |-> f[k]]
                                    /\ \A k \in 0 .. n : k < m => f[k] = After(f, q, k)}
<1>1. 0 \in S
  <2> DEFINE f == [k \in 0 .. n |-> table]
  <2>1. f = [k \in 0 .. n |-> f[k]] OBVIOUS
  <2>2. \A k \in 0 .. n : ~(k < 0) OBVIOUS
  <2> QED BY <2>1, <2>2
<1>2. ASSUME NEW m \in Nat, m \in S PROVE m + 1 \in S
  <2>1. PICK f : /\ f = [k \in 0 .. n |-> f[k]]
                 /\ \A k \in 0 .. n : k < m => f[k] = After(f, q, k)
    BY <1>2
  <2> DEFINE g == [k \in 0 .. n |-> After(f, q, k)]
  <2>2. \A k \in 0 .. n : k < m => g[k] = f[k] BY <2>1
  <2>3. \A k \in 0 .. n : g[k] = After(f, q, k) OBVIOUS
  <2>4. g = [k \in 0 .. n |-> g[k]] OBVIOUS
  <2> HIDE DEF g
  <2>5. ASSUME NEW k \in 0 .. n, k < m + 1 PROVE g[k] = After(g, q, k)
    <3>1. CASE k = 0 BY <2>3, <3>1 DEF After
    <3>2. CASE k # 0
      <4>1. k - 1 \in 0 .. n /\ k - 1 < m BY <2>5, <3>2
      <4>2. g[k - 1] = f[k - 1] BY <2>2, <4>1
      <4> QED BY <2>3, <3>2, <4>2 DEF After
    <3> QED BY <3>1, <3>2
  <2> QED BY <2>4, <2>5
<1> HIDE DEF S
<1>3. n + 1 \in S BY <1>1, <1>2, SetInduction
<1>4. PICK f : /\ f = [k \in 0 .. n |-> f[k]]
               /\ \A k \in 0 .. n : k < n + 1 => f[k] = After(f, q, k)
  BY <1>3 DEF S
<1>5. \A k \in 0 .. n : f[k] = After(f, q, k) BY <1>4
<1>6. f = [k \in 0 .. n |-> After(f, q, k)] BY <1>4, <1>5, Zenon
<1> QED BY <1>6

LEMMA OutcomeIs ==
  ASSUME NEW q, Len(q) \in Nat
  PROVE  \E f : f = [k \in 0 .. Len(q) |-> After(f, q, k)] /\ Outcome(q) = f[Len(q)]
<1> DEFINE f == CHOOSE f : f = [k \in 0 .. Len(q) |-> After(f, q, k)]
<1>1. Outcome(q) = f[Len(q)] BY DEF Outcome, After
<1>2. \E h : h = [k \in 0 .. Len(q) |-> After(h, q, k)] BY TablesAre
<1>3. f = [k \in 0 .. Len(q) |-> After(f, q, k)] BY <1>2
<1> QED BY <1>1, <1>3

LEMMA StoredIs ==
  ASSUME NEW v \in Inputs, v # Default
  PROVE  Stored(v) # Gone
<1>1. Mangled # Gone BY Zenon DEF Mangled, Gone
<1> HIDE DEF Mangled
<1>2. CASE v = Object BY <1>1, <1>2 DEF Stored
<1>3. CASE v # Object BY <1>3, QueueValuesAssumption DEF Stored, Inputs
<1> QED BY <1>2, <1>3

LEMMA MaxLast ==
  ASSUME NEW S \in SUBSET Nat, NEW m \in S, \A l \in S : l <= m
  PROVE  Max(S) = m
<1>1. PICK x \in S : x = Max(S) /\ \A l \in S : x >= l BY DEF Max
<1>2. x >= m /\ x <= m /\ x \in Nat /\ m \in Nat BY <1>1
<1> QED BY <1>1, <1>2

LEMMA LastThere ==
  ASSUME NEW n \in Nat, NEW S \in SUBSET (1 .. n), S # {}
  PROVE  \E m \in S : \A l \in S : l <= m
<1> DEFINE T == {n - l : l \in S}
<1>0. \A l \in S : n - l \in Nat OBVIOUS
<1>1. T \subseteq Nat /\ T # {} BY <1>0
<1>2. PICK x \in T : \A y \in T : <<y, x>> \notin OpToRel(<, Nat)
  BY <1>1, NatLessThanWellFounded, WFMin
<1>3. PICK m \in S : x = n - m BY <1>2
<1>4. ASSUME NEW l \in S, m < l PROVE FALSE
  <2>1. n - l \in T /\ n - l < x /\ x \in Nat /\ n - l \in Nat BY <1>3, <1>4
  <2>2. <<n - l, x>> \in Nat \X Nat BY <2>1
  <2>3. <<n - l, x>>[1] < <<n - l, x>>[2] BY <2>1
  <2>4. <<n - l, x>> \in OpToRel(<, Nat) BY <2>2, <2>3, Zenon DEF OpToRel
  <2> QED BY <1>2, <2>1, <2>4
<1> QED BY <1>4

\* One more change, to a table with one row's cell c
LEMMA OneMore ==
  ASSUME NEW q, NEW k \in Nat, k # 0, NEW r \in Rows, NEW t, NEW u,
         u = Effect(t, entry[q[k]]), EntryFits(q[k]), Runnable(entry[q[k]]),
         AsLast(q, k - 1, r, t[r])
  PROVE  AsLast(q, k, r, u[r])
<1>1. PICK e : e = entry[q[k]] OBVIOUS
<1>2. u[r] = IF t[r] = Gone \/ e.type = "insert" \/ KeyOf[r] # e.key THEN t[r]
             ELSE IF e.type = "delete" THEN Gone
             ELSE Stored(e.value)
  BY <1>1 DEF Effect
<1>3. e.type \in {"insert", "update", "delete"} /\ (e.type = "update" => Stored(e.value) # Gone)
  BY <1>1, StoredIs DEF EntryFits, Runnable
<1>4. 1 .. k = 1 .. k - 1 \cup {k} /\ k \notin 1 .. k - 1 OBVIOUS
<1>5. UpTo(q, k, r) = UpTo(q, k - 1, r) \cup
                        (IF e.type = "update" /\ e.key = KeyOf[r] THEN {k} ELSE {})
  BY <1>1, <1>4 DEF UpTo
<1>6. CutBy(q, k, r) <=> CutBy(q, k - 1, r) \/ (e.type = "delete" /\ e.key = KeyOf[r])
  BY <1>1, <1>4 DEF CutBy
<1>7. \A l \in UpTo(q, k - 1, r) : l <= k /\ l # k BY DEF UpTo
<1>8. CASE table[r] = Gone \/ CutBy(q, k - 1, r)
  <2>1. t[r] = Gone BY <1>8 DEF AsLast
  <2> QED BY <1>2, <1>6, <1>8, <2>1 DEF AsLast
<1>9. CASE ~(table[r] = Gone \/ CutBy(q, k - 1, r))
  <2>1. /\ t[r] # Gone
        /\ UpTo(q, k - 1, r) = {} => t[r] = table[r]
        /\ \A m \in UpTo(q, k - 1, r) :
             (\A l \in UpTo(q, k - 1, r) : l <= m) => t[r] = Stored(entry[q[m]].value)
    BY <1>9 DEF AsLast
  <2>2. CASE e.type = "insert" \/ KeyOf[r] # e.key
    <3>1. u[r] = t[r] BY <1>2, <2>2
    <3>2. UpTo(q, k, r) = UpTo(q, k - 1, r) BY <1>3, <1>5, <2>2
    <3>3. ~CutBy(q, k, r) BY <1>6, <1>9, <2>2
    <3> QED BY <1>9, <2>1, <3>1, <3>2, <3>3 DEF AsLast
  <2>3. CASE e.type = "delete" /\ KeyOf[r] = e.key
    BY <1>2, <1>6, <2>3 DEF AsLast
  <2>4. CASE e.type = "update" /\ KeyOf[r] = e.key
    <3>1. u[r] = Stored(e.value) /\ u[r] # Gone BY <1>2, <1>3, <2>1, <2>4
    <3>2. UpTo(q, k, r) = UpTo(q, k - 1, r) \cup {k} BY <1>5, <2>4
    <3>3. ~CutBy(q, k, r) BY <1>6, <1>9, <2>4
    <3>4. ASSUME NEW m \in UpTo(q, k, r), \A l \in UpTo(q, k, r) : l <= m
          PROVE  u[r] = Stored(entry[q[m]].value)
      <4>1. k <= m /\ m \in Nat BY <3>2, <3>4 DEF UpTo
      <4>2. m = k BY <1>7, <3>2, <4>1
      <4> QED BY <1>1, <3>1, <4>2
    <3> QED BY <1>9, <3>1, <3>2, <3>3, <3>4 DEF AsLast
  <2> QED BY <1>3, <2>2, <2>3, <2>4
<1> QED BY <1>8, <1>9

LEMMA OutcomeLast ==
  ASSUME NEW q, Len(q) \in Nat, NEW r \in Rows, table[r] # Object,
         \A k \in 1 .. Len(q) : EntryFits(q[k]) /\ Runnable(entry[q[k]])
  PROVE  AsLast(q, Len(q), r, Outcome(q)[r])
<1>1. PICK f : f = [k \in 0 .. Len(q) |-> After(f, q, k)] /\ Outcome(q) = f[Len(q)]
  BY OutcomeIs
<1>2. \A k \in 0 .. Len(q) : f[k] = After(f, q, k) BY <1>1, Zenon
<1> DEFINE S == {k \in Nat : k <= Len(q) => AsLast(q, k, r, f[k][r])}
<1>3. 0 \in S
  <2>1. f[0] = table BY <1>2 DEF After
  <2>2. UpTo(q, 0, r) = {} /\ ~CutBy(q, 0, r) BY DEF UpTo, CutBy
  <2> QED BY <2>1, <2>2 DEF AsLast
<1>4. ASSUME NEW k \in Nat, k \in S PROVE k + 1 \in S
  <2>1. ASSUME k + 1 <= Len(q) PROVE AsLast(q, k + 1, r, f[k + 1][r])
    <3>1. k + 1 \in 0 .. Len(q) /\ k + 1 \in 1 .. Len(q) /\ k + 1 # 0 /\ (k + 1) - 1 = k BY <2>1
    <3>2. f[k + 1] = Effect(f[k], entry[q[k + 1]]) BY <1>2, <3>1 DEF After
    <3>3. AsLast(q, k, r, f[k][r]) BY <1>4, <2>1
    <3>4. EntryFits(q[k + 1]) /\ Runnable(entry[q[k + 1]]) BY <3>1
    <3>5. PICK n \in Nat : n = k + 1 BY <1>4
    <3>6. AsLast(q, n - 1, r, f[k][r]) /\ n # 0 BY <3>1, <3>3, <3>5
    <3>7. AsLast(q, n, r, f[k + 1][r]) BY <3>2, <3>4, <3>5, <3>6, OneMore
    <3> QED BY <3>5, <3>7
  <2> QED BY <2>1
<1> HIDE DEF S
<1>5. Len(q) \in S BY <1>3, <1>4, SetInduction
<1>6. AsLast(q, Len(q), r, f[Len(q)][r]) BY <1>5 DEF S
<1> QED BY <1>1, <1>6

LEMMA ShownIsLast ==
  ASSUME NEW q \in Seq(Ids), Ordered(q), NEW r \in Rows, NEW v, AsLast(q, Len(q), r, v),
         table[r] # Object
  PROVE  v = Stored(Shown(q, r))
<1> DEFINE key == KeyOf[r]
           updates == PendingUpdates(q, key)
           ups == UpTo(q, Len(q), r)
<1>0. Len(q) \in Nat /\ DOMAIN q = 1 .. Len(q) /\ \A k \in 1 .. Len(q) : q[k] \in Ids OBVIOUS
<1>1. ToSet(q) = {q[k] : k \in 1 .. Len(q)} BY <1>0 DEF ToSet
<1>2. PendingDelete(q, key) <=> CutBy(q, Len(q), r) BY <1>1 DEF PendingDelete, CutBy
<1>3. updates = {q[m] : m \in ups} BY <1>1 DEF PendingUpdates, UpTo
<1>4. Shown(q, r) = IF table[r] = Gone \/ PendingDelete(q, key) THEN Gone
                    ELSE IF updates = {} THEN table[r]
                    ELSE entry[Max(updates)].value
  BY DEF Shown
<1>5. Stored(Gone) = Gone BY DEF Stored, Gone, Object
<1>6. CASE table[r] = Gone \/ CutBy(q, Len(q), r)
  <2>1. Shown(q, r) = Gone BY <1>2, <1>4, <1>6
  <2>2. v = Gone BY <1>6 DEF AsLast
  <2> QED BY <1>5, <2>1, <2>2
<1>7. CASE ~(table[r] = Gone \/ CutBy(q, Len(q), r))
  <2>1. /\ ups = {} => v = table[r]
        /\ \A m \in ups : (\A l \in ups : l <= m) => v = Stored(entry[q[m]].value)
    BY <1>7 DEF AsLast
  <2>2. CASE ups = {}
    <3>1. updates = {} BY <1>3, <2>2
    <3>2. Shown(q, r) = table[r] BY <1>2, <1>4, <1>7, <3>1
    <3>3. Stored(table[r]) = table[r] BY DEF Stored
    <3> QED BY <2>1, <2>2, <3>2, <3>3
  <2>3. CASE ups # {}
    <3>1. ups \in SUBSET (1 .. Len(q)) BY DEF UpTo
    <3>2. PICK m \in ups : \A l \in ups : l <= m BY <1>0, <2>3, <3>1, LastThere
    <3>3. v = Stored(entry[q[m]].value) BY <2>1, <3>2
    <3>4. \A l \in ups : q[l] <= q[m]
      <4>1. ASSUME NEW l \in ups PROVE q[l] <= q[m]
        <5>1. l \in 1 .. Len(q) /\ m \in 1 .. Len(q) /\ l <= m BY <3>1, <3>2
        <5>2. q[l] \in Nat /\ q[m] \in Nat BY <1>0, <5>1 DEF Ids
        <5>3. l = m \/ l < m BY <5>1
        <5>4. l < m => q[l] < q[m] BY <1>0, <5>1 DEF Ordered
        <5> QED BY <5>2, <5>3, <5>4
      <4> QED BY <4>1
    <3>5. updates \in SUBSET Nat /\ q[m] \in updates /\ \A i \in updates : i <= q[m]
      BY <1>0, <1>3, <3>1, <3>2, <3>4 DEF Ids
    <3> HIDE DEF updates
    <3>6. Max(updates) = q[m] BY <3>5, MaxLast
    <3>7. Shown(q, r) = entry[q[m]].value BY <1>2, <1>4, <1>7, <3>5, <3>6
    <3> QED BY <3>3, <3>7
  <2> QED BY <2>2, <2>3
<1> QED BY <1>6, <1>7

LEMMA CellsStored ==
  ASSUME table \in [Rows -> Cells \cup {Gone}], NEW r \in Rows
  PROVE  table[r] # Object
<1>1. Mangled # Object /\ Gone # Object BY Zenon DEF Mangled, Gone, Object
<1>2. Object \notin Values \cup {Initial} BY QueueValuesAssumption
<1> HIDE DEF Mangled, Gone, Object
<1>3. Cells \cup {Gone} = Values \cup {Initial} \cup {Mangled} \cup {Gone} BY DEF Cells
<1> QED BY <1>1, <1>2, <1>3

LEMMA QueueShows ==
  ASSUME table \in [Rows -> Cells \cup {Gone}], queue \in Seq(Ids), Ordered(queue),
         \A i \in ToSet(queue) : EntryFits(i)
  PROVE  ShownIsSaved
<1> SUFFICES ASSUME \A i \in ToSet(queue) : Runnable(entry[i]), NEW r \in Rows
             PROVE  Outcome(queue)[r] = Stored(Shown(queue, r))
  BY DEF ShownIsSaved
<1>1. Len(queue) \in Nat /\ \A k \in 1 .. Len(queue) : queue[k] \in ToSet(queue) BY DEF ToSet
<1>2. table[r] # Object BY CellsStored
<1>3. AsLast(queue, Len(queue), r, Outcome(queue)[r]) BY <1>1, <1>2, OutcomeLast
<1> QED BY <1>2, <1>3, ShownIsLast

\* An editor in a cell that nobody typed into shows what the cell held
FormInv ==
  /\ FormTypeOK /\ OneFlag
  /\ form = "cell" /\ ~touched => field.text = CellText(held)

LookedAt ==
  LeaveCell /\ ~touched =>
    \/ cell' = Word("kept")
    \/ held.is = "object"
    \/ held = AString("") /\ column.nullable
    \/ held = AString("12") /\ column.category = "json"

TypedIsStored ==
  (SubmitAdd \/ SaveDialog) /\ ~field.isNull /\ ~field.useDefault =>
    \/ cell' \notin Words /\ cell'.of = field.text
    \/ form = "add" /\ field.text = "" /\ cell' \in {Word("default"), Word("refused")}
    \/ Rewritten

CellValue == [is : {"string", "number", "boolean", "null"}, of : Texts \cup {"1", "epoch"}]

LEMMA ValuesAre ==
  /\ \A text : AString(text).is = "string" /\ AString(text).of = text
  /\ \A text : ANumber(text).is = "number" /\ ANumber(text).of = text
  /\ \A text : ABoolean(text).is = "boolean" /\ ABoolean(text).of = text
  /\ \A text : AnObject(text).is = "object" /\ AnObject(text).of = text
  /\ NullValue.is = "null" /\ NullValue.of = ""
BY DEF AString, ANumber, ABoolean, AnObject, NullValue

LEMMA WordsAre ==
  /\ \A w \in Words : w.is \in {"kept", "default", "refused", "none"}
  /\ Word("kept") \in Words /\ Word("default") \in Words /\ Word("refused") \in Words /\ Word("none") \in Words
  /\ \A v : v.is \in {"string", "number", "boolean", "null"} => v \notin Words
<1>1. \A w \in Words : w.is \in {"kept", "default", "refused", "none"}
  <2> SUFFICES ASSUME NEW w \in Words PROVE w.is \in {"kept", "default", "refused", "none"} OBVIOUS
  <2>1. PICK how \in {"kept", "default", "refused", "none"} : w = Word(how) BY DEF Words
  <2>2. w.is = how BY <2>1 DEF Word
  <2> QED BY <2>2
<1>2. /\ Word("kept") \in Words /\ Word("default") \in Words /\ Word("refused") \in Words
      /\ Word("none") \in Words
  BY DEF Words
<1> QED BY <1>1, <1>2

\* The parser, a category at a time
LEMMA ParsedInteger ==
  ASSUME NEW text \in Texts
  PROVE  ByCategory(text, "integer") =
           IF text \in {"12", "12ab"} THEN ANumber("12") ELSE IF text = "1.5" THEN ANumber("1") ELSE AString(text)
<1>1. text \in {"12", "12ab"} => LeadingInteger(text) = "12" BY DEF LeadingInteger
<1>2. text = "1.5" => LeadingInteger(text) = "1" BY DEF LeadingInteger
<1>3. text \notin {"12", "12ab", "1.5"} => LeadingInteger(text) = NaN BY DEF LeadingInteger
<1>4. ByCategory(text, "integer") = NumberOr(LeadingInteger(text), text) BY DEF ByCategory
<1> QED BY <1>1, <1>2, <1>3, <1>4 DEF NumberOr, NaN

LEMMA ParsedFloat ==
  ASSUME NEW text \in Texts
  PROVE  ByCategory(text, "float") =
           IF text \in {"12", "12ab"} THEN ANumber("12") ELSE IF text = "1.5" THEN ANumber("1.5") ELSE AString(text)
<1>1. text \in {"12", "12ab"} => LeadingFloat(text) = "12" BY DEF LeadingFloat
<1>2. text = "1.5" => LeadingFloat(text) = "1.5" BY DEF LeadingFloat
<1>3. text \notin {"12", "12ab", "1.5"} => LeadingFloat(text) = NaN BY DEF LeadingFloat
<1>4. ByCategory(text, "float") = NumberOr(LeadingFloat(text), text) BY DEF ByCategory
<1> QED BY <1>1, <1>2, <1>3, <1>4 DEF NumberOr, NaN

LEMMA ParsedJson ==
  ASSUME NEW text \in Texts
  PROVE  ByCategory(text, "json") =
           IF text \in {"12", "1.5"} THEN ANumber(text)
           ELSE IF text \in {"true", "false"} THEN ABoolean(text)
           ELSE IF text = "{}" THEN AnObject(text) ELSE AString(text)
<1>1. ByCategory(text, "json") = Json(text) BY DEF ByCategory
<1>2. text \in {"12", "1.5"} => Json(text) = ANumber(text) BY DEF Json
<1>3. text \in {"true", "false"} => Json(text) = ABoolean(text) BY DEF Json
<1>4. text = "{}" => Json(text) = AnObject(text) BY DEF Json
<1>5. text \notin {"12", "1.5", "true", "false", "{}"} => Json(text) = AString(text) BY DEF Json
<1> QED BY <1>1, <1>2, <1>3, <1>4, <1>5

LEMMA ParsedBoolean ==
  ASSUME NEW text \in Texts
  PROVE  ByCategory(text, "boolean") = IF text \in {"true", "false"} THEN ABoolean(text) ELSE AString(text)
BY DEF ByCategory

LEMMA ParsedText ==
  ASSUME NEW text \in Texts, NEW k \in {"text", "timestamp", "date"}
  PROVE  ByCategory(text, k) = AString(text)
BY DEF ByCategory

LEMMA ParsedForms ==
  ASSUME NEW text \in Texts, NEW k \in Categories
  PROVE  \/ ByCategory(text, k) \in {AString(text), ANumber(text), ABoolean(text)}
         \/ k = "json" /\ text = "{}" /\ ByCategory(text, k) = AnObject(text)
         \/ /\ k = "integer" /\ text \in {"12ab", "1.5"}
            /\ ByCategory(text, k) \in {ANumber("12"), ANumber("1")}
         \/ k = "float" /\ text = "12ab" /\ ByCategory(text, k) = ANumber("12")
<1>1. CASE k = "integer" BY <1>1, ParsedInteger
<1>2. CASE k = "float" BY <1>2, ParsedFloat
<1>3. CASE k = "json" BY <1>3, ParsedJson
<1>4. CASE k = "boolean" BY <1>4, ParsedBoolean
<1>5. CASE k \in {"text", "timestamp", "date"} BY <1>5, ParsedText
<1> QED BY <1>1, <1>2, <1>3, <1>4, <1>5 DEF Categories

\* What the database holds of a parsed text: the text, but for the named rewritings
LEMMA ParsedIs ==
  ASSUME NEW text \in Texts, NEW k \in Categories
  PROVE  /\ InDatabase(ByCategory(text, k)) \in CellValue
         /\ \/ InDatabase(ByCategory(text, k)).of = text
            \/ k = "integer" /\ text \in {"12ab", "1.5"}
            \/ k = "float" /\ text = "12ab"
            \/ k = "json" /\ text = "{}"
<1>1. \A x : x \in Texts \cup {"1", "epoch"} =>
        AString(x) \in CellValue /\ ANumber(x) \in CellValue /\ ABoolean(x) \in CellValue
  BY DEF CellValue, AString, ANumber, ABoolean
<1>2. {"12", "1", "1.5", Mangle} \subseteq Texts \cup {"1", "epoch"} BY DEF Texts
<1>3. \A x : /\ InDatabase(AString(x)) = AString(x) /\ InDatabase(ANumber(x)) = ANumber(x) /\ InDatabase(ABoolean(x)) = ABoolean(x)
             /\ InDatabase(AnObject(x)) = AString(Mangle)
  BY ValuesAre DEF InDatabase
<1>4. PICK p : p = ByCategory(text, k) OBVIOUS
<1>5. PICK v : v = InDatabase(p) OBVIOUS
<1> SUFFICES /\ v \in CellValue
             /\ \/ v.of = text
                \/ k = "integer" /\ text \in {"12ab", "1.5"}
                \/ k = "float" /\ text = "12ab"
                \/ k = "json" /\ text = "{}"
  BY <1>4, <1>5
<1>6. \/ p \in {AString(text), ANumber(text), ABoolean(text)}
      \/ k = "json" /\ text = "{}" /\ p = AnObject(text)
      \/ k = "integer" /\ text \in {"12ab", "1.5"} /\ p \in {ANumber("12"), ANumber("1")}
      \/ k = "float" /\ text = "12ab" /\ p = ANumber("12")
  BY <1>4, ParsedForms
<1>7. CASE p \in {AString(text), ANumber(text), ABoolean(text)}
  <2>1. v = p BY <1>3, <1>5, <1>7
  <2>2. v \in CellValue BY <1>1, <1>7, <2>1
  <2>3. v.of = text BY <1>7, <2>1, ValuesAre
  <2> QED BY <2>2, <2>3
<1>8. CASE k = "json" /\ text = "{}" /\ p = AnObject(text)
  <2>1. v = AString(Mangle) BY <1>3, <1>5, <1>8
  <2> QED BY <1>1, <1>2, <1>8, <2>1
<1>9. CASE k = "integer" /\ text \in {"12ab", "1.5"} /\ p \in {ANumber("12"), ANumber("1")}
  <2>1. v = p BY <1>3, <1>5, <1>9
  <2> QED BY <1>1, <1>2, <1>9, <2>1
<1>10. CASE k = "float" /\ text = "12ab" /\ p = ANumber("12")
  <2>1. v = p BY <1>3, <1>5, <1>10
  <2> QED BY <1>1, <1>2, <1>10, <2>1
<1> QED BY <1>6, <1>7, <1>8, <1>9, <1>10

\* What a cell of the column may hold
LEMMA HeldAre ==
  ASSUME NEW c \in FormColumns, NEW h \in Held(c)
  PROVE  /\ h.of \in Texts /\ CellText(h) \in Texts
         /\ \/ h = NullValue /\ c.nullable
            \/ c.category = "text" /\ h \in {AString("word"), AString("")}
            \/ c.category \in {"timestamp", "date"} /\ h = AString("word")
            \/ c.category = "integer" /\ h = ANumber("12")
            \/ c.category = "float" /\ h \in {ANumber("12"), ANumber("1.5")}
            \/ c.category = "boolean" /\ h \in {ABoolean("true"), ABoolean("false")}
            \/ c.category = "json" /\ h \in {AnObject("{}"), ANumber("12"), AString("word"), AString("12")}
<1>1. c.category \in Categories BY DEF FormColumns
<1> DEFINE Own ==
      CASE c.category = "text" -> {AString("word"), AString("")}
        [] c.category \in {"timestamp", "date"} -> {AString("word")}
        [] c.category = "integer" -> {ANumber("12")}
        [] c.category = "float" -> {ANumber("12"), ANumber("1.5")}
        [] c.category = "boolean" -> {ABoolean("true"), ABoolean("false")}
        [] c.category = "json" -> {AnObject("{}"), ANumber("12"), AString("word"), AString("12")}
<1>2. c.category = "text" => Own = {AString("word"), AString("")} OBVIOUS
<1>3. c.category \in {"timestamp", "date"} => Own = {AString("word")} OBVIOUS
<1>4. c.category = "integer" => Own = {ANumber("12")} OBVIOUS
<1>5. c.category = "float" => Own = {ANumber("12"), ANumber("1.5")} OBVIOUS
<1>6. c.category = "boolean" => Own = {ABoolean("true"), ABoolean("false")} OBVIOUS
<1>7. c.category = "json" => Own = {AnObject("{}"), ANumber("12"), AString("word"), AString("12")} OBVIOUS
<1>8. h \in Own \/ (h = NullValue /\ c.nullable) BY DEF Held
<1> HIDE DEF Own
<1>9. \/ h = NullValue /\ c.nullable
      \/ c.category = "text" /\ h \in {AString("word"), AString("")}
      \/ c.category \in {"timestamp", "date"} /\ h = AString("word")
      \/ c.category = "integer" /\ h = ANumber("12")
      \/ c.category = "float" /\ h \in {ANumber("12"), ANumber("1.5")}
      \/ c.category = "boolean" /\ h \in {ABoolean("true"), ABoolean("false")}
      \/ c.category = "json" /\ h \in {AnObject("{}"), ANumber("12"), AString("word"), AString("12")}
  BY <1>1, <1>2, <1>3, <1>4, <1>5, <1>6, <1>7, <1>8 DEF Categories
<1>10. h.of \in Texts
  <2> DEFINE Fits(x) == x.of \in Texts
  <2>1. Fits(NullValue)
    <3>1. NullValue.of = "" BY ValuesAre
    <3>2. "" \in Texts BY DEF Texts
    <3> QED BY <3>1, <3>2
  <2>2. \A x \in Texts : Fits(AString(x)) BY ValuesAre
  <2>3. \A x \in Texts : Fits(ANumber(x)) BY ValuesAre
  <2>4. \A x \in Texts : Fits(ABoolean(x)) BY ValuesAre
  <2>5. \A x \in Texts : Fits(AnObject(x)) BY ValuesAre
  <2>6. "" \in Texts /\ "word" \in Texts /\ "12" \in Texts /\ "1.5" \in Texts BY DEF Texts
  <2>7. "true" \in Texts /\ "false" \in Texts /\ "{}" \in Texts BY DEF Texts
  <2> HIDE DEF Fits
  <2>8. Fits(AString("word")) /\ Fits(AString("")) /\ Fits(AString("12")) BY <2>2, <2>6
  <2>9. Fits(ANumber("12")) /\ Fits(ANumber("1.5")) BY <2>3, <2>6
  <2>10. Fits(ABoolean("true")) /\ Fits(ABoolean("false")) BY <2>4, <2>7
  <2>11. Fits(AnObject("{}")) BY <2>5, <2>7
  <2>12. Fits(h)
    <3>1. CASE h = NullValue BY <2>1, <3>1
    <3>2. CASE h = AString("word") \/ h = AString("") \/ h = AString("12") BY <2>8, <3>2
    <3>3. CASE h = ANumber("12") \/ h = ANumber("1.5") BY <2>9, <3>3
    <3>4. CASE h = ABoolean("true") \/ h = ABoolean("false") BY <2>10, <3>4
    <3>5. CASE h = AnObject("{}") BY <2>11, <3>5
    <3> QED BY <1>9, <3>1, <3>2, <3>3, <3>4, <3>5
  <2> QED BY <2>12 DEF Fits
<1>11. h.of \in Texts /\ Mangle \in Texts BY <1>10 DEF Texts
<1>12. CellText(h) \in Texts BY <1>11 DEF CellText
<1> QED BY <1>9, <1>11, <1>12

\* A cell that was only looked at is read as it was, but in the named cases
LEMMA ReadAsHeld ==
  ASSUME NEW c \in FormColumns, NEW h \in Held(c)
  PROVE  \/ ParseEdit(CellText(h), c) = h
         \/ h.is = "object"
         \/ h = AString("") /\ c.nullable
         \/ h = AString("12") /\ c.category = "json"
<1>1. /\ \A x : CellText(AString(x)) = x /\ CellText(ANumber(x)) = x /\ CellText(ABoolean(x)) = x
      /\ CellText(NullValue) = ""
  BY ValuesAre DEF CellText
<1>2. {"word", "", "12", "1.5", "true", "false", "{}"} \subseteq Texts BY DEF Texts
<1>3. CASE h = NullValue /\ c.nullable BY <1>1, <1>3 DEF ParseEdit
<1>4. CASE c.category = "text" /\ h \in {AString("word"), AString("")}
  <2>1. ByCategory("word", c.category) = AString("word") /\ ByCategory("", c.category) = AString("")
    BY <1>2, <1>4, ParsedText
  <2>2. CASE h = AString("") /\ c.nullable BY <2>2
  <2>3. CASE h = AString("") /\ ~c.nullable
    <3>1. CellText(h) = "" BY <1>1, <2>3
    <3> QED BY <2>1, <2>3, <3>1 DEF ParseEdit
  <2>4. CASE h = AString("word")
    <3>1. CellText(h) = "word" BY <1>1, <2>4
    <3> QED BY <2>1, <2>4, <3>1 DEF ParseEdit
  <2> QED BY <1>4, <2>2, <2>3, <2>4
<1>5. CASE c.category \in {"timestamp", "date"} /\ h = AString("word")
  <2>1. ByCategory("word", c.category) = AString("word") BY <1>2, <1>5, ParsedText
  <2> QED BY <1>1, <1>5, <2>1 DEF ParseEdit
<1>6. CASE c.category = "integer" /\ h = ANumber("12")
  <2>1. ByCategory("12", c.category) = ANumber("12") BY <1>2, <1>6, ParsedInteger
  <2> QED BY <1>1, <1>6, <2>1 DEF ParseEdit
<1>7. CASE c.category = "float" /\ h \in {ANumber("12"), ANumber("1.5")}
  <2>1. ByCategory("12", c.category) = ANumber("12") /\ ByCategory("1.5", c.category) = ANumber("1.5")
    BY <1>2, <1>7, ParsedFloat
  <2>2. CASE h = ANumber("12")
    <3>1. CellText(h) = "12" BY <1>1, <2>2
    <3> QED BY <2>1, <2>2, <3>1 DEF ParseEdit
  <2>3. CASE h = ANumber("1.5")
    <3>1. CellText(h) = "1.5" BY <1>1, <2>3
    <3> QED BY <2>1, <2>3, <3>1 DEF ParseEdit
  <2> QED BY <1>7, <2>2, <2>3
<1>8. CASE c.category = "boolean" /\ h \in {ABoolean("true"), ABoolean("false")}
  <2>1. ByCategory("true", c.category) = ABoolean("true") /\ ByCategory("false", c.category) = ABoolean("false")
    BY <1>2, <1>8, ParsedBoolean
  <2>2. CASE h = ABoolean("true")
    <3>1. CellText(h) = "true" BY <1>1, <2>2
    <3> QED BY <2>1, <2>2, <3>1 DEF ParseEdit
  <2>3. CASE h = ABoolean("false")
    <3>1. CellText(h) = "false" BY <1>1, <2>3
    <3> QED BY <2>1, <2>3, <3>1 DEF ParseEdit
  <2> QED BY <1>8, <2>2, <2>3
<1>9. CASE c.category = "json" /\ h \in {AnObject("{}"), ANumber("12"), AString("word"), AString("12")}
  <2>1. ByCategory("12", c.category) = ANumber("12") /\ ByCategory("word", c.category) = AString("word")
    BY <1>2, <1>9, ParsedJson
  <2>2. CASE h = AnObject("{}")
    <3>1. AnObject("{}").is = "object" BY ValuesAre
    <3> QED BY <2>2, <3>1
  <2>3. CASE h = ANumber("12")
    <3>1. CellText(h) = "12" BY <1>1, <2>3
    <3> QED BY <2>1, <2>3, <3>1 DEF ParseEdit
  <2>4. CASE h = AString("word")
    <3>1. CellText(h) = "word" BY <1>1, <2>4
    <3> QED BY <2>1, <2>4, <3>1 DEF ParseEdit
  <2>5. CASE h = AString("12") BY <1>9, <2>5
  <2> QED BY <1>9, <2>2, <2>3, <2>4, <2>5
<1> QED BY <1>3, <1>4, <1>5, <1>6, <1>7, <1>8, <1>9, HeldAre

LEMMA CellsAre ==
  ASSUME NEW v, v \in CellValue \/ v = NullValue
  PROVE  v \notin Words /\ v \in CellValue
<1>1. NullValue \in CellValue BY DEF CellValue, NullValue, Texts
<1>2. v \in CellValue BY <1>1
<1>3. v.is \in {"string", "number", "boolean", "null"} BY <1>2 DEF CellValue
<1> QED BY <1>2, <1>3, WordsAre

LEMMA InitForm == FormInit => FormInv
<1> SUFFICES ASSUME FormInit PROVE FormInv OBVIOUS
<1>1. column \in FormColumns /\ held \in Held(column) /\ form = "none" /\ field = Empty /\ touched = FALSE
      /\ cell = Word("none")
  BY DEF FormInit
<1>2. Empty \in Field /\ Empty.isNull = FALSE BY DEF Empty, Field, Texts
<1>3. FormTypeOK BY <1>1, <1>2, WordsAre DEF FormTypeOK
<1> QED BY <1>1, <1>2, <1>3 DEF FormInv, OneFlag

\* A form opens: its fields are set from the cell
LEMMA FormOpens ==
  ASSUME FormInv, NEW kind \in {"add", "dialog", "cell"}, NEW start \in Field, Open(kind, start),
         ~(start.isNull /\ start.useDefault), kind = "cell" => start.text = CellText(held)
  PROVE  FormInv'
<1>1. form' = kind /\ field' = start /\ touched' = FALSE /\ cell' = Word("none") /\ UNCHANGED <<column, held>>
  BY DEF Open
<1>2. FormTypeOK' BY <1>1, WordsAre DEF FormInv, FormTypeOK
<1> QED BY <1>1, <1>2 DEF FormInv, OneFlag

LEMMA FormSets ==
  ASSUME FormInv, NEW new \in Field, Set(new), ~(new.isNull /\ new.useDefault)
  PROVE  FormInv'
<1>1. field' = new /\ touched' = TRUE /\ UNCHANGED <<column, held, form, cell>> BY DEF Set
<1>2. FormTypeOK' BY <1>1 DEF FormInv, FormTypeOK
<1> QED BY <1>1, <1>2 DEF FormInv, OneFlag

LEMMA FormCloses ==
  ASSUME FormInv, NEW result, result \in Words \/ result \in CellValue, Close(result)
  PROVE  FormInv'
<1>1. form' = "none" /\ cell' = result /\ UNCHANGED <<column, held, field, touched>> BY DEF Close
<1>2. FormTypeOK' BY <1>1 DEF FormInv, FormTypeOK, CellValue
<1> QED BY <1>1, <1>2 DEF FormInv, OneFlag

\* What an editor, and the Add Row dialog, make of a text
LEMMA EditStores ==
  ASSUME NEW text \in Texts, NEW c \in FormColumns
  PROVE  /\ InDatabase(ParseEdit(text, c)) \in CellValue
         /\ \/ InDatabase(ParseEdit(text, c)).of = text
            \/ c.category = "integer" /\ text \in {"12ab", "1.5"}
            \/ c.category = "float" /\ text = "12ab"
            \/ c.category = "json" /\ text = "{}"
<1>1. PICK k \in Categories : k = c.category BY DEF FormColumns
<1>2. CASE text = "" /\ c.nullable
  <2>1. ParseEdit(text, c) = NullValue BY <1>2 DEF ParseEdit
  <2>2. InDatabase(NullValue) = NullValue BY ValuesAre DEF InDatabase
  <2>3. NullValue \in CellValue BY DEF CellValue, NullValue, Texts
  <2> QED BY <1>2, <2>1, <2>2, <2>3, ValuesAre
<1>3. CASE ~(text = "" /\ c.nullable)
  <2>1. ParseEdit(text, c) = ByCategory(text, k) BY <1>1, <1>3 DEF ParseEdit
  <2> QED BY <1>1, <2>1, ParsedIs
<1> QED BY <1>2, <1>3

LEMMA AddStores ==
  ASSUME NEW text \in Texts, NEW c \in FormColumns
  PROVE  /\ InDatabase(ParseAdd(text, c)) \in CellValue
         /\ \/ InDatabase(ParseAdd(text, c)).of = text
            \/ c.category = "integer" /\ text \in {"12ab", "1.5"}
            \/ c.category = "float" /\ text = "12ab"
            \/ c.category = "json" /\ text = "{}"
            \/ text \in {"NOW()", "CURRENT_DATE"}
            \/ c.category = "timestamp" /\ text = "12"
<1>1. PICK k \in Categories : k = c.category BY DEF FormColumns
<1>2. CASE text \in {"NOW()", "CURRENT_DATE"}
  <2>1. ParseAdd(text, c) = AnObject(text) BY <1>2 DEF ParseAdd
  <2>2. InDatabase(AnObject(text)) = AString(Mangle) BY ValuesAre DEF InDatabase
  <2>3. AString(Mangle) \in CellValue BY DEF CellValue, AString, Texts
  <2> QED BY <1>2, <2>1, <2>2, <2>3
<1>3. CASE text \notin {"NOW()", "CURRENT_DATE"} /\ c.category = "timestamp" /\ text = "12"
  <2>1. ParseAdd(text, c) = AString("epoch") BY <1>3 DEF ParseAdd
  <2>2. InDatabase(AString("epoch")) = AString("epoch") BY ValuesAre DEF InDatabase
  <2>3. AString("epoch") \in CellValue BY DEF CellValue, AString
  <2> QED BY <1>3, <2>1, <2>2, <2>3
<1>4. CASE text \notin {"NOW()", "CURRENT_DATE"} /\ ~(c.category = "timestamp" /\ text = "12")
  <2>1. ParseAdd(text, c) = ByCategory(text, k) BY <1>1, <1>4 DEF ParseAdd
  <2> QED BY <1>1, <2>1, ParsedIs
<1> QED BY <1>2, <1>3, <1>4

LEMMA FormStep ==
  FormInv /\ [FormNext]_formVars => FormInv' /\ [LookedAt]_formVars /\ [TypedIsStored]_formVars
<1> SUFFICES ASSUME FormInv, [FormNext]_formVars
             PROVE  FormInv' /\ [LookedAt]_formVars /\ [TypedIsStored]_formVars
  OBVIOUS
<1>1. PICK f \in Field : f = field BY DEF FormInv, FormTypeOK
<1>2. PICK c \in FormColumns : c = column BY DEF FormInv, FormTypeOK
<1>3. /\ f.text \in Texts /\ f.isNull \in BOOLEAN /\ f.useDefault \in BOOLEAN /\ held \in Held(c)
      /\ ~(f.isNull /\ f.useDefault)
      /\ form \in {"none", "add", "dialog", "cell"}
  BY <1>1, <1>2 DEF FormInv, FormTypeOK, OneFlag, Field
<1>4. c.category \in Categories /\ c.nullable \in BOOLEAN /\ c.default \in {"none", "literal", "server"}
  BY DEF FormColumns
<1>5. form = "none" => LookedAt /\ TypedIsStored
  BY DEF LookedAt, TypedIsStored, LeaveCell, SubmitAdd, SaveDialog
<1>6. cell' = cell /\ form # "none" /\ form' = form => LookedAt /\ TypedIsStored
  BY DEF LookedAt, TypedIsStored, LeaveCell, SubmitAdd, SaveDialog, Close
<1>7. CASE OpenAdd
  <2>1. PICK n \in BOOLEAN : n <=> (c.nullable /\ c.default # "server") OBVIOUS
  <2>2. PICK d \in BOOLEAN : d <=> (c.default = "server") OBVIOUS
  <2>3. PICK start : start = [text |-> "", isNull |-> n, useDefault |-> d] OBVIOUS
  <2>4. start \in Field /\ ~(start.isNull /\ start.useDefault)
    <3>1. "" \in Texts BY DEF Texts
    <3>2. start \in Field BY <2>3, <3>1 DEF Field
    <3>3. start.isNull = n /\ start.useDefault = d BY <2>3
    <3> QED BY <2>1, <2>2, <3>2, <3>3
  <2>5. n = (column.nullable /\ column.default # "server") /\ d = (column.default = "server")
    BY <1>2, <1>4, <2>1, <2>2, Zenon
  <2>6. Open("add", start) BY <1>7, <2>3, <2>5 DEF OpenAdd
  <2>7. form = "none" BY <2>6 DEF Open
  <2> QED BY <1>5, <2>4, <2>6, <2>7, FormOpens
<1>8. CASE OpenDialog
  <2>1. PICK n \in BOOLEAN : n <=> (held = NullValue) OBVIOUS
  <2>2. PICK start : start = [text |-> EditText(held), isNull |-> n, useDefault |-> FALSE] OBVIOUS
  <2>3. start \in Field /\ ~(start.isNull /\ start.useDefault)
    <3>1. EditText(held) \in Texts BY <1>3, HeldAre DEF EditText
    <3>2. start \in Field BY <2>2, <3>1 DEF Field
    <3>3. start.useDefault = FALSE BY <2>2
    <3> QED BY <3>2, <3>3
  <2>4. n = (held = NullValue) BY <2>1, Zenon
  <2>5. Open("dialog", start) BY <1>8, <2>2, <2>4 DEF OpenDialog
  <2>6. form = "none" BY <2>5 DEF Open
  <2> QED BY <1>5, <2>3, <2>5, <2>6, FormOpens
<1>9. CASE OpenCell
  <2>1. PICK start : start = [Empty EXCEPT !.text = CellText(held)] OBVIOUS
  <2>2. start = [text |-> CellText(held), isNull |-> FALSE, useDefault |-> FALSE] BY <2>1 DEF Empty
  <2>3. start \in Field /\ ~(start.isNull /\ start.useDefault) /\ start.text = CellText(held)
    <3>1. CellText(held) \in Texts BY <1>3, HeldAre
    <3>2. start \in Field BY <2>2, <3>1 DEF Field
    <3> QED BY <2>2, <3>2
  <2>4. Open("cell", start) BY <1>9, <2>1 DEF OpenCell
  <2>5. form = "none" BY <2>4 DEF Open
  <2> QED BY <1>5, <2>3, <2>4, <2>5, FormOpens
<1>10. ASSUME NEW new \in Field, Set(new), ~(new.isNull /\ new.useDefault)
       PROVE  FormInv' /\ LookedAt /\ TypedIsStored
  <2>1. form # "none" /\ cell' = cell /\ form' = form BY <1>10 DEF Set
  <2> QED BY <1>6, <1>10, <2>1, FormSets
<1>11. ASSUME NEW text \in Texts, Typed(text) PROVE FormInv' /\ LookedAt /\ TypedIsStored
  <2>1. PICK new : new = [f EXCEPT !.text = text] OBVIOUS
  <2>2. new \in Field BY <2>1 DEF Field
  <2>3. ~(new.isNull /\ new.useDefault)
    <3>1. new.isNull = f.isNull /\ new.useDefault = f.useDefault BY <2>1 DEF Field
    <3> QED BY <1>3, <3>1
  <2> QED BY <1>1, <1>10, <1>11, <2>1, <2>2, <2>3 DEF Typed
<1>12. CASE ToggleNull
  <2>1. PICK new : new = [f EXCEPT !.isNull = ~@, !.useDefault = FALSE] OBVIOUS
  <2>2. new \in Field /\ new.useDefault = FALSE BY <1>3, <2>1 DEF Field
  <2> QED BY <1>1, <1>10, <1>12, <2>1, <2>2 DEF ToggleNull
<1>13. CASE ToggleDefault
  <2>1. PICK new : new = [f EXCEPT !.useDefault = ~@, !.isNull = FALSE] OBVIOUS
  <2>2. new \in Field /\ new.isNull = FALSE BY <1>3, <2>1 DEF Field
  <2> QED BY <1>1, <1>10, <1>13, <2>1, <2>2 DEF ToggleDefault
<1>14. NullValue \in CellValue BY DEF CellValue, NullValue, Texts
<1>15. ASSUME SubmitAdd PROVE FormInv' /\ LookedAt /\ TypedIsStored
  <2>1. PICK v : v = InDatabase(ParseAdd(f.text, c)) OBVIOUS
  <2>2. v \in CellValue /\ (v.of = f.text \/ Rewritten)
    BY <1>1, <1>2, <1>3, <1>15, <2>1, AddStores DEF Rewritten, SubmitAdd
  <2>3. /\ form = "add"
        /\ \/ cell' \in {Word("default"), Word("refused")} /\ f.text = ""
           \/ cell' = Word("default") /\ f.useDefault
           \/ cell' = NullValue /\ f.isNull
           \/ cell' = NullValue /\ f.text = ""
           \/ cell' = v
    BY <1>1, <1>2, <1>15, <2>1 DEF SubmitAdd, Close, Omitted
  <2>4. cell' \in Words \/ cell' \in CellValue BY <1>14, <2>2, <2>3, WordsAre
  <2>5. FormInv' BY <1>15, <2>4, FormCloses DEF SubmitAdd, Close
  <2>6. TypedIsStored
    <3> SUFFICES ASSUME ~f.isNull, ~f.useDefault
                 PROVE  \/ cell' \notin Words /\ cell'.of = f.text
                        \/ form = "add" /\ f.text = "" /\ cell' \in {Word("default"), Word("refused")}
                        \/ Rewritten
      BY <1>1 DEF TypedIsStored
    <3>1. CASE cell' = NullValue /\ f.text = ""
      BY <1>14, <3>1, CellsAre, ValuesAre
    <3>2. CASE cell' = v BY <2>2, <3>2, CellsAre
    <3> QED BY <2>3, <3>1, <3>2
  <2>7. LookedAt BY <2>3 DEF LookedAt, LeaveCell
  <2> QED BY <2>5, <2>6, <2>7
<1>16. ASSUME SaveDialog PROVE FormInv' /\ LookedAt /\ TypedIsStored
  <2>1. PICK v : v = InDatabase(ParseEdit(f.text, c)) OBVIOUS
  <2>2. v \in CellValue /\ (v.of = f.text \/ Rewritten)
    BY <1>1, <1>2, <1>3, <2>1, EditStores DEF Rewritten
  <2>3. /\ form = "dialog"
        /\ \/ cell' = Word("refused") /\ f.useDefault
           \/ cell' = NullValue /\ f.isNull
           \/ cell' = v
    BY <1>1, <1>2, <1>16, <2>1 DEF SaveDialog, Close
  <2>4. cell' \in Words \/ cell' \in CellValue BY <1>14, <2>2, <2>3, WordsAre
  <2>5. FormInv' BY <1>16, <2>4, FormCloses DEF SaveDialog, Close
  <2>6. TypedIsStored
    <3> SUFFICES ASSUME ~f.isNull, ~f.useDefault
                 PROVE  \/ cell' \notin Words /\ cell'.of = f.text
                        \/ Rewritten
      BY <1>1 DEF TypedIsStored
    <3>1. cell' = v BY <2>3
    <3> QED BY <2>2, <3>1, CellsAre
  <2>7. LookedAt BY <2>3 DEF LookedAt, LeaveCell
  <2> QED BY <2>5, <2>6, <2>7
<1>17. CASE LeaveCell
  <2>1. PICK w : w = ParseEdit(f.text, c) OBVIOUS
  <2>2. form = "cell" /\ cell' = (IF w = held THEN Word("kept") ELSE InDatabase(w))
    BY <1>1, <1>2, <1>17, <2>1 DEF LeaveCell, Close
  <2>3. InDatabase(w) \in CellValue BY <1>3, <2>1, EditStores
  <2>4. cell' \in Words \/ cell' \in CellValue BY <2>2, <2>3, WordsAre
  <2>5. FormInv' BY <1>17, <2>4, FormCloses DEF LeaveCell, Close
  <2>6. LookedAt
    <3> SUFFICES ASSUME ~touched
                 PROVE  \/ cell' = Word("kept")
                        \/ held.is = "object"
                        \/ held = AString("") /\ column.nullable
                        \/ held = AString("12") /\ column.category = "json"
      BY DEF LookedAt
    <3>1. f.text = CellText(held) BY <1>1, <2>2 DEF FormInv
    <3> QED BY <1>2, <1>3, <2>1, <2>2, <3>1, ReadAsHeld
  <2>7. TypedIsStored BY <2>2 DEF TypedIsStored, SubmitAdd, SaveDialog
  <2> QED BY <2>5, <2>6, <2>7
<1>18. CASE MenuNull BY <1>5, <1>14, <1>18, FormCloses DEF MenuNull
<1>19. CASE MenuDefault BY <1>5, <1>19, WordsAre, FormCloses DEF MenuDefault
<1>20. CASE CancelForm
  <2>1. form # "none" /\ cell' = Word("kept") /\ Close(Word("kept")) BY <1>20 DEF CancelForm, Close
  <2>2. FormInv' BY <2>1, WordsAre, FormCloses
  <2>3. LookedAt BY <2>1 DEF LookedAt
  <2>4. TypedIsStored
    <3>1. CASE SubmitAdd BY <1>15, <3>1
    <3>2. CASE SaveDialog BY <1>16, <3>2
    <3>3. CASE ~SubmitAdd /\ ~SaveDialog BY <3>3 DEF TypedIsStored
    <3> QED BY <3>1, <3>2, <3>3
  <2> QED BY <2>2, <2>3, <2>4
<1>21. CASE UNCHANGED formVars
  <2>1. FormInv' BY <1>21 DEF formVars, FormInv, FormTypeOK, OneFlag
  <2> QED BY <1>21, <2>1
<1> QED BY <1>7, <1>8, <1>9, <1>11, <1>12, <1>13, <1>15, <1>16, <1>17, <1>18, <1>19, <1>20, <1>21 DEF FormNext

\* Changes reach the rows they were meant for, once, in order and as typed, but for the named
\* causes: for any number of rows, of changes and of saves that overlap.
THEOREM EditsReachHolds == MCSpec => EditsReach
<1> DEFINE allVars == <<part, vars, gridVars, queueVars, formVars, filtersVars, conditionVars, tabsVars>>
<1>1. MCInit => GridInv /\ QueueInv /\ FormInv BY InitGrid, InitQueue, InitForm DEF MCInit
<1>2. [MCNext]_allVars => [GridNext]_gridVars /\ [QueueNext]_queueVars /\ [FormNext]_formVars BY DEF MCNext
<1>3. GridInv /\ [MCNext]_allVars => GridInv' /\ [MeantRow]_gridVars BY <1>2, GridStep
<1>4. QueueInv /\ [MCNext]_allVars => QueueInv' BY <1>2, QueueStep
<1>5. FormInv /\ [MCNext]_allVars => FormInv' /\ [LookedAt]_formVars /\ [TypedIsStored]_formVars
  BY <1>2, FormStep
<1>6. GridInv => GridTypeOK /\ CellHasRow /\ TickedAlone /\ TicksFresh BY DEF GridInv
<1>7. QueueInv => QueueTypeOK /\ SavedIsApplied /\ RepeatedForCause /\ LostForCause /\ InOrder
  BY QueueInvGives DEF QueueInv
<1>8. FormInv => FormTypeOK /\ OneFlag BY DEF FormInv
<1>9. MCSpec => [](GridTypeOK /\ CellHasRow /\ TickedAlone /\ TicksFresh) /\ [][MeantRow]_gridVars
  BY <1>1, <1>3, <1>6, PTL DEF MCSpec
<1>10. MCSpec => [](QueueTypeOK /\ SavedIsApplied /\ RepeatedForCause /\ LostForCause /\ InOrder)
  BY <1>1, <1>4, <1>7, PTL DEF MCSpec
<1>11. MCSpec => [](FormTypeOK /\ OneFlag) /\ [][LookedAt]_formVars /\ [][TypedIsStored]_formVars
  BY <1>1, <1>5, <1>8, PTL DEF MCSpec
<1>12. [][MeantRow]_gridVars => MeantRows BY PTL DEF MeantRow, MeantRows
<1>13. [][LookedAt]_formVars => LookingKeeps BY PTL DEF LookedAt, LookingKeeps
<1>14. [][TypedIsStored]_formVars => StoresTyped BY PTL DEF TypedIsStored, StoresTyped
<1> QED BY <1>9, <1>10, <1>11, <1>12, <1>13, <1>14 DEF EditsReach

\* The grid shows what a save makes of the table, for any queue of changes, and the rows that
\* a filter keeps are those its label says, for any texts: neither asks how the state came
\* about beyond its invariant, but what an order of changes and a pattern come to.
THEOREM ShownIsDoneHolds == MCSpec => []ShownIsDone
<1> DEFINE allVars == <<part, vars, gridVars, queueVars, formVars, filtersVars, conditionVars, tabsVars>>
<1>1. MCInit => QueueInv /\ FilterTypeOK BY InitQueue, InitFilter DEF MCInit
<1>2. [MCNext]_allVars => [QueueNext]_queueVars /\ [FilterNext]_conditionVars BY DEF MCNext
<1>3. QueueInv /\ FilterTypeOK /\ [MCNext]_allVars => (QueueInv /\ FilterTypeOK)'
  BY <1>2, QueueStep, FilterStep
<1>4. ASSUME QueueInv, FilterTypeOK PROVE ShownIsDone
  <2>1. table \in [Rows -> Cells \cup {Gone}] /\ queue \in Seq(Ids) BY <1>4 DEF QueueInv, QueueTypeOK
  <2>2. Ordered(queue) /\ queue \in Seq(1 .. made) /\ made \in Nat /\ \A i \in 1 .. made : EntryFits(i)
    BY <1>4, MadeAre DEF QueueInv
  <2>3. \A i \in ToSet(queue) : EntryFits(i) BY <2>2, MembersAre
  <2>4. ShownIsSaved BY <2>1, <2>2, <2>3, QueueShows
  <2>5. KeepsAsLabelled BY <1>4, KeepsLabelled
  <2> QED BY <2>4, <2>5 DEF ShownIsDone
<1>5. QueueInv /\ FilterTypeOK => ShownIsDone BY <1>4
<1> QED BY <1>1, <1>3, <1>5, PTL DEF MCSpec
=============================================================================
