------------------------------ MODULE TableTab ------------------------------
(***************************************************************************)
(* The data of one table tab of the workbench (TableTab/state/             *)
(* TableTabContext.tsx, useTableTabStore.ts).                              *)
(*                                                                         *)
(* Each fetchData call is a request with a number.  An unfiltered one asks *)
(* for a row count first; then the page is streamed, its rows are buffered *)
(* and a timer moves them to the grid.  The browser runs one callback at a *)
(* time, so a callback is a step; the callbacks of requests that overlap   *)
(* come in any order, and only those of the latest request may show rows.  *)
(***************************************************************************)
EXTENDS Naturals

CONSTANTS
  Windows,      \* what the store pages by: page and page size, or a LIMIT and an OFFSET
  Manual,       \* those that are a LIMIT and an OFFSET
  MaxRequests,  \* bound on the calls of fetchData
  MaxRows       \* bound on the rows of one page

ASSUME WindowsAssumption == Manual \subseteq Windows
ASSUME BoundAssumption == MaxRequests \in Nat /\ MaxRows \in Nat

None == "none"
Requests == 1 .. MaxRequests
NoRequest == 0
Row == Requests \X (1 .. MaxRows)   \* a row, by the request it was sent for

VARIABLES
  window,  \* store: currentPage, pageSize, limitOffset
  total,   \* store: whether totalRowCount is known
  status,  \* store: status
  shown,   \* store: rows
  latest,  \* requestIdRef
  rows,    \* rowsRef
  buffer,  \* rowsBufferRef
  timer,   \* flushTimeoutRef: the request whose flush is due
  req      \* the requests

storeVars == <<window, total, status, shown>>
refVars == <<latest, rows, buffer, timer>>
vars == <<storeVars, refVars, req>>

Request ==
  [pc : {"none", "estimate", "count", "asked", "stream", "ended", "failed", "done"},
   filtered : BOOLEAN,
   window : Windows \cup {None},   \* what its SQL was built for
   size : 0 .. MaxRows,            \* rows its query yields
   sent : 0 .. MaxRows,
   cut : BOOLEAN]                  \* the stream ended early without an error event

Unmade == [pc |-> "none", filtered |-> FALSE, window |-> None, size |-> 0, sent |-> 0, cut |-> FALSE]

TypeOK ==
  /\ window \in Windows /\ total \in BOOLEAN
  /\ status \in {"idle", "loading", "success", "error"}
  /\ shown \subseteq Row /\ rows \subseteq Row /\ buffer \subseteq Row
  /\ latest \in 0 .. MaxRequests
  /\ timer \in {NoRequest, latest}
  /\ req \in [Requests -> Request]
-----------------------------------------------------------------------------
Received(r) == {<<r, i>> : i \in 1 .. req[r].sent}

Goto(r, pc) == req' = [req EXCEPT ![r].pc = pc]

\* flushRows
Flush(r) ==
  IF r = latest /\ buffer # {}
  THEN rows' = rows \cup buffer /\ buffer' = {} /\ shown' = rows'
  ELSE UNCHANGED <<rows, buffer, shown>>

Init ==
  /\ window \in Windows \ Manual
  /\ total = FALSE /\ status = "idle" /\ shown = {}
  /\ latest = 0 /\ rows = {} /\ buffer = {} /\ timer = NoRequest
  /\ req = [r \in Requests |-> Unmade]
-----------------------------------------------------------------------------
(***************************************************************************)
(* The user                                                                *)
(***************************************************************************)
\* Mutant: the timer of the request before is left running
BeginTimed(filtered) ==
  LET r == latest + 1 IN
  /\ r \in Requests
  /\ latest' = r
  /\ rows' = {} /\ buffer' = {} /\ timer' = timer
  /\ status' = "loading"
  /\ total' = (total /\ ~filtered)
  /\ req' = [req EXCEPT ![r].pc = "asked", ![r].size = MaxRows, ![r].window = window]
  /\ UNCHANGED <<window, shown>>

\* Mutant: a filter leaves the count of the whole table
BeginCounted(filtered) ==
  LET r == latest + 1 IN
  /\ r \in Requests
  /\ latest' = r
  /\ rows' = {} /\ buffer' = {} /\ timer' = NoRequest
  /\ status' = "loading"
  /\ req' = [req EXCEPT ![r].pc = IF filtered THEN "asked" ELSE "estimate", ![r].filtered = filtered]
  /\ UNCHANGED <<window, total, shown>>

\* On mount, on a change of the filters and on refresh.  Only a request without a
\* filter or a manual window asks for the count; the others build their SQL at once.
Begin(filtered) ==
  LET r == latest + 1
      counts == ~filtered /\ window \notin Manual
  IN
  /\ r \in Requests
  /\ latest' = r
  /\ rows' = {} /\ buffer' = {} /\ timer' = NoRequest
  /\ status' = "loading"
  /\ total' = (total /\ ~filtered)
  /\ \E n \in 0 .. MaxRows :
       req' = [req EXCEPT ![r] =
                 [pc |-> IF counts THEN "estimate" ELSE "asked", filtered |-> filtered,
                  window |-> IF counts THEN None ELSE window,
                  size |-> n, sent |-> 0, cut |-> FALSE]]
  /\ UNCHANGED <<window, shown>>

\* setPage, setPageSize, setLimitOffset.  The effect that should fetch the new page
\* gives store.subscribe a selector and a listener; without subscribeWithSelector the
\* store takes the selector for the listener and never calls the other.
SetWindow(v) ==
  /\ window' = v
  /\ UNCHANGED <<total, status, shown, refVars, req>>
-----------------------------------------------------------------------------
(***************************************************************************)
(* The count                                                               *)
(***************************************************************************)
\* The SQL of the page is built when the count is there, for the window of that moment
Ask(r) == req' = [req EXCEPT ![r].pc = "asked", ![r].window = window]

\* The estimated count is there, or it is null, zero or an error and the exact one is
\* asked for
Estimate(r) ==
  /\ req[r].pc = "estimate"
  /\ \/ total' = TRUE /\ Ask(r)
     \/ total' = total /\ Goto(r, "count")
  /\ UNCHANGED <<window, status, shown, refVars>>

\* setTotalRowCount does not look at the number of the request
Count(r) ==
  /\ req[r].pc = "count"
  /\ total' \in BOOLEAN
  /\ Ask(r)
  /\ UNCHANGED <<window, status, shown, refVars>>
-----------------------------------------------------------------------------
(***************************************************************************)
(* The stream                                                              *)
(***************************************************************************)
Columns(r) ==
  /\ req[r].pc = "asked"
  /\ Goto(r, "stream")
  /\ shown' = IF r = latest THEN rows ELSE shown
  /\ UNCHANGED <<window, total, status, refVars>>

\* Mutant: rows are taken whatever request they are of
ReceiveAny(r) ==
  /\ req[r].pc = "stream" /\ req[r].sent < req[r].size
  /\ req' = [req EXCEPT ![r].sent = @ + 1]
  /\ buffer' = buffer \cup {<<r, req[r].sent + 1>>}
  /\ timer' = latest
  /\ UNCHANGED <<storeVars, latest, rows>>

Receive(r) ==
  /\ req[r].pc = "stream" /\ req[r].sent < req[r].size
  /\ req' = [req EXCEPT ![r].sent = @ + 1]
  /\ IF r = latest
     THEN buffer' = buffer \cup {<<r, req[r].sent + 1>>} /\ timer' = r
     ELSE UNCHANGED <<buffer, timer>>
  /\ UNCHANGED <<storeVars, latest, rows>>

TimerFires ==
  /\ timer # NoRequest
  /\ timer' = NoRequest
  /\ Flush(timer)
  /\ UNCHANGED <<window, total, status, latest, req>>

\* The complete event
Complete(r) ==
  /\ req[r].pc = "stream" /\ req[r].sent = req[r].size
  /\ Goto(r, "ended")
  /\ Flush(r)
  /\ UNCHANGED <<window, total, status, latest, timer>>

\* The body ends without one: a panic in the service after the first rows ends it with
\* an object the reader passes over
Cut(r) ==
  /\ req[r].pc = "stream" /\ req[r].sent < req[r].size
  /\ req' = [req EXCEPT ![r] = [@ EXCEPT !.pc = "ended", !.cut = TRUE]]
  /\ Flush(r)
  /\ UNCHANGED <<window, total, status, latest, timer>>

\* An error event, an answer other than 200 or a lost connection, all told to onError;
\* or a failure to fetch the keys, which is only returned
Fail(r) ==
  /\ req[r].pc \in {"asked", "stream"}
  /\ Goto(r, "failed")
  /\ \E told \in BOOLEAN :
       status' = IF r = latest /\ (told \/ req[r].pc = "stream") THEN "error" ELSE status
  /\ UNCHANGED <<window, total, shown, refVars>>

\* Mutant: the number of the request is not looked at after the stream
ReturnAny(r) ==
  /\ req[r].pc \in {"ended", "failed"}
  /\ Goto(r, "done")
  /\ IF req[r].pc = "ended"
     THEN /\ status' = "success" /\ shown' = Received(r)
          /\ rows' = rows \cup buffer /\ buffer' = {}
     ELSE status' = "error" /\ UNCHANGED <<shown, rows, buffer>>
  /\ UNCHANGED <<window, total, latest, timer>>

\* Mutant: an error is left to onError to show
ReturnUntold(r) ==
  /\ req[r].pc \in {"ended", "failed"}
  /\ Goto(r, "done")
  /\ IF r = latest /\ req[r].pc = "ended"
     THEN /\ status' = "success" /\ shown' = Received(r)
          /\ rows' = rows \cup buffer /\ buffer' = {}
     ELSE UNCHANGED <<status, shown, rows, buffer>>
  /\ UNCHANGED <<window, total, latest, timer>>

\* streamQuery returns: success shows the rows of the response, whatever was flushed
Return(r) ==
  /\ req[r].pc \in {"ended", "failed"}
  /\ Goto(r, "done")
  /\ IF r # latest THEN UNCHANGED <<status, shown, rows, buffer>>
     ELSE IF req[r].pc = "ended"
     THEN /\ status' = "success" /\ shown' = Received(r)
          /\ rows' = rows \cup buffer /\ buffer' = {}
     ELSE status' = "error" /\ UNCHANGED <<shown, rows, buffer>>
  /\ UNCHANGED <<window, total, latest, timer>>
-----------------------------------------------------------------------------
Answer(r) ==
  \/ Estimate(r) \/ Count(r)
  \/ Columns(r) \/ Receive(r) \/ Complete(r) \/ Cut(r) \/ Fail(r) \/ Return(r)

Next ==
  \/ \E filtered \in BOOLEAN : Begin(filtered)
  \/ \E v \in Windows : SetWindow(v)
  \/ \E r \in Requests : Answer(r)
  \/ TimerFires

\* The service answers: its queries and its calls have deadlines
Fairness == \A r \in Requests : WF_vars(Answer(r))

Spec == Init /\ [][Next]_vars /\ Fairness
-----------------------------------------------------------------------------
(***************************************************************************)
(* Properties                                                              *)
(***************************************************************************)
\* The grid never mixes the rows of two requests, and what waits to be shown is of the
\* latest one (the checks of requestId in the callbacks, the resets in fetchData).
NoMixedRows ==
  /\ \A a, b \in shown : a[1] = b[1]
  /\ latest # 0 => rows \cup buffer \subseteq Received(latest)

\* "success" is about the latest request: the grid has the rows it was sent, and these
\* are all there are unless the stream was cut (onComplete, setDataSuccess).
SuccessIsWhole ==
  status = "success" =>
    /\ req[latest].pc = "done" /\ shown = Received(latest)
    /\ req[latest].sent = req[latest].size \/ req[latest].cut

WrongTotal == total /\ latest # 0 /\ req[latest].filtered

\* The total of the whole table is shown over filtered rows in one way: the count of a
\* request that was overtaken by the filter comes in afterwards (setTotalRowCount).
WrongTotalOvertaken ==
  [][~WrongTotal /\ WrongTotal' =>
       \E r \in Requests :
         /\ r < latest /\ ~req[r].filtered
         /\ req[r].pc \in {"estimate", "count"} /\ req'[r].pc = "asked"]_vars

\* A tab does not load forever: an answer to the latest request, or its failure, always
\* ends in rows or an error, whatever the requests before it still do.
LoadingEnds == status = "loading" ~> status \in {"success", "error"}
=============================================================================
