------------------------------ MODULE RowQueue ------------------------------
(***************************************************************************)
(* The changes of a table tab on their way to the database.  What the      *)
(* grid, the details pane and the forms ask for is queued; Save runs the   *)
(* queue statement by statement, each on its own, and clears it when all   *)
(* went well.                                                              *)
(*   frontend/src/workbench/lib/mutations/                                 *)
(* A row is told from others by its first primary key column alone, so     *)
(* rows of a composed key may share a Key.  One column is edited: columns  *)
(* do not disturb each other.  An inserted row is counted, not listed.     *)
(***************************************************************************)
EXTENDS Naturals, FiniteSets, SequencesExt

CONSTANTS
  Rows,        \* the rows of the table
  Keys,        \* values of the first primary key column
  KeyOf,       \* the key of a row
  Values,      \* what a cell may hold or be set to
  Initial,     \* what every cell holds at first
  MaxEntries,  \* changes the person makes
  Saves        \* presses of Save

ASSUME QueueKeyAssumption == KeyOf \in [Rows -> Keys]
ASSUME QueueBoundAssumption == MaxEntries \in Nat

Default == "default"     \* useDefault
Object == "object"       \* JSON, and the NOW() of the Add Row dialog
Mangled == "[object Object]"
Gone == "gone"
Nothing == "nothing"
NoSave == "no save"

ASSUME QueueValuesAssumption == {Default, Object, Gone} \cap (Values \cup {Initial}) = {}

Cells == Values \cup {Initial, Mangled}
Inputs == Values \cup {Default, Object}
Ids == 1 .. MaxEntries

VARIABLES
  table,    \* the database: the cell of each row
  runs,     \* how often the statement of an entry took effect
  queue,    \* entries of the mutation queue store, by id
  entry,    \* what the entries say, and the saves they were made during
  made,     \* entries made so far
  dropped,  \* entries the person took back
  preview,  \* MutationPreviewModal: open, and the save it waits for
  save      \* the commits

queueVars == <<table, runs, queue, entry, made, dropped, preview, save>>

Unsaved == [pc |-> "none", list |-> <<>>, at |-> 0, beside |-> {}]
NoEntry == [type |-> "none", key |-> Nothing, value |-> Nothing, during |-> {}]

Entry == [type : {"none", "insert", "update", "delete"}, key : Keys \cup {Nothing},
          value : Inputs \cup {Nothing}, during : SUBSET Saves]
Save == [pc : {"none", "running", "done", "failed"}, list : Seq(Ids), at : Nat, beside : SUBSET Saves]

QueueTypeOK ==
  /\ table \in [Rows -> Cells \cup {Gone}]
  /\ runs \in [Ids -> Nat]
  /\ queue \in Seq(Ids)
  /\ entry \in [Ids -> Entry]
  /\ made \in 0 .. MaxEntries /\ dropped \subseteq Ids
  /\ preview \in [open : BOOLEAN, waits : Saves \cup {NoSave}]
  /\ save \in [Saves -> Save]

QueueInit ==
  /\ table = [r \in Rows |-> Initial]
  /\ runs = [i \in Ids |-> 0]
  /\ queue = <<>> /\ entry = [i \in Ids |-> NoEntry] /\ made = 0 /\ dropped = {}
  /\ preview = [open |-> FALSE, waits |-> NoSave]
  /\ save = [s \in Saves |-> Unsaved]
-----------------------------------------------------------------------------
Running == {s \in Saves : save[s].pc = "running"}

\* Mutant: keeping the object
StoredAsGiven(value) == value

\* formatMutationValue: a string of whatever it does not know
Stored(value) == IF value = Object THEN Mangled ELSE value

\* An UPDATE of nothing but defaults has an empty SET list: no database runs it
Runnable(e) == e.value # Default

\* buildUpdateQuery and buildDeleteQuery: WHERE the first key column is the key
Effect(t, e) ==
  [r \in Rows |-> IF t[r] = Gone \/ e.type = "insert" \/ KeyOf[r] # e.key THEN t[r]
                  ELSE IF e.type = "delete" THEN Gone
                  ELSE Stored(e.value)]

\* getPendingUpdateEdits, getPendingDeletePks: what the grid shows of the queue
PendingUpdates(q, key) == {i \in ToSet(q) : entry[i].type = "update" /\ entry[i].key = key}
PendingDelete(q, key) == \E i \in ToSet(q) : entry[i].type = "delete" /\ entry[i].key = key

\* Mutant: the first of the edits in place of the last
ShownFirst(q, r) ==
  LET updates == PendingUpdates(q, KeyOf[r])
  IN  IF table[r] = Gone \/ PendingDelete(q, KeyOf[r]) THEN Gone
      ELSE IF updates = {} THEN table[r]
      ELSE entry[Min(updates)].value

Shown(q, r) ==
  LET updates == PendingUpdates(q, KeyOf[r])
  IN  IF table[r] = Gone \/ PendingDelete(q, KeyOf[r]) THEN Gone
      ELSE IF updates = {} THEN table[r]
      ELSE entry[Max(updates)].value
-----------------------------------------------------------------------------
(* useTableTabMutations().queue: RowGrid and RowForms say when *)

\* Mutant: at the front of the queue
QueueFirst(type, key, value) ==
  /\ made < MaxEntries
  /\ made' = made + 1
  /\ entry' = [entry EXCEPT ![made + 1] =
                 [type |-> type, key |-> key, value |-> value, during |-> Running]]
  /\ queue' = <<made + 1>> \o queue
  /\ UNCHANGED <<table, runs, dropped, preview, save>>

Queue(type, key, value) ==
  /\ made < MaxEntries
  /\ made' = made + 1
  /\ entry' = [entry EXCEPT ![made + 1] =
                 [type |-> type, key |-> key, value |-> value, during |-> Running]]
  /\ queue' = Append(queue, made + 1)
  /\ UNCHANGED <<table, runs, dropped, preview, save>>

\* A modal dialog is before the page
Edit(r, value) == ~preview.open /\ Queue("update", KeyOf[r], value)
DeleteRow(r) == ~preview.open /\ Queue("delete", KeyOf[r], Nothing)
InsertRow == ~preview.open /\ Queue("insert", Nothing, Nothing)
-----------------------------------------------------------------------------
(* The queue: SaveButton, MutationPreviewModal, useMutationQueue *)

\* clear()
Clear ==
  /\ queue # <<>> /\ queue' = <<>>
  /\ dropped' = dropped \cup ToSet(queue)
  /\ UNCHANGED <<table, runs, entry, made, preview, save>>

\* Discard Changes in the toolbar, also while a save runs
Discard == ~preview.open /\ Clear

\* In the preview: not while its own save runs
ClearAll == preview.open /\ preview.waits = NoSave /\ Clear

RemoveEntry(i) ==
  /\ preview.open /\ preview.waits = NoSave
  /\ \E k \in DOMAIN queue : queue[k] = i /\ queue' = RemoveAt(queue, k)
  /\ dropped' = dropped \cup {i}
  /\ UNCHANGED <<table, runs, entry, made, preview, save>>

OpenPreview ==
  /\ ~preview.open /\ queue # <<>>
  /\ preview' = [preview EXCEPT !.open = TRUE]
  /\ UNCHANGED <<table, runs, queue, entry, made, dropped, save>>

\* Escape closes it even while its save runs
ClosePreview ==
  /\ preview.open
  /\ preview' = [preview EXCEPT !.open = FALSE]
  /\ UNCHANGED <<table, runs, queue, entry, made, dropped, save>>

\* commit: the entries are made into statements once, at the start
Commit(s) ==
  /\ save[s].pc = "none" /\ queue # <<>>
  /\ save' = [save EXCEPT ![s] = [pc |-> "running", list |-> queue, at |-> 1, beside |-> Running]]
  /\ UNCHANGED <<table, runs, queue, entry, made, dropped>>

\* The button of the toolbar is enabled whenever something is queued
PressSave(s) == ~preview.open /\ Commit(s) /\ UNCHANGED preview

PressCommit(s) ==
  /\ preview.open /\ preview.waits = NoSave
  /\ Commit(s)
  /\ preview' = [preview EXCEPT !.waits = s]

\* setIsCommitting(false)
Released(s) == [preview EXCEPT !.waits = IF @ = s THEN NoSave ELSE @]

\* The statement under way took effect, or could not
Run(s, effect) ==
  LET i == save[s].list[save[s].at]
  IN  IF effect
      THEN /\ Runnable(entry[i])
           /\ table' = Effect(table, entry[i])
           /\ runs' = [runs EXCEPT ![i] = @ + 1]
      ELSE UNCHANGED <<table, runs>>

\* Mutant: done one statement early
SucceedsEarly(s) ==
  /\ save[s].pc = "running"
  /\ Run(s, TRUE)
  /\ IF save[s].at + 1 < Len(save[s].list)
     THEN /\ save' = [save EXCEPT ![s].at = @ + 1]
          /\ UNCHANGED <<queue, preview>>
     ELSE /\ save' = [save EXCEPT ![s].pc = "done"]
          /\ queue' = <<>>
          /\ preview' = Released(s)
  /\ UNCHANGED <<entry, made, dropped>>

\* Mutant: without clear()
SucceedsOnly(s) ==
  /\ save[s].pc = "running"
  /\ Run(s, TRUE)
  /\ IF save[s].at < Len(save[s].list)
     THEN /\ save' = [save EXCEPT ![s].at = @ + 1]
          /\ UNCHANGED <<queue, preview>>
     ELSE /\ save' = [save EXCEPT ![s].pc = "done"]
          /\ UNCHANGED queue
          /\ preview' = Released(s)
  /\ UNCHANGED <<entry, made, dropped>>

\* It succeeded: the next one, or clear() and refresh() after the last
Succeeds(s) ==
  /\ save[s].pc = "running"
  /\ Run(s, TRUE)
  /\ IF save[s].at < Len(save[s].list)
     THEN /\ save' = [save EXCEPT ![s].at = @ + 1]
          /\ UNCHANGED <<queue, preview>>
     ELSE /\ save' = [save EXCEPT ![s].pc = "done"]
          /\ queue' = <<>>
          /\ preview' = Released(s)
  /\ UNCHANGED <<entry, made, dropped>>

\* Mutant: clearing the queue all the same
FailsClearing(s) ==
  /\ save[s].pc = "running"
  /\ \E effect \in BOOLEAN : Run(s, effect)
  /\ save' = [save EXCEPT ![s].pc = "failed"]
  /\ preview' = Released(s)
  /\ queue' = <<>>
  /\ UNCHANGED <<entry, made, dropped>>

\* It failed, or its answer was lost after it took effect: the queue stays as it is
Fails(s) ==
  /\ save[s].pc = "running"
  /\ \E effect \in BOOLEAN : Run(s, effect)
  /\ save' = [save EXCEPT ![s].pc = "failed"]
  /\ preview' = Released(s)
  /\ UNCHANGED <<queue, entry, made, dropped>>
-----------------------------------------------------------------------------
Statement(s) == Succeeds(s) \/ Fails(s)

QueueNext ==
  \/ \E r \in Rows : DeleteRow(r) \/ \E v \in Inputs : Edit(r, v)
  \/ InsertRow
  \/ Discard \/ ClearAll \/ OpenPreview \/ ClosePreview
  \/ \E i \in Ids : RemoveEntry(i)
  \/ \E s \in Saves : PressSave(s) \/ PressCommit(s) \/ Statement(s)

QueueSpec == QueueInit /\ [][QueueNext]_queueVars
-----------------------------------------------------------------------------
(* What may be expected of it *)

Listed(i) == {s \in Saves : i \in ToSet(save[s].list)}
Failed(s) == save[s].pc = "failed"
Overlap(s, t) == s \in save[t].beside \/ t \in save[s].beside

\* A save that ended well ran every statement it had listed.
SavedIsApplied ==
  \A s \in Saves : save[s].pc = "done" => \A i \in ToSet(save[s].list) : runs[i] >= 1

\* A change takes effect twice only when a save that listed it failed, so that it stayed in
\* the queue, or when two saves that listed it ran at once: the button is not disabled.
RepeatedForCause ==
  \A i \in Ids : runs[i] > 1 =>
    \/ \E s \in Listed(i) : Failed(s)
    \/ \E s, t \in Listed(i) : Overlap(s, t)

\* A change leaves the queue without effect only when it was taken back, or was made while
\* a save ran that then cleared the queue.
LostForCause ==
  \A i \in 1 .. made : i \notin ToSet(queue) /\ i \notin dropped /\ runs[i] = 0 =>
    \E s \in entry[i].during : save[s].pc = "done"

\* A later change never takes effect while an earlier one that did not is still queued.
InOrder ==
  \A i, j \in Ids : i < j /\ runs[j] > 0 /\ runs[i] = 0 => i \notin ToSet(queue)

\* What the queue makes of the table when all of it runs
Outcome(q) ==
  LET after[k \in 0 .. Len(q)] == IF k = 0 THEN table ELSE Effect(after[k - 1], entry[q[k]])
  IN  after[Len(q)]

\* What the grid shows of the pending changes is what a save makes of the table, but that
\* it stores an object as the name of its type.
ShownIsSaved ==
  (\A i \in ToSet(queue) : Runnable(entry[i])) =>
    \A r \in Rows : Outcome(queue)[r] = Stored(Shown(queue, r))
=============================================================================
