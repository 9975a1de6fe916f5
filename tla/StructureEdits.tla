--------------------------- MODULE StructureEdits ----------------------------
(***************************************************************************)
(* The structure of a table: what is shown of it, what is known of its     *)
(* columns, and the dialogs that change it, statement by statement.        *)
(*   frontend/src/workbench/tabs/TableTab/hooks/useStructurePane.ts        *)
(*   frontend/src/workbench/tabs/TableTab/state/useTableStructureStore.ts  *)
(*   frontend/src/workbench/tabs/TableTab/components/dialogs/*Modal.tsx    *)
(* A structure is the number of changes it has seen, for the columns and   *)
(* for the rest; what a statement says is TableDesign.                     *)
(***************************************************************************)
EXTENDS Integers, FiniteSets

CONSTANTS
  Submissions, \* confirmations of a dialog whose statements are under way
  Fetches,     \* readings of the structure that are under way
  MaxChanges   \* changes of the table

ASSUME ChangesAssumption == MaxChanges \in Nat

Dialogs == {"column", "index", "drop"}
Unknown == -1
Blank == -2  \* shown as if there were none

VARIABLES
  made,    \* the table: changes of its columns, of its indexes and foreign keys
  entry,   \* useTableStructureStore
  known,   \* useColumnsStore: the columns the grid, the editors and the filters work with
  loadAll, \* loadAllColumns of the schema: what it read, if one is under way
  fetch,   \* describeTable: what it has read so far, and how it stands to the others
  pane,    \* "structure" and "data" are panes of the open tab
  dialog,  \* which dialogs are open
  typed,   \* the dialogs that hold what was typed into them
  sub,     \* the submissions
  causes   \* what has happened that may leave something old on the screen

structureVars == <<made, entry, known, loadAll, fetch, pane, dialog, typed, sub, causes>>

NoEntry == [status |-> "none", columns |-> Unknown, rest |-> Unknown]
NoFetch == [on |-> FALSE, columns |-> Unknown, rest |-> Unknown, before |-> {}, late |-> FALSE]
NoLoadAll == [on |-> FALSE, columns |-> Unknown]
NoSub == [pc |-> "free", dialog |-> "column", left |-> 0, done |-> 0, here |-> "gone"]
Over == [NoSub EXCEPT !.pc = "over"]

Count == {Unknown, Blank} \cup 0 .. MaxChanges

StructureTypeOK ==
  /\ made \in [columns : Count \ {Unknown}, rest : Count \ {Unknown}]
  /\ entry \in [status : {"none", "loading", "success", "error"}, columns : Count, rest : Count]
  /\ entry.status = "success" => entry.columns # Unknown
  /\ known \in Count
  /\ loadAll \in [on : BOOLEAN, columns : Count]
  /\ fetch \in [Fetches -> [on : BOOLEAN, columns : Count, rest : Count,
                            before : SUBSET Fetches, late : BOOLEAN]]
  /\ pane \in {"structure", "data", "closed"}
  /\ dialog \subseteq Dialogs /\ typed \subseteq dialog
  /\ sub \in [Submissions -> [pc : {"free", "sent", "ran", "refused", "over"}, dialog : Dialogs,
                              left : 0 .. 2, done : 0 .. 2, here : {"dialog", "pane", "gone"}]]
  /\ causes \subseteq {"failed", "overtaken", "blank", "overlapped"}

StructureInit ==
  /\ made = [columns |-> 0, rest |-> 0]
  /\ entry = NoEntry /\ known = 0 /\ loadAll = NoLoadAll
  /\ fetch = [f \in Fetches |-> NoFetch]
  /\ pane = "data" /\ dialog = {} /\ typed = {}
  /\ sub = [s \in Submissions |-> NoSub]
  /\ causes = {}
-----------------------------------------------------------------------------
Reading == {f \in Fetches : fetch[f].on}
Free == {f \in Fetches : ~fetch[f].on}
Exists == made.columns # Blank

\* The structure pane draws its dialogs only while there is a structure to draw
IsDrawn(d) == IF d = "drop" THEN pane # "closed" ELSE pane = "structure" /\ entry.status = "success"

\* Dialogs that are not drawn forget that they are submitting; the pane forgets nothing
\* as long as it is there itself
Undrawn(subs, here) == [s \in Submissions |->
  IF subs[s].dialog = "drop" \/ subs[s].here = "gone" THEN subs[s] ELSE [subs[s] EXCEPT !.here = here]]

\* beginLoad does nothing to an entry that is loading or loaded
Begun(e) == IF e.status \in {"loading", "success"} THEN e ELSE [e EXCEPT !.status = "loading"]

\* describeTable: three queries at once
Describe(f) == fetch' = [fetch EXCEPT ![f] = [NoFetch EXCEPT !.on = TRUE, !.before = Reading]]

\* The effects of useStructurePane and useTableForeignKeys when their pane is drawn first
Mount(p) ==
  /\ pane # "closed" /\ pane # p
  /\ pane' = p
  /\ dialog' = dialog \cap {"drop"} /\ typed' = {}
  /\ sub' = Undrawn(sub, "gone")
  /\ IF entry.status \in {"loading", "success"}
     THEN UNCHANGED <<entry, fetch>>
     ELSE entry' = Begun(entry) /\ \E f \in Free : Describe(f)
  /\ UNCHANGED <<made, known, loadAll, causes>>

\* One of the queries reads; those of indexes and foreign keys may fail, and nothing tells
ReadColumns(f) ==
  /\ fetch[f].on /\ fetch[f].columns = Unknown
  /\ fetch' = [fetch EXCEPT ![f].columns = made.columns]
  /\ UNCHANGED <<made, entry, known, loadAll, pane, dialog, typed, sub, causes>>

ReadRest(f) ==
  /\ fetch[f].on /\ fetch[f].rest = Unknown
  /\ \E read \in {made.rest, Blank} :
       /\ fetch' = [fetch EXCEPT ![f].rest = read]
       /\ causes' = IF read # made.rest THEN causes \cup {"blank"} ELSE causes
  /\ UNCHANGED <<made, entry, known, loadAll, pane, dialog, typed, sub>>

\* f is over; what was asked before it and is still under way comes too late
Ended(f) == [g \in Fetches |->
  IF g = f THEN NoFetch
  ELSE [fetch[g] EXCEPT !.before = @ \ {f}, !.late = @ \/ g \in fetch[f].before]]

\* Mutant: with the dialogs drawn anew
ArrivesForgetting(f) ==
  /\ fetch[f].on /\ fetch[f].columns # Unknown /\ fetch[f].rest # Unknown
  /\ entry' = [status |-> "success", columns |-> fetch[f].columns, rest |-> fetch[f].rest]
  /\ causes' = causes \cup (IF fetch[f].late THEN {"overtaken"} ELSE {})
  /\ fetch' = Ended(f)
  /\ typed' = {}
  /\ UNCHANGED <<made, known, loadAll, pane, dialog, sub>>

\* setStructure: whichever answer comes last stays
Arrives(f) ==
  /\ fetch[f].on /\ fetch[f].columns # Unknown /\ fetch[f].rest # Unknown
  /\ entry' = [status |-> "success", columns |-> fetch[f].columns, rest |-> fetch[f].rest]
  /\ causes' = causes \cup (IF fetch[f].late THEN {"overtaken"} ELSE {})
  /\ fetch' = Ended(f)
  /\ UNCHANGED <<made, known, loadAll, pane, dialog, typed, sub>>

\* The query of the columns failed: setError keeps the structure, the pane hides it
FetchFails(f) ==
  /\ fetch[f].on /\ fetch[f].columns = Unknown
  /\ entry' = [entry EXCEPT !.status = "error"]
  /\ fetch' = Ended(f)
  /\ typed' = {} /\ sub' = IF IsDrawn("column") THEN Undrawn(sub, "pane") ELSE sub
  /\ UNCHANGED <<made, known, loadAll, pane, dialog, causes>>

\* loadAllColumns: a schema is selected, or selected again
AskAll ==
  /\ ~loadAll.on
  /\ loadAll' = [NoLoadAll EXCEPT !.on = TRUE]
  /\ UNCHANGED <<made, entry, known, fetch, pane, dialog, typed, sub, causes>>

ReadAll ==
  /\ loadAll.on /\ loadAll.columns = Unknown
  /\ loadAll' = [loadAll EXCEPT !.columns = made.columns]
  /\ UNCHANGED <<made, entry, known, fetch, pane, dialog, typed, sub, causes>>

\* mergeColumns: a table that was not read keeps its columns
AllArrive ==
  /\ loadAll.on /\ loadAll.columns # Unknown
  /\ known' = IF loadAll.columns = Blank THEN known ELSE loadAll.columns
  /\ loadAll' = NoLoadAll
  /\ UNCHANGED <<made, entry, fetch, pane, dialog, typed, sub, causes>>
-----------------------------------------------------------------------------
(* The dialogs: ColumnModal, RenameColumnModal, DeleteColumnModal are        *)
(* "column"; IndexModal, ForeignKeyModal and those that delete are "index".  *)

OpenDialog(d) ==
  /\ IsDrawn(d) /\ dialog = {}
  /\ dialog' = {d}
  /\ UNCHANGED <<made, entry, known, loadAll, fetch, pane, typed, sub, causes>>

Type(d) ==
  /\ IsDrawn(d) /\ d \in dialog /\ d # "drop"
  /\ typed' = typed \cup {d}
  /\ UNCHANGED <<made, entry, known, loadAll, fetch, pane, dialog, sub, causes>>

\* Mutant: with what was typed kept
CloseOnly(d) ==
  /\ IsDrawn(d) /\ d \in dialog
  /\ dialog' = dialog \ {d}
  /\ UNCHANGED <<made, entry, known, loadAll, fetch, pane, typed, sub, causes>>

\* Cancel or Escape, also while it submits
Close(d) ==
  /\ IsDrawn(d) /\ d \in dialog
  /\ dialog' = dialog \ {d} /\ typed' = typed \ {d}
  /\ UNCHANGED <<made, entry, known, loadAll, fetch, pane, sub, causes>>

Submitting(d) == \E s \in Submissions : sub[s].dialog = d /\ sub[s].here = "dialog"

\* handleSubmit: the column dialog sends an ALTER and perhaps a COMMENT
SubmitDialog(s, d) ==
  /\ sub[s].pc = "free" /\ IsDrawn(d) /\ d \in dialog /\ ~Submitting(d)
  /\ \E statements \in IF d = "column" THEN 1 .. 2 ELSE {1} :
       sub' = [sub EXCEPT ![s] = [pc |-> "sent", dialog |-> d, left |-> statements, done |-> 0,
                                  here |-> "dialog"]]
  /\ UNCHANGED <<made, entry, known, loadAll, fetch, pane, dialog, typed, causes>>

\* The database runs the statement
Ran(s) ==
  /\ sub[s].pc = "sent" /\ Exists
  /\ CASE sub[s].dialog = "column" ->
            made.columns < MaxChanges /\ made' = [made EXCEPT !.columns = @ + 1]
       [] sub[s].dialog = "index" ->
            made.rest < MaxChanges /\ made' = [made EXCEPT !.rest = @ + 1]
       [] OTHER -> made' = [columns |-> Blank, rest |-> Blank]
  /\ sub' = [sub EXCEPT ![s].pc = "ran", ![s].done = @ + 1]
  /\ causes' = IF loadAll.on THEN causes \cup {"overlapped"} ELSE causes
  /\ UNCHANGED <<entry, known, loadAll, fetch, pane, dialog, typed>>

Refused(s) ==
  /\ sub[s].pc = "sent"
  /\ sub' = [sub EXCEPT ![s].pc = "refused"]
  /\ UNCHANGED <<made, entry, known, loadAll, fetch, pane, dialog, typed, causes>>

NextStatement(s) ==
  /\ sub[s].pc = "ran" /\ sub[s].left > 1
  /\ sub' = [sub EXCEPT ![s].pc = "sent", ![s].left = @ - 1]
  /\ UNCHANGED <<made, entry, known, loadAll, fetch, pane, dialog, typed, causes>>

\* It was refused, or its answer was lost: what ran before stays, and the caches too
SubmissionFails(s) ==
  /\ sub[s].pc \in {"ran", "refused"}
  /\ sub' = [sub EXCEPT ![s] = Over]
  /\ causes' = IF sub[s].done > 0 THEN causes \cup {"failed"} ELSE causes
  /\ UNCHANGED <<made, entry, known, loadAll, fetch, pane, dialog, typed>>

Finishes(s) == sub[s].pc = "ran" /\ sub[s].left = 1 /\ sub[s].dialog # "drop"

\* The dialog the submission came from closes, whatever it is open for now
AfterSuccess(s) ==
  /\ sub' = Undrawn([sub EXCEPT ![s] = Over], "pane")
  /\ dialog' = IF sub[s].here # "gone" THEN dialog \ {sub[s].dialog} ELSE dialog
  /\ typed' = {}
  /\ UNCHANGED <<made, loadAll, pane, causes>>

\* Mutant: the columns stay where they are
SucceedsKeepingColumns(s) ==
  /\ Finishes(s)
  /\ \E f \in Free : Describe(f)
  /\ entry' = [NoEntry EXCEPT !.status = "loading"]
  /\ UNCHANGED known
  /\ AfterSuccess(s)

\* Mutant: beginLoad before invalidate: the entry is loaded still, and nothing is asked
SucceedsKeepingEntry(s) ==
  /\ Finishes(s)
  /\ known' = IF sub[s].dialog = "column" THEN Unknown ELSE known
  /\ UNCHANGED <<entry, fetch>>
  /\ AfterSuccess(s)

\* Mutant: beginLoad, and nothing else
SucceedsOnlyBeginning(s) ==
  /\ Finishes(s)
  /\ entry' = [NoEntry EXCEPT !.status = "loading"]
  /\ known' = IF sub[s].dialog = "column" THEN Unknown ELSE known
  /\ UNCHANGED fetch
  /\ AfterSuccess(s)

\* invalidate, handleSuccess, onOpenChange(false): the structure is read anew.  The
\* columns are only forgotten.
Succeeds(s) ==
  /\ Finishes(s)
  /\ \E f \in Free : Describe(f)
  /\ entry' = [NoEntry EXCEPT !.status = "loading"]
  /\ known' = IF sub[s].dialog = "column" THEN Unknown ELSE known
  /\ AfterSuccess(s)

\* DropTableModal: both caches forget the table, its tab closes
Drops(s) ==
  /\ sub[s].pc = "ran" /\ sub[s].dialog = "drop"
  /\ entry' = NoEntry /\ known' = Unknown
  /\ fetch' = [f \in Fetches |-> [fetch[f] EXCEPT !.late = fetch[f].on]]
  /\ pane' = "closed" /\ dialog' = {} /\ typed' = {}
  /\ sub' = [t \in Submissions |-> IF t = s THEN Over ELSE [sub[t] EXCEPT !.here = "gone"]]
  /\ UNCHANGED <<made, loadAll, causes>>
-----------------------------------------------------------------------------
Fetching(f) == ReadColumns(f) \/ ReadRest(f) \/ Arrives(f) \/ FetchFails(f)

StructureNext ==
  \/ \E p \in {"structure", "data"} : Mount(p)
  \/ \E f \in Fetches : Fetching(f)
  \/ AskAll \/ ReadAll \/ AllArrive
  \/ \E d \in Dialogs : OpenDialog(d) \/ Type(d) \/ Close(d)
  \/ \E s \in Submissions :
       \/ \E d \in Dialogs : SubmitDialog(s, d)
       \/ Ran(s) \/ Refused(s) \/ NextStatement(s)
       \/ SubmissionFails(s) \/ Succeeds(s) \/ Drops(s)

StructureSpec == StructureInit /\ [][StructureNext]_structureVars
-----------------------------------------------------------------------------
(* What may be expected of it *)

Changing(d) == \E s \in Submissions : sub[s].done > 0 /\ sub[s].dialog \in {d, "drop"}

\* The structure that is shown is that of the table, unless a change is under way, its last
\* reading has not come yet, a change failed halfway, a reading came after one that was
\* asked for later, or the indexes and foreign keys could not be read.
ShownForCause ==
  entry.status = "success" /\ ~(\E d \in Dialogs : Changing(d)) /\ Reading = {} =>
    \/ entry.columns = made.columns /\ entry.rest = made.rest
    \/ causes \cap {"failed", "overtaken", "blank"} # {}

\* The columns the grid and the editors work with are none or those of the table, unless a
\* change is under way, one failed halfway, or all columns were being loaded during one.
KnownForCause ==
  known \in {Unknown, made.columns} \/ Changing("column")
    \/ causes \cap {"failed", "overlapped"} # {}

\* What was typed into a dialog that stays open and drawn is not lost when an answer
\* arrives: of a reading of the structure, or of another dialog's submission.
TypedKept ==
  [][\A d \in typed \ typed' : d \notin dialog' \/ pane' # pane \/ entry'.status # "success"]_structureVars

\* "Loading structure" is shown only while the structure is being read: the entry of a
\* table never keeps others from asking when nobody has asked.
LoadingIsRead == entry.status = "loading" => Reading # {}
=============================================================================
