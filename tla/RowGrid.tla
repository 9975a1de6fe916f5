------------------------------ MODULE RowGrid -------------------------------
(***************************************************************************)
(* The grid of a table tab and what stands on it: ticks, the details pane  *)
(* and the open editor, while the rows are read again underneath.  What    *)
(* becomes of the changes it asks for is RowQueue.                         *)
(*   frontend/src/workbench/tabs/TableTab/components/grid, panes, dialogs  *)
(* Ticks and editors keep the INDEX of a row; the model remembers beside   *)
(* it which row the person saw there.                                      *)
(***************************************************************************)
EXTENDS Naturals, FiniteSets, SequencesExt

CONSTANT GridRows \* the rows the table starts with

ASSUME GridAssumption == IsFiniteSet(GridRows)

NoRow == "no row"

VARIABLES
  present,  \* the rows of the table
  grid,     \* store: rows
  gridStatus,   \* store: status, as far as the rows go
  ticked,   \* store: selectedRowIndices, with the row that was ticked there
  details,  \* store: detailsRow
  editor,   \* editingCell, editDialogCell: the index, the row that stood there
  asked     \* what this step put into the queue: the row it is about, the row meant, the way

gridVars == <<present, grid, gridStatus, ticked, details, editor, asked>>

NoEditor == [kind |-> "none", index |-> 0, row |-> NoRow]
Change == [row : GridRows, meant : GridRows, by : {"row", "details", "cell", "dialog", "selection"}]

GridTypeOK ==
  /\ present \subseteq GridRows
  /\ grid \in Seq(GridRows) /\ gridStatus \in {"success", "loading", "error"}
  /\ ticked \subseteq (Nat \X GridRows) /\ \A t, u \in ticked : t[1] = u[1] => t = u
  /\ details \in GridRows \cup {NoRow}
  /\ editor \in [kind : {"none", "cell", "dialog"}, index : Nat, row : GridRows \cup {NoRow}]
  /\ asked \subseteq Change

GridInit ==
  /\ present = GridRows
  /\ grid \in SetToSeqs(GridRows)
  /\ gridStatus = "success" /\ ticked = {} /\ details = NoRow /\ editor = NoEditor
  /\ asked = {}
-----------------------------------------------------------------------------
Indices == 1 .. Cardinality(GridRows)
Standing == {<<i, grid[i]>> : i \in DOMAIN grid}
Chosen == {t[1] : t \in ticked}

\* A modal dialog is before the page
Covered == editor.kind = "dialog"

\* useTableTabMutations().queue
AskChange(row, meant, by) == asked' = {[row |-> row, meant |-> meant, by |-> by]}

\* Mutant: without the effect on isMultiSelect
TickOnly(new) ==
  /\ ~Covered
  /\ ticked' = new
  /\ UNCHANGED <<present, grid, gridStatus, details, editor>>

\* handleRowCheckboxClick, handleSelectAllChange: what is ticked; more than one row
\* ends the details and the editing
Tick(new) ==
  /\ ~Covered
  /\ ticked' = new
  /\ IF Cardinality(new) > 1
     THEN details' = NoRow /\ editor' = NoEditor
     ELSE UNCHANGED <<details, editor>>
  /\ UNCHANGED <<present, grid, gridStatus>>

ToggleRow(i) ==
  /\ i \in DOMAIN grid
  /\ Tick(IF i \in Chosen THEN {t \in ticked : t[1] # i} ELSE ticked \cup {<<i, grid[i]>>})

\* Mutant: also the rows that are ticked
TickWholeRange(i, j) ==
  /\ i \in DOMAIN grid /\ j \in DOMAIN grid /\ i < j
  /\ Tick(ticked \cup {t \in Standing : t[1] \in i .. j})

\* With shift: from the row clicked before, which may be any, to this one
TickRange(i, j) ==
  /\ i \in DOMAIN grid /\ j \in DOMAIN grid /\ i < j
  /\ Tick(ticked \cup {t \in Standing : t[1] \in i .. j /\ t[1] \notin Chosen})

TickAll ==
  /\ grid # <<>>
  /\ Tick(IF Cardinality(ticked) = Len(grid) THEN {} ELSE Standing)

\* handleShowDetails
ShowDetails(i) ==
  /\ ~Covered /\ i \in DOMAIN grid /\ Cardinality(ticked) <= 1
  /\ details' = grid[i]
  /\ UNCHANGED <<present, grid, gridStatus, ticked, editor>>

\* DetailsPane.handleCellEdit keeps the row it shows, whatever the grid does
EditDetails ==
  /\ ~Covered /\ details # NoRow
  /\ AskChange(details, details, "details")
  /\ UNCHANGED <<present, grid, gridStatus, ticked, details, editor>>

\* The menus of a cell and of a row: Set NULL, Set default, Delete row
EditRow(i) ==
  /\ ~Covered /\ i \in DOMAIN grid
  /\ AskChange(grid[i], grid[i], "row")
  /\ editor' = NoEditor
  /\ UNCHANGED <<present, grid, gridStatus, ticked, details>>

\* handleStartEdit, handleOpenEditDialog: one of the two is open
OpenEditor(i, kind) ==
  /\ ~Covered /\ i \in DOMAIN grid /\ Cardinality(ticked) <= 1
  /\ editor' = [kind |-> kind, index |-> i, row |-> grid[i]]
  /\ UNCHANGED <<present, grid, gridStatus, ticked, details>>

\* handleDialogSave, handleCellEdit: the row that stands at the index now
SaveEditor ==
  /\ editor # NoEditor
  /\ IF editor.index \in DOMAIN grid
     THEN AskChange(grid[editor.index], editor.row, editor.kind)
     ELSE asked' = {}
  /\ editor' = NoEditor
  /\ UNCHANGED <<present, grid, gridStatus, ticked, details>>

CancelEditor ==
  /\ editor # NoEditor
  /\ editor' = NoEditor
  /\ UNCHANGED <<present, grid, gridStatus, ticked, details>>

\* handleDeleteSelectedRows: the rows that stand at the ticked indices now
DeleteSelected ==
  /\ ~Covered /\ ticked # {}
  /\ asked' = {[row |-> grid[t[1]], meant |-> t[2], by |-> "selection"] :
                t \in {u \in ticked : u[1] \in DOMAIN grid}}
  /\ ticked' = {}
  /\ UNCHANGED <<present, grid, gridStatus, details, editor>>
-----------------------------------------------------------------------------
(* Reading the table again: TableTab models the requests, here only what they leave *)

\* A save or anyone else deletes a row or puts it back
TableChanges(r) ==
  /\ present' = IF r \in present THEN present \ {r} ELSE present \cup {r}
  /\ UNCHANGED <<grid, gridStatus, ticked, details, editor>>

\* A page, a filter, Refresh, the end of a save: fetchData
Refetch ==
  /\ gridStatus # "loading"
  /\ gridStatus' = "loading"
  /\ UNCHANGED <<present, grid, ticked, details, editor>>

\* Mutant: without that effect
KeptAlways(new) == editor

\* The effect on rows.length: the editor in the cell, not the dialog
Kept(new) == IF editor.kind = "cell" /\ Len(new) # Len(grid) THEN NoEditor ELSE editor

\* updateStreamingData: the rows so far, in whatever order; ticks stay where they are
RowsArrive(R) ==
  /\ gridStatus = "loading"
  /\ grid' \in SetToSeqs(R)
  /\ editor' = Kept(grid')
  /\ UNCHANGED <<present, gridStatus, ticked, details>>

\* Mutant: without clearing the ticks
RowsEndOnly ==
  /\ gridStatus = "loading"
  /\ gridStatus' = "success"
  /\ grid' \in SetToSeqs(present)
  /\ editor' = Kept(grid')
  /\ UNCHANGED <<present, ticked, details>>

\* setDataSuccess: all rows, and the ticks are cleared
RowsEnd ==
  /\ gridStatus = "loading"
  /\ gridStatus' = "success"
  /\ ticked' = {}
  /\ grid' \in SetToSeqs(present)
  /\ editor' = Kept(grid')
  /\ UNCHANGED <<present, details>>

\* setDataError leaves all as it is
RowsFail ==
  /\ gridStatus = "loading"
  /\ gridStatus' = "error"
  /\ UNCHANGED <<present, grid, ticked, details, editor>>
-----------------------------------------------------------------------------
Looks ==
  \/ \E i \in Indices :
       ToggleRow(i) \/ ShowDetails(i) \/ OpenEditor(i, "cell") \/ OpenEditor(i, "dialog")
  \/ \E i, j \in Indices : TickRange(i, j)
  \/ TickAll \/ CancelEditor
  \/ \E r \in GridRows : TableChanges(r)
  \/ Refetch \/ RowsEnd \/ RowsFail
  \/ \E R \in SUBSET present : RowsArrive(R)

GridNext ==
  \/ Looks /\ asked' = {}
  \/ (\E i \in Indices : EditRow(i)) \/ EditDetails \/ SaveEditor \/ DeleteSelected

GridSpec == GridInit /\ [][GridNext]_gridVars
-----------------------------------------------------------------------------
(* What may be expected of it *)

\* The editor in a cell stands on a row: it does not outlive its row's place.  The dialog
\* may, and what is saved in it is then lost without a word.
CellHasRow == editor.kind = "cell" => editor.index \in DOMAIN grid

\* With more than one row ticked nothing is shown in detail and nothing is being edited.
TickedAlone == Cardinality(ticked) > 1 => details = NoRow /\ editor = NoEditor

\* A tick stands on another row than was ticked only while rows stream in, or when that
\* broke off: the whole table clears the ticks.
TicksFresh == ticked \subseteq Standing \/ gridStatus # "success"

\* A change is about the row that was meant, whatever happened to the grid since, except
\* through an editor that stayed open, and by the ticks of a grid that is not whole.
MeantRows ==
  [][\A c \in asked' : \/ c.row = c.meant
                        \/ c.by \in {"cell", "dialog"}
                        \/ (c.by = "selection" /\ gridStatus # "success")]_gridVars
=============================================================================
