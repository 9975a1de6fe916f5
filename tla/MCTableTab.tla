----------------------------- MODULE MCTableTab -----------------------------
(***************************************************************************)
(* Instances of the parts of a table's tab, for TLC.  A behaviour is one   *)
(* of the rows that are fetched, of the grid, of the queue of changes, of  *)
(* a form, of the filters, of one filter's condition or of the tabs.  The  *)
(* parts meet only in what each takes as an input that may change at any   *)
(* time (rows for the grid, entries for the queue, a fetch for the         *)
(* filters, work for the tabs), so nothing is lost by taking them one at a *)
(* time.                                                                   *)
(***************************************************************************)
EXTENDS TableTab, RowGrid, RowQueue, RowForms, TableFilters, FilterSql, WorkbenchTabs

CONSTANTS r1, r2, r3, k1, k2

VARIABLE part

\* Two rows that share the first column of their key, and one of its own
SharedKey == (r1 :> k1) @@ (r2 :> k1) @@ (r3 :> k2)

\* A word in both cases, what SQL and LIKE treat as special, a list and blanks
SomeTexts == {<<>>, <<"a">>, <<"A">>, <<"%">>, <<"'">>, <<"\\">>, <<"a", "A">>, <<" ", "a">>,
              <<"a", ",", "A">>, <<"'", "a">>, <<"a", "'">>, <<"\\", "a">>, <<"\\", "%">>,
              <<"%", "a">>, <<"'", "'">>, <<"\\", "\\">>}

OneColumn == [category |-> "text", nullable |-> TRUE, default |-> "none"]

MCInit ==
  /\ part \in {"tab", "grid", "queue", "forms", "filters", "condition", "tabs"}
  /\ Init /\ GridInit /\ QueueInit /\ FormInit /\ FiltersInit /\ FilterInit /\ TabsInit
  /\ part # "grid" => grid = <<r1, r2>>
  /\ part # "forms" => column = OneColumn /\ held = NullValue
  /\ part # "tab" => window = CHOOSE w \in Windows \ Manual : TRUE
  /\ part # "filters" => config = <<>>
  /\ part # "condition" => server = "mysql" /\ typed = <<>>

MCNext ==
  \/ part = "tab" /\ Next /\ UNCHANGED <<part, gridVars, queueVars, formVars, filtersVars, conditionVars, tabsVars>>
  \/ part = "grid" /\ GridNext /\ UNCHANGED <<part, vars, queueVars, formVars, filtersVars, conditionVars, tabsVars>>
  \/ part = "queue" /\ QueueNext /\ UNCHANGED <<part, vars, gridVars, formVars, filtersVars, conditionVars, tabsVars>>
  \/ part = "forms" /\ FormNext /\ UNCHANGED <<part, vars, gridVars, queueVars, filtersVars, conditionVars, tabsVars>>
  \/ part = "filters" /\ FiltersNext /\ UNCHANGED <<part, vars, gridVars, queueVars, formVars, conditionVars, tabsVars>>
  \/ part = "condition" /\ FilterNext /\ UNCHANGED <<part, vars, gridVars, queueVars, formVars, filtersVars, tabsVars>>
  \/ part = "tabs" /\ TabsNext /\ UNCHANGED <<part, vars, gridVars, queueVars, formVars, filtersVars, conditionVars>>

MCSpec ==
  /\ MCInit /\ [][MCNext]_<<part, vars, gridVars, queueVars, formVars, filtersVars, conditionVars, tabsVars>>
  /\ Fairness
-----------------------------------------------------------------------------
(* What is checked of the parts beside TableTab, which has properties of its own *)

\* Changes reach the rows they were meant for, once, in order and as typed, but for the causes
\* that are named; what is ticked or being edited stands on rows of the grid; looking at a row
\* changes nothing.
EditsReach ==
  /\ [](GridTypeOK /\ CellHasRow /\ TickedAlone /\ TicksFresh)
  /\ [](QueueTypeOK /\ SavedIsApplied /\ RepeatedForCause /\ LostForCause /\ InOrder)
  /\ [](FormTypeOK /\ OneFlag)
  /\ MeantRows /\ LookingKeeps /\ StoresTyped

\* What the grid shows of the changes that are queued is what a save makes of the table, and the
\* rows that a filter keeps are those its label says.
ShownIsDone == ShownIsSaved /\ KeepsAsLabelled

\* Rows are asked for as the chips, the raw SQL and the page show it, and the chips are those
\* a star or a link wanted, but for the named causes; a filter has an operator of its column.
FiltersAsked ==
  /\ FiltersTypeOK /\ AskedAsShown /\ WantedIsShown /\ CountedIsWhole
  /\ FilterTypeOK

\* An id has one tab; work that is not saved is lost with its tab only, one tab at a time,
\* and the tab that is shown is the one that was meant.
WorkKept == [](TabsTypeOK /\ EditedIsPinned) /\ UnsavedKept /\ ShownIsMeant

\* What a tab asks for is what it shows, and what was done in it is kept as long as the tab.
AskedAndKept == []FiltersAsked /\ WorkKept
=============================================================================
