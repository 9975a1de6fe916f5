----------------------------- MODULE MCQueryRun -----------------------------
(***************************************************************************)
(* Instances of what runs and what sends SQL, for TLC.  A behaviour is one *)
(* of the query service, of a table's structure and its dialogs, of the    *)
(* picker of a foreign key, of a new table's form, of a column's form, of  *)
(* the keys and the history of an account or of its starred tables.        *)
(* The forms meet the rest only through statements that run or are         *)
(* refused, which each of them lets happen at any time, so nothing is lost *)
(* by taking them one at a time.                                           *)
(***************************************************************************)
EXTENDS QueryRun, StructureEdits, RefPicker, TableDesign, ColumnEdits,
        AccountBackend, StarredItems

VARIABLE part
formVars == <<structureVars, pickerVars, designVars, columnVars>>
accountVars == <<backendVars, starVars>>
allVars == <<part, vars, formVars, accountVars>>
OneColumn == [type |-> "int", nullable |-> TRUE, default |-> NoDefault, comment |-> NoComment]

AllInit ==
  /\ part \in {"query", "structure", "picker", "design", "column", "backend", "stars"}
  /\ Init /\ StructureInit /\ PickerInit /\ DesignInit /\ ColumnInit
  /\ BackendInit /\ StarsInit
  /\ part # "query" => ~may /\ ~auditing
  /\ part # "design" => engine = "mysql"
  /\ part # "column" => server = "mysql" /\ stored = OneColumn

AllNext ==
  /\ UNCHANGED part
  /\ \/ part = "query" /\ Next /\ UNCHANGED <<formVars, accountVars>>
     \/ /\ part = "structure" /\ StructureNext
        /\ UNCHANGED <<vars, pickerVars, designVars, columnVars, accountVars>>
     \/ /\ part = "picker" /\ PickerNext
        /\ UNCHANGED <<vars, structureVars, designVars, columnVars, accountVars>>
     \/ /\ part = "design" /\ DesignNext
        /\ UNCHANGED <<vars, structureVars, pickerVars, columnVars, accountVars>>
     \/ /\ part = "column" /\ ColumnNext
        /\ UNCHANGED <<vars, structureVars, pickerVars, designVars, accountVars>>
     \/ part = "backend" /\ BackendNext /\ UNCHANGED <<vars, formVars, starVars>>
     \/ part = "stars" /\ StarsNext /\ UNCHANGED <<vars, formVars, backendVars>>

AllSpec == AllInit /\ [][AllNext]_allVars /\ Fairness
-----------------------------------------------------------------------------
(* What is checked of the parts beside QueryRun, which has properties of its own *)

\* The structure and the columns that are shown are those of the table, the lists of a foreign
\* key those of the choice before them, but for the causes that are named; what was typed
\* into an open dialog survives every answer that arrives.  The history has the queries that
\* ended, the keys are kept, and what is starred is stored once, but for what is named.
WorkbenchTold ==
  /\ [](StructureTypeOK /\ ShownForCause /\ KnownForCause /\ LoadingIsRead)
  /\ [](PickerTypeOK /\ ChoiceFits /\ ListFits)
  /\ TypedKept
  /\ [](BackendTypeOK /\ MemoryIsShown /\ EndsAreShown) /\ KeysKept
  /\ [](StarsTypeOK /\ ShownIsStored /\ StarredOnce)

\* A table or a column that was saved is as its form drew it, one that failed halfway is a
\* part of it, and a refusal or a loss has one of the causes that are named.
StatementsFit ==
  /\ DesignTypeOK /\ MadeAsDrawn /\ HalfwayIsPart /\ RefusedForCause
  /\ ColumnTypeOK /\ SavedAsTyped /\ LostByModify /\ FailedIsPrefix
=============================================================================
