------------------------------ MODULE RefPicker ------------------------------
(***************************************************************************)
(* The column a new foreign key refers to: a schema is chosen, then one of *)
(* its tables, then one of its columns, and each choice loads the list of  *)
(* the next.                                                               *)
(*   frontend/src/workbench/tabs/TableTab/components/dialogs/              *)
(*     ForeignKeyModal.tsx                                                 *)
(***************************************************************************)
EXTENDS FiniteSets, Integers

CONSTANTS
  RefSchemas,  \* schemas of the database
  RefTables,   \* names of tables, the same in every schema
  Own,         \* the schema of the table that gets the key
  Loads        \* loads that are under way

ASSUME PickerAssumption == Own \in RefSchemas

None == "none"
Empty == [schema |-> None, table |-> None]
Tables == [schema : RefSchemas, table : RefTables]

VARIABLES
  picker,   \* open or not
  choice,   \* the form: a schema, a table of some schema, a column of some table
  tableList,   \* the schema whose tables are listed
  columnList,  \* the table whose columns are listed
  busy,     \* isLoadingTables, isLoadingColumns
  load,     \* what each load was asked for
  late      \* lists that a load for an earlier choice has filled

pickerVars == <<picker, choice, tableList, columnList, busy, load, late>>

NoChoice == [schema |-> None, table |-> Empty, column |-> Empty]
NoLoad == [kind |-> "free", of |-> Empty]

PickerTypeOK ==
  /\ picker \in BOOLEAN
  /\ choice \in [schema : RefSchemas \cup {None}, table : Tables \cup {Empty},
                 column : Tables \cup {Empty}]
  /\ choice.column # Empty => choice.table # Empty
  /\ tableList \in RefSchemas \cup {None} /\ columnList \in Tables \cup {Empty}
  /\ busy \subseteq {"tables", "columns"}
  /\ load \in [Loads -> [kind : {"free", "tables", "columns"},
                         of : [schema : RefSchemas, table : RefTables \cup {None}] \cup {Empty}]]
  /\ late \subseteq {"tables", "columns"}

PickerInit ==
  /\ picker = FALSE /\ choice = NoChoice
  /\ tableList = None /\ columnList = Empty
  /\ busy = {} /\ load = [l \in Loads |-> NoLoad] /\ late = {}
-----------------------------------------------------------------------------
\* The table a name stands for in the statement: that name in the chosen schema
Named(c) == [schema |-> c.schema, table |-> c.table.table]

\* Mutant: with the list open meanwhile
AskTablesQuietly(l, schema) ==
  /\ load[l].kind = "free"
  /\ load' = [load EXCEPT ![l] = [kind |-> "tables", of |-> [schema |-> schema, table |-> None]]]
  /\ UNCHANGED busy

\* The effect on refSchema: its tables are asked for
AskTables(l, schema) ==
  /\ load[l].kind = "free"
  /\ load' = [load EXCEPT ![l] = [kind |-> "tables", of |-> [schema |-> schema, table |-> None]]]
  /\ busy' = busy \cup {"tables"}

\* Opening it resets the form; the effects run when refSchema changes
OpenPicker ==
  /\ ~picker /\ picker' = TRUE
  /\ choice' = [NoChoice EXCEPT !.schema = Own]
  /\ columnList' = IF choice.schema = Own /\ choice.table = Empty THEN columnList ELSE Empty
  /\ IF choice.schema = Own THEN UNCHANGED <<load, busy>> ELSE \E l \in Loads : AskTables(l, Own)
  /\ UNCHANGED <<tableList, late>>

ClosePicker ==
  /\ picker /\ picker' = FALSE
  /\ UNCHANGED <<choice, tableList, columnList, busy, load, late>>

\* Mutant: without emptying what was chosen before
ChooseSchemaOnly(schema) ==
  /\ picker /\ choice.schema # schema
  /\ choice' = [choice EXCEPT !.schema = schema]
  /\ columnList' = Empty
  /\ \E l \in Loads : AskTables(l, schema)
  /\ UNCHANGED <<picker, tableList, late>>

\* A schema: table and column are emptied, the columns are emptied at once
ChooseSchema(schema) ==
  /\ picker /\ choice.schema # schema
  /\ choice' = [NoChoice EXCEPT !.schema = schema]
  /\ columnList' = Empty
  /\ \E l \in Loads : AskTables(l, schema)
  /\ UNCHANGED <<picker, tableList, late>>

ChooseNoSchema ==
  /\ picker /\ choice.schema # None
  /\ choice' = NoChoice
  /\ tableList' = None /\ columnList' = Empty
  /\ UNCHANGED <<picker, busy, load, late>>

\* One of the tables that are listed, not while they load: its columns are asked for by name
ChooseTable(table) ==
  /\ picker /\ choice.schema # None /\ "tables" \notin busy
  /\ tableList # None /\ choice.table.table # table
  /\ choice' = [choice EXCEPT !.table = [schema |-> tableList, table |-> table], !.column = Empty]
  /\ \E l \in Loads :
       /\ load[l].kind = "free"
       /\ load' = [load EXCEPT ![l] = [kind |-> "columns", of |-> Named(choice')]]
  /\ busy' = busy \cup {"columns"}
  /\ UNCHANGED <<picker, tableList, columnList, late>>

\* Mutant: with the column left behind
ChooseNoTableOnly ==
  /\ picker /\ choice.table # Empty
  /\ choice' = [choice EXCEPT !.table = Empty]
  /\ columnList' = Empty
  /\ UNCHANGED <<picker, tableList, busy, load, late>>

ChooseNoTable ==
  /\ picker /\ choice.table # Empty
  /\ choice' = [choice EXCEPT !.table = Empty, !.column = Empty]
  /\ columnList' = Empty
  /\ UNCHANGED <<picker, tableList, busy, load, late>>

\* One of the columns that are listed
ChooseColumn ==
  /\ picker /\ choice.table # Empty /\ "columns" \notin busy /\ columnList # Empty
  /\ choice' = [choice EXCEPT !.column = columnList]
  /\ UNCHANGED <<picker, tableList, columnList, busy, load, late>>

\* The tables arrive, or an empty list when they could not be read: of whichever schema
\* they were asked for
TablesArrive(l) ==
  /\ load[l].kind = "tables"
  /\ tableList' \in {load[l].of.schema, None}
  /\ busy' = busy \ {"tables"}
  /\ late' = IF load[l].of.schema # choice.schema \/ (\E k \in Loads \ {l} : load[k].kind = "tables")
             THEN late \cup {"tables"} ELSE late
  /\ load' = [load EXCEPT ![l] = NoLoad]
  /\ UNCHANGED <<picker, choice, columnList>>

ColumnsArrive(l) ==
  /\ load[l].kind = "columns"
  /\ columnList' \in {load[l].of, Empty}
  /\ busy' = busy \ {"columns"}
  /\ late' = IF load[l].of # Named(choice) \/ (\E k \in Loads \ {l} : load[k].kind = "columns")
             THEN late \cup {"columns"} ELSE late
  /\ load' = [load EXCEPT ![l] = NoLoad]
  /\ UNCHANGED <<picker, choice, tableList>>

PickerNext ==
  \/ OpenPicker \/ ClosePicker \/ ChooseNoSchema \/ ChooseNoTable \/ ChooseColumn
  \/ \E schema \in RefSchemas : ChooseSchema(schema)
  \/ \E table \in RefTables : ChooseTable(table)
  \/ \E l \in Loads : TablesArrive(l) \/ ColumnsArrive(l)

PickerSpec == PickerInit /\ [][PickerNext]_pickerVars
-----------------------------------------------------------------------------
(* What may be expected of it *)

\* The table that was chosen is one of the schema that is chosen, and the column one of
\* that table, unless a list was filled by a load for an earlier choice, or by one of two
\* that were under way at once: nothing keeps a late answer from its list.
ChoiceFits ==
  /\ choice.table # Empty /\ "tables" \notin late => choice.table.schema = choice.schema
  /\ choice.column # Empty /\ late = {} => choice.column = choice.table

\* A list is open to be chosen from only when it is that of the choice before it, but for
\* those late loads.
ListFits ==
  /\ picker /\ choice.schema # None /\ "tables" \notin busy \cup late => tableList \in {None, choice.schema}
  /\ picker /\ choice.table # Empty /\ "columns" \notin busy \cup late => columnList \in {Empty, Named(choice)}
=============================================================================
