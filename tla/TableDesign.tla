----------------------------- MODULE TableDesign -----------------------------
(***************************************************************************)
(* The New Table tab: a form of columns, indexes and foreign keys, and the *)
(* statements it is made into.  The table and its indexes are one text;    *)
(* the foreign keys follow one by one.                                     *)
(*   frontend/src/workbench/tabs/NewTableTab/                              *)
(*   frontend/src/workbench/lib/databases/{postgres,mysql}/ddl.ts          *)
(* Of a column only its name and whether it is a key are kept; an index is *)
(* the set of its columns; a foreign key is its column and whether what it *)
(* refers to has been chosen.  At most one index is drawn.                 *)
(***************************************************************************)
EXTENDS Naturals, FiniteSets, SequencesExt

CONSTANTS
  ColumnNames, \* names a column may get
  MaxColumns,  \* columns of the form
  MaxForeign,  \* foreign keys of the form
  MaxEdits     \* changes of the form

ASSUME FormAssumption == MaxColumns \in Nat \ {0} /\ MaxForeign \in Nat /\ MaxEdits \in Nat

Unnamed == "unnamed"
NoTable == [there |-> FALSE, columns |-> {}, key |-> {}, indexes |-> {}, foreign |-> {}]

FormColumn == [name : ColumnNames \cup {Unnamed}, key : BOOLEAN]
FormForeignKey == [column : ColumnNames \cup {Unnamed}, chosen : BOOLEAN]
TableMade == [there : BOOLEAN, columns : SUBSET ColumnNames, key : SUBSET ColumnNames,
              indexes : SUBSET SUBSET ColumnNames, foreign : SUBSET ColumnNames]

VARIABLES
  engine,   \* PostgreSQL or MySQL
  form,     \* useNewTableForm
  edits,    \* changes made to it
  formTab,  \* whether its tab is open
  asked,    \* the form as it was when it was submitted
  step,     \* the statement under way: 0 makes the table, i adds the i-th foreign key
  base,     \* the database: the table of that name
  outcome   \* of the last submission, "running" while it runs

designVars == <<engine, form, edits, formTab, asked, step, base, outcome>>

EmptyForm == [named |-> FALSE, columns |-> <<[name |-> Unnamed, key |-> FALSE]>>,
              indexes |-> <<>>, foreign |-> <<>>]

IsForm(f) ==
  /\ f \in [named : BOOLEAN, columns : Seq(FormColumn), indexes : Seq(SUBSET ColumnNames),
            foreign : Seq(FormForeignKey)]
  /\ Len(f.columns) \in 1 .. MaxColumns /\ Len(f.indexes) <= 1 /\ Len(f.foreign) <= MaxForeign

DesignTypeOK ==
  /\ engine \in {"postgres", "mysql"}
  /\ IsForm(form) /\ IsForm(asked)
  /\ edits \in 0 .. MaxEdits /\ formTab \in BOOLEAN
  /\ step \in 0 .. MaxForeign
  /\ base \in TableMade
  /\ outcome \in {"none", "running", "made", "refused", "trouble", "halfway"}

DesignInit ==
  /\ engine \in {"postgres", "mysql"}
  /\ form = EmptyForm /\ asked = EmptyForm
  /\ edits = 0 /\ formTab = TRUE
  /\ step = 0 /\ base = NoTable /\ outcome = "none"
-----------------------------------------------------------------------------
(* What the form is made into *)

\* columnDefinitions: a column without a name is left out
Defined(f) == {i \in DOMAIN f.columns : f.columns[i].name # Unnamed}
Available(f) == {f.columns[i].name : i \in Defined(f)}
KeyColumns(f) == {i \in Defined(f) : f.columns[i].key}

\* Mutant: an index without columns as well
EveryIndex(f) == ToSet(f.indexes)

\* indexDefinitions: an index without columns is left out
DefinedIndexes(f) == ToSet(f.indexes) \ {{}}

\* The foreign keys in handleSubmit that come after the i-th: what is not complete is skipped
Complete(fk) == fk.column # Unnamed /\ fk.chosen
Left(f, i) == {j \in DOMAIN f.foreign : j > i /\ Complete(f.foreign[j])}

\* buildColumnDefinition writes PRIMARY KEY after every column of the key, and
\* buildCreateTableQuery once more when there are several
KeyClauses(f) ==
  LET keys == Cardinality(KeyColumns(f))
  IN  IF keys > 1 THEN keys + 1 ELSE keys

\* What the database makes of the text: nothing is made when any of it is refused.  The
\* query service sends MySQL one statement at a time.
Creatable(f) ==
  /\ ~base.there
  /\ \A i, j \in Defined(f) : f.columns[i].name = f.columns[j].name => i = j
  /\ KeyClauses(f) <= 1
  /\ \A columns \in DefinedIndexes(f) : columns # {} /\ columns \subseteq Available(f)
  /\ engine = "mysql" => DefinedIndexes(f) = {}

Created(f) ==
  [there |-> TRUE, columns |-> Available(f), key |-> {f.columns[i].name : i \in KeyColumns(f)},
   indexes |-> DefinedIndexes(f), foreign |-> {}]

\* generateForeignKeyName: two keys of one column get one name
Addable(fk) == fk.column \in base.columns \ base.foreign
-----------------------------------------------------------------------------
(* The form, which can be changed while it is being submitted too *)

Change(f) ==
  /\ formTab /\ edits < MaxEdits
  /\ form' = f /\ edits' = edits + 1
  /\ UNCHANGED <<engine, formTab, asked, step, base, outcome>>

NameTable == ~form.named /\ Change([form EXCEPT !.named = TRUE])

AddColumn ==
  /\ Len(form.columns) < MaxColumns
  /\ Change([form EXCEPT !.columns = Append(@, [name |-> Unnamed, key |-> FALSE])])

\* Mutant: without the condition of its button
RemoveAnyColumn(i) == Change([form EXCEPT !.columns = RemoveAt(@, i)])

\* The last column cannot be removed; what refers to it stays
RemoveColumn(i) ==
  /\ Len(form.columns) > 1
  /\ Change([form EXCEPT !.columns = RemoveAt(@, i)])

UpdateColumn(i, column) == Change([form EXCEPT !.columns[i] = column])

AddIndex == form.indexes = <<>> /\ Change([form EXCEPT !.indexes = <<{}>>])
RemoveIndex == form.indexes # <<>> /\ Change([form EXCEPT !.indexes = <<>>])

\* Only columns that are there can be put in or taken out
ToggleIndexColumn(name) ==
  /\ form.indexes # <<>> /\ name \in Available(form)
  /\ Change([form EXCEPT !.indexes[1] = SymDiff(@, {name})])

AddForeignKey ==
  /\ Len(form.foreign) < MaxForeign
  /\ Change([form EXCEPT !.foreign = Append(@, [column |-> Unnamed, chosen |-> FALSE])])

RemoveForeignKey(i) == Change([form EXCEPT !.foreign = RemoveAt(@, i)])

UpdateForeignKey(i, fk) ==
  /\ fk.column \in Available(form) \cup {Unnamed, form.foreign[i].column}
  /\ Change([form EXCEPT !.foreign[i] = fk])

Edits ==
  \/ NameTable \/ AddColumn \/ AddIndex \/ RemoveIndex \/ AddForeignKey
  \/ \E i \in DOMAIN form.columns : RemoveColumn(i) \/ \E c \in FormColumn : UpdateColumn(i, c)
  \/ \E name \in ColumnNames : ToggleIndexColumn(name)
  \/ \E i \in DOMAIN form.foreign :
       RemoveForeignKey(i) \/ \E fk \in FormForeignKey : UpdateForeignKey(i, fk)
-----------------------------------------------------------------------------
(* handleSubmit: it works with the form of the moment it was pressed *)

CreateTable ==
  /\ formTab /\ outcome # "running"
  /\ form.named /\ Defined(form) # {}
  /\ asked' = form /\ step' = 0 /\ outcome' = "running"
  /\ UNCHANGED <<engine, form, edits, formTab, base>>

\* loadSchemaAssets, closeTab, openTableTab
Finish == outcome' = "made" /\ formTab' = FALSE

\* The next foreign key after the i-th, if one is left
GoOn(i) ==
  IF Left(asked, i) = {}
  THEN Finish /\ UNCHANGED step
  ELSE step' = Min(Left(asked, i)) /\ UNCHANGED <<outcome, formTab>>

\* Mutant: going on to the foreign keys whatever the answer
CreateAnyway ==
  /\ outcome = "running" /\ step = 0
  /\ base' = IF Creatable(asked) THEN Created(asked) ELSE base
  /\ GoOn(0)
  /\ UNCHANGED <<engine, form, edits, asked>>

Create ==
  /\ outcome = "running" /\ step = 0
  /\ IF Creatable(asked)
     THEN base' = Created(asked) /\ GoOn(0)
     ELSE outcome' = "refused" /\ UNCHANGED <<base, step, formTab>>
  /\ UNCHANGED <<engine, form, edits, asked>>

\* Mutant: without looking at the answer
AddForeignAnyway ==
  /\ outcome = "running" /\ step > 0
  /\ LET fk == asked.foreign[step]
     IN  base' = IF Addable(fk) THEN [base EXCEPT !.foreign = @ \cup {fk.column}] ELSE base
  /\ GoOn(step)
  /\ UNCHANGED <<engine, form, edits, asked>>

\* "Table created but foreign key failed": the table stays, and so does the form
AddForeign ==
  /\ outcome = "running" /\ step > 0
  /\ LET fk == asked.foreign[step]
     IN  \/ /\ Addable(fk)
            /\ base' = [base EXCEPT !.foreign = @ \cup {fk.column}]
            /\ GoOn(step)
         \/ outcome' = "halfway" /\ UNCHANGED <<base, step, formTab>>
  /\ UNCHANGED <<engine, form, edits, asked>>

\* The connection fails: a statement may have run all the same
Trouble ==
  /\ outcome = "running" /\ outcome' = "trouble"
  /\ \/ UNCHANGED base
     \/ step = 0 /\ Creatable(asked) /\ base' = Created(asked)
  /\ UNCHANGED <<engine, form, edits, formTab, asked, step>>

\* handleCancel closes the tab; what has been submitted goes on
Cancel ==
  /\ formTab /\ formTab' = FALSE
  /\ UNCHANGED <<engine, form, edits, asked, step, base, outcome>>

DesignNext == Edits \/ CreateTable \/ Create \/ AddForeign \/ Trouble \/ Cancel
DesignSpec == DesignInit /\ [][DesignNext]_designVars
-----------------------------------------------------------------------------
(* What may be expected of it *)

\* What the form draws, read off the form and not off the statements
Drawn(f) ==
  LET named == {c \in ToSet(f.columns) : c.name # Unnamed}
  IN  [there |-> TRUE, columns |-> {c.name : c \in named}, key |-> {c.name : c \in {d \in named : d.key}},
       indexes |-> ToSet(f.indexes) \ {{}}, foreign |-> {fk.column : fk \in {g \in ToSet(f.foreign) : Complete(g)}}]

\* When the form is gone because the table was made, the table is what the form drew when it
\* was submitted, but for what was not complete.
MadeAsDrawn == outcome = "made" => base = Drawn(asked)

\* When a foreign key failed the table is there with all but some of the foreign keys.
HalfwayIsPart ==
  outcome = "halfway" => base = [Drawn(asked) EXCEPT !.foreign = base.foreign] /\ base.foreign \subseteq Drawn(asked).foreign

\* A form that can be submitted is refused only when its table is there already, two columns
\* share a name or belong to the key, an index has a column that was renamed or removed, or
\* MySQL was to make an index.
RefusedForCause ==
  outcome = "refused" =>
    \/ base.there
    \/ \E i, j \in DOMAIN asked.columns :
         /\ i # j /\ Unnamed \notin {asked.columns[i].name, asked.columns[j].name}
         /\ \/ asked.columns[i].name = asked.columns[j].name
            \/ asked.columns[i].key /\ asked.columns[j].key
    \/ \E columns \in ToSet(asked.indexes) : (engine = "mysql" /\ columns # {}) \/ ~(columns \subseteq Available(asked))
=============================================================================
