------------------------------ MODULE RowForms ------------------------------
(***************************************************************************)
(* What a person types for a cell and what the database then holds: the    *)
(* Add Row dialog, the Edit dialog and the editor inside a cell, down to   *)
(* the literal of the statement.                                           *)
(*   frontend/src/workbench/tabs/TableTab/components/dialogs               *)
(*   frontend/src/workbench/components/editors                             *)
(* One column at a time: the fields of a form do not touch each other.     *)
(***************************************************************************)
EXTENDS Naturals

Categories == {"text", "integer", "float", "boolean", "timestamp", "date", "json"}
Mangle == "[object Object]"

\* What may stand in an input: examples of what the parsers tell apart
Texts == {"", "word", "12", "12ab", "1.5", "true", "false", "{}", "NOW()", "CURRENT_DATE", Mangle}

\* A value of the page: its JavaScript type, and how it reads
AString(text) == [is |-> "string", of |-> text]
ANumber(text) == [is |-> "number", of |-> text]
ABoolean(text) == [is |-> "boolean", of |-> text]
AnObject(text) == [is |-> "object", of |-> text]
NullValue == [is |-> "null", of |-> ""]

\* ColumnInfo: what the introspection says of the column.  A server default is a call or a
\* constant the form knows; any other default is literal.
FormColumns == [category : Categories, nullable : BOOLEAN, default : {"none", "literal", "server"}]

VARIABLES
  column,  \* the column
  held,    \* the cell before
  form,    \* which form is open: none, add, dialog or cell
  field,   \* its state
  touched, \* anything typed or ticked since it opened
  cell     \* what the last form made of the cell: a value, or one of Words

formVars == <<column, held, form, field, touched, cell>>

\* ... or how the form ended without one
Word(how) == [is |-> how, of |-> ""]
Words == {Word(how) : how \in {"kept", "default", "refused", "none"}}
Field == [text : Texts, isNull : BOOLEAN, useDefault : BOOLEAN]

\* Cells of a column
Held(c) ==
  (IF c.nullable THEN {NullValue} ELSE {}) \cup
  CASE c.category = "text" -> {AString("word"), AString("")}
    [] c.category \in {"timestamp", "date"} -> {AString("word")}
    [] c.category = "integer" -> {ANumber("12")}
    [] c.category = "float" -> {ANumber("12"), ANumber("1.5")}
    [] c.category = "boolean" -> {ABoolean("true"), ABoolean("false")}
    [] c.category = "json" -> {AnObject("{}"), ANumber("12"), AString("word"), AString("12")}

FormTypeOK ==
  /\ column \in FormColumns /\ held \in Held(column)
  /\ form \in {"none", "add", "dialog", "cell"}
  /\ field \in Field /\ touched \in BOOLEAN
  /\ cell \in Words \cup [is : {"string", "number", "boolean", "null"}, of : Texts \cup {"1", "epoch"}]

Empty == [text |-> "", isNull |-> FALSE, useDefault |-> FALSE]

FormInit ==
  /\ column \in FormColumns
  /\ held \in Held(column)
  /\ form = "none" /\ field = Empty /\ touched = FALSE /\ cell = Word("none")
-----------------------------------------------------------------------------
(* The parsers *)

NaN == "NaN"
LeadingInteger(text) ==
  CASE text \in {"12", "12ab"} -> "12" [] text = "1.5" -> "1" [] OTHER -> NaN
LeadingFloat(text) ==
  CASE text \in {"12", "12ab"} -> "12" [] text = "1.5" -> "1.5" [] OTHER -> NaN

NumberOr(number, text) == IF number = NaN THEN AString(text) ELSE ANumber(number)

\* JSON.parse
Json(text) ==
  CASE text \in {"12", "1.5"} -> ANumber(text)
    [] text \in {"true", "false"} -> ABoolean(text)
    [] text = "{}" -> AnObject(text)
    [] OTHER -> AString(text)

\* Mutant: a float read as an integer
ByCategoryInteger(text, category) ==
  CASE category \in {"integer", "float"} -> NumberOr(LeadingInteger(text), text)
    [] category = "boolean" -> IF text \in {"true", "false"} THEN ABoolean(text) ELSE AString(text)
    [] category = "json" -> Json(text)
    [] OTHER -> AString(text)

ByCategory(text, category) ==
  CASE category = "integer" -> NumberOr(LeadingInteger(text), text)
    [] category = "float" -> NumberOr(LeadingFloat(text), text)
    [] category = "boolean" -> IF text \in {"true", "false"} THEN ABoolean(text) ELSE AString(text)
    [] category = "json" -> Json(text)
    [] OTHER -> AString(text)

\* parseValue of the editors
ParseEdit(text, c) ==
  IF text = "" /\ c.nullable THEN NullValue ELSE ByCategory(text, c.category)

\* parseValue of the Add Row dialog: calls become objects, digits a time
ParseAdd(text, c) ==
  IF text \in {"NOW()", "CURRENT_DATE"} THEN AnObject(text)
  ELSE IF c.category = "timestamp" /\ text = "12" THEN AString("epoch")
  ELSE ByCategory(text, c.category)

\* Mutant: keeping the object
InDatabaseAsGiven(value) == value

\* formatMutationValue and what the database reads back
InDatabase(value) == IF value.is = "object" THEN AString(Mangle) ELSE value

\* formatEditValue writes an object as JSON, the editor in a cell as String(value)
EditText(value) == value.of
CellText(value) == IF value.is = "object" THEN Mangle ELSE value.of
-----------------------------------------------------------------------------
Open(kind, start) ==
  /\ form = "none"
  /\ form' = kind /\ field' = start
  /\ touched' = FALSE /\ cell' = Word("none")
  /\ UNCHANGED <<column, held>>

OpenAdd ==
  Open("add", [text |-> "", isNull |-> column.nullable /\ column.default # "server",
               useDefault |-> column.default = "server"])
OpenDialog ==
  Open("dialog", [text |-> EditText(held), isNull |-> held = NullValue, useDefault |-> FALSE])
OpenCell == Open("cell", [Empty EXCEPT !.text = CellText(held)])

Set(new) ==
  /\ form # "none"
  /\ field' = new /\ touched' = TRUE
  /\ UNCHANGED <<column, held, form, cell>>

\* TypedInput: a boolean has two buttons in place of a text
Typeable(text) == column.category = "boolean" => text \in {"true", "false"}

\* The inputs: in the dialog the two buttons work whatever is ticked; a timestamp and a date
\* of the Add Row dialog have one for the call
Typed(text) ==
  /\ Typeable(text)
  /\ ~(field.isNull \/ field.useDefault) \/ (form = "dialog" /\ column.category = "boolean")
  /\ Set([field EXCEPT !.text = text])

ToggleNull ==
  /\ form \in {"add", "dialog"} /\ column.nullable
  /\ Set([field EXCEPT !.isNull = ~@, !.useDefault = FALSE])

\* Mutant: leaving the other flag
ToggleDefaultOnly ==
  /\ form \in {"add", "dialog"} /\ column.default # "none"
  /\ Set([field EXCEPT !.useDefault = ~@])

\* The dialog takes the other flag back only when it sets this one: they are never both set
ToggleDefault ==
  /\ form \in {"add", "dialog"} /\ column.default # "none"
  /\ Set([field EXCEPT !.useDefault = ~@, !.isNull = FALSE])

Close(result) ==
  /\ form' = "none" /\ cell' = result
  /\ UNCHANGED <<column, held, field, touched>>

\* A column that is left out of the INSERT
Omitted == IF column.nullable \/ column.default # "none" THEN Word("default") ELSE Word("refused")

\* handleSubmit, handleAddRowSubmit, buildInsertQuery
SubmitAdd ==
  /\ form = "add"
  /\ Close(IF field.useDefault THEN Word("default")
           ELSE IF field.isNull THEN NullValue
           ELSE IF field.text # "" THEN InDatabase(ParseAdd(field.text, column))
           ELSE IF column.nullable THEN NullValue
           ELSE Omitted)

\* EditCellDialog.handleSave; the UPDATE of a default alone is no statement
SaveDialog ==
  /\ form = "dialog"
  /\ Close(IF field.useDefault THEN Word("refused")
           ELSE IF field.isNull THEN NullValue
           ELSE InDatabase(ParseEdit(field.text, column)))

\* Mutant: without comparing
LeaveCellAlways ==
  /\ form = "cell"
  /\ Close(InDatabase(ParseEdit(field.text, column)))

\* RichCellEditor.handleSave: Enter, or a click anywhere else; compared as JSON, which
\* tells a string from a number and an object from its name
LeaveCell ==
  LET parsed == ParseEdit(field.text, column)
  IN  /\ form = "cell"
      /\ Close(IF parsed = held THEN Word("kept") ELSE InDatabase(parsed))

\* Set NULL and Set default of the menus
MenuNull == form = "none" /\ column.nullable /\ held # NullValue /\ Close(NullValue)
MenuDefault == form = "none" /\ column.default # "none" /\ Close(Word("refused"))

\* Cancel, Escape
CancelForm == form # "none" /\ Close(Word("kept"))

FormNext ==
  \/ OpenAdd \/ OpenDialog \/ OpenCell
  \/ \E text \in Texts : Typed(text)
  \/ ToggleNull \/ ToggleDefault
  \/ SubmitAdd \/ SaveDialog \/ LeaveCell
  \/ MenuNull \/ MenuDefault \/ CancelForm

FormSpec == FormInit /\ [][FormNext]_formVars
-----------------------------------------------------------------------------
(* What may be expected of the forms *)

\* No form says NULL and default at once.
OneFlag == ~(field.isNull /\ field.useDefault)

\* Leaving the editor in a cell without a change keeps the cell, unless it holds an object,
\* which becomes the name of its type, an empty string where NULL is allowed, or a string
\* of a JSON column that reads as something else.
LookingKeeps ==
  [][LeaveCell /\ ~touched =>
       \/ cell' = Word("kept")
       \/ held.is = "object"
       \/ held = AString("") /\ column.nullable
       \/ held = AString("12") /\ column.category = "json"]_formVars

\* How a text that was typed may be stored as another
Rewritten ==
  \/ column.category = "integer" /\ field.text \in {"12ab", "1.5"}
  \/ column.category = "float" /\ field.text = "12ab"
  \/ column.category = "json" /\ field.text = "{}"
  \/ form = "add" /\ field.text \in {"NOW()", "CURRENT_DATE"}
  \/ form = "add" /\ column.category = "timestamp" /\ field.text = "12"

\* What was typed is what is stored, whatever was ticked and unticked before; an empty text
\* is NULL where NULL is allowed.
StoresTyped ==
  [][(SubmitAdd \/ SaveDialog) /\ ~field.isNull /\ ~field.useDefault =>
       \/ cell' \notin Words /\ cell'.of = field.text
       \/ form = "add" /\ field.text = "" /\ cell' \in {Word("default"), Word("refused")}
       \/ Rewritten]_formVars
=============================================================================
