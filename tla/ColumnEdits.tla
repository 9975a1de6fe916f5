----------------------------- MODULE ColumnEdits -----------------------------
(***************************************************************************)
(* The Edit Column dialog: what differs from the column it was opened with *)
(* becomes an ALTER TABLE and perhaps a COMMENT, which run one by one.     *)
(*   frontend/src/workbench/tabs/TableTab/components/dialogs/              *)
(*     ColumnModal.tsx                                                     *)
(*   frontend/src/workbench/lib/databases/{postgres,mysql}/ddl.ts          *)
(***************************************************************************)
EXTENDS Sequences, Naturals

CONSTANTS
  DataTypes,  \* types a column may have
  Fallback,   \* VARCHAR(255)
  Defaults,   \* default values
  Comments,   \* comments
  MaxTries    \* submissions of the dialog

ASSUME FallbackAssumption == Fallback \in DataTypes /\ MaxTries \in Nat

NoDefault == "no default"
NoComment == "no comment"
Unset == "unset"

\* ColumnInfo, as far as the dialog shows it
Column == [type : DataTypes, nullable : BOOLEAN, default : Defaults \cup {NoDefault},
           comment : Comments \cup {NoComment}]

VARIABLES
  server,  \* PostgreSQL or MySQL
  stored,  \* the column in the database
  opened,  \* the column the dialog was opened with
  typedIn, \* the fields of the dialog
  todo,    \* the statements still to be run
  state,   \* "typing", "running", "saved", "closed" or "failed"
  tries,   \* submissions
  halfway  \* one of them failed after a statement had run

columnVars == <<server, stored, opened, typedIn, todo, state, tries, halfway>>

ColumnTypeOK ==
  /\ server \in {"postgres", "mysql"}
  /\ stored \in Column /\ opened \in Column /\ typedIn \in Column
  /\ todo \in Seq({"alter", "comment"}) /\ Len(todo) <= 2
  /\ state \in {"typing", "running", "saved", "closed", "failed"}
  /\ tries \in 0 .. MaxTries /\ halfway \in BOOLEAN

ColumnInit ==
  /\ server \in {"postgres", "mysql"}
  /\ stored \in Column /\ opened = stored /\ typedIn = opened
  /\ todo = <<>> /\ state = "typing" /\ tries = 0 /\ halfway = FALSE
-----------------------------------------------------------------------------
Differs(field) == typedIn[field] # opened[field]
Altered == {"type", "nullable", "default"}

\* Mutant: saving the comment before the rest
StatementsTurned ==
  (IF Differs("comment") THEN <<"comment">> ELSE <<>>)
    \o (IF \E field \in Altered : Differs(field) THEN <<"alter">> ELSE <<>>)

\* sqlPreview: what is to be run, "-- No changes" when there is nothing
Statements ==
  (IF \E field \in Altered : Differs(field) THEN <<"alter">> ELSE <<>>)
    \o (IF Differs("comment") THEN <<"comment">> ELSE <<>>)

\* Mutant: a default that was emptied is not dropped
AlteredKeepingDefault(column) ==
  [column EXCEPT !.type = typedIn.type, !.nullable = typedIn.nullable,
                 !.default = IF typedIn.default = NoDefault THEN @ ELSE typedIn.default]

\* Mutant: it is set to undefined
AlteredUndefined(column) ==
  [column EXCEPT !.type = typedIn.type, !.nullable = typedIn.nullable,
                 !.default = IF Differs("default") /\ typedIn.default = NoDefault THEN Unset ELSE typedIn.default]

\* buildAlterColumnQuery for PostgreSQL: one action for every field that differs
AlteredPostgres(column) ==
  [column EXCEPT !.type = typedIn.type, !.nullable = typedIn.nullable, !.default = typedIn.default]

\* Mutant: with MODIFY for whatever differs
AlteredMySQLAlways(column) ==
  [column EXCEPT !.type = IF Differs("type") THEN typedIn.type ELSE Fallback,
                 !.nullable = IF Differs("nullable") THEN typedIn.nullable ELSE TRUE,
                 !.default = IF Differs("default") THEN typedIn.default ELSE NoDefault,
                 !.comment = NoComment]

\* buildAlterColumnQuery for MySQL: MODIFY COLUMN defines the column anew from what
\* differs; what it does not say is gone
AlteredMySQL(column) ==
  LET modified == [column EXCEPT !.type = IF Differs("type") THEN typedIn.type ELSE Fallback,
                                 !.nullable = IF Differs("nullable") THEN typedIn.nullable ELSE TRUE,
                                 !.default = NoDefault, !.comment = NoComment]
      modify == Differs("type") \/ Differs("nullable")
  IN  [(IF modify THEN modified ELSE column) EXCEPT
         !.default = IF Differs("default") THEN typedIn.default ELSE @]

Effect(statement, column) ==
  IF statement = "comment" THEN [column EXCEPT !.comment = typedIn.comment]
  ELSE IF server = "mysql" THEN AlteredMySQL(column)
  ELSE AlteredPostgres(column)

\* MySQL has no COMMENT ON
Possible(statement) == ~(server = "mysql" /\ statement = "comment")
-----------------------------------------------------------------------------
TypeIn(field, value) ==
  /\ state \in {"typing", "failed"} /\ typedIn[field] # value
  /\ typedIn' = [typedIn EXCEPT ![field] = value]
  /\ state' = "typing"
  /\ UNCHANGED <<server, stored, opened, todo, tries, halfway>>

TypeAny ==
  \/ \E value \in DataTypes : TypeIn("type", value)
  \/ \E value \in BOOLEAN : TypeIn("nullable", value)
  \/ \E value \in Defaults \cup {NoDefault} : TypeIn("default", value)
  \/ \E value \in Comments \cup {NoComment} : TypeIn("comment", value)

\* handleSubmit, which compares with the column the dialog was opened with, also after a
\* failure: nothing to execute closes the dialog
SubmitColumn ==
  /\ state \in {"typing", "failed"} /\ tries < MaxTries
  /\ todo' = Statements
  /\ state' = IF Statements = <<>> THEN "closed" ELSE "running"
  /\ tries' = tries + 1
  /\ UNCHANGED <<server, stored, opened, typedIn, halfway>>

\* Each statement on its own, until one fails
RunStatement ==
  /\ state = "running"
  /\ \/ /\ Possible(Head(todo))
        /\ stored' = Effect(Head(todo), stored)
        /\ todo' = Tail(todo)
        /\ state' = IF Tail(todo) = <<>> THEN "saved" ELSE "running"
        /\ UNCHANGED halfway
     \/ /\ state' = "failed"
        /\ halfway' = (halfway \/ Len(todo) < Len(Statements))
        /\ UNCHANGED <<stored, todo>>
  /\ UNCHANGED <<server, opened, typedIn, tries>>

ColumnNext == TypeAny \/ SubmitColumn \/ RunStatement
ColumnSpec == ColumnInit /\ [][ColumnNext]_columnVars
-----------------------------------------------------------------------------
(* What may be expected of it *)

\* On PostgreSQL a column that was saved is as the dialog showed it, unless an earlier try
\* failed halfway: then what it had changed is not undone by typing the old value again.
SavedAsTyped == state \in {"saved", "closed"} /\ server = "postgres" => stored = typedIn \/ halfway

\* On MySQL a field that was not touched may be lost, but only with a MODIFY, and only to
\* what MODIFY makes of a field it does not say: VARCHAR(255), nullable, nothing.
LostByModify ==
  state = "saved" /\ server = "mysql" /\ tries = 1 =>
    /\ \A field \in Altered : Differs(field) => stored[field] = typedIn[field]
    /\ stored = typedIn \/ Differs("type") \/ Differs("nullable")
    /\ stored.type \in {typedIn.type, Fallback} /\ stored.nullable \in {typedIn.nullable, TRUE}
    /\ stored.default \in {typedIn.default, NoDefault} /\ stored.comment \in {typedIn.comment, NoComment}

\* When the first try failed, what came before the failed statement has been done and what
\* comes after it has not: a comment is never saved without the rest.
FailedIsPrefix ==
  state = "failed" /\ tries = 1 => stored = IF halfway THEN Effect("alter", opened) ELSE opened
=============================================================================
