---------------------------- MODULE EditDialogs ----------------------------
(***************************************************************************)
(* The dialogs in which an admin edits an account, a database or a group   *)
(* or makes a new one, the one that requests access, and the form of the   *)
(* workspace's details.                                                    *)
(*                                                                         *)
(* A dialog is filled when it is opened, from the row the page has in its  *)
(* cache; the form of a database and of the workspace is filled again when *)
(* that row changes.  A submission sends every field.  While it is under   *)
(* way Cancel is disabled, the fields and the Escape key are not, and its  *)
(* success closes what is open by then.                                    *)
(***************************************************************************)
EXTENDS Naturals, FiniteSets

CONSTANTS
  Entries,          \* accounts or groups of the page
  MaxSubmits,       \* submissions under way at a time
  MaxEdits          \* edits by another admin, and rows created

ASSUME EditDialogAssumption == {"new", "none"} \cap Entries = {} /\ MaxEdits \in Nat

VARIABLES
  form,       \* which of the forms
  on,         \* the entries its page shows
  entry,      \* the rows in the database
  listed,     \* the rows in the cache
  subject,    \* what is open: an entry, "new" or "none"
  seen,       \* the values it was filled from
  fields,     \* what the fields show
  touched,    \* the fields typed in since
  submits,    \* the submissions under way
  edits, created

editDialogVars == <<form, on, entry, listed, subject, seen, fields, touched, submits, edits, created>>

Forms == {"account", "database", "group", "request", "workspace"}

\* The name stands for what is typed, the tag for the access level, the environment or the
\* domain whose users may join; "other" is the tag a form may not offer
Names == {1, 2}
Tags == {"none", "first", "other"}
Values == [name : Names, tag : Tags]
Blank0 == [name |-> 0, tag |-> "none"]
NoValues == [name |-> 1, tag |-> "none"]

Submission == [of : Entries \cup {"new"}, values : Values, touched : SUBSET {"name", "tag"},
               seen : Values \cup {Blank0}, watched : BOOLEAN, pc : {"sent", "done"}]

Tagged == form \in {"account", "database", "workspace"}
-----------------------------------------------------------------------------
(***************************************************************************)
(* How each form shows a row                                               *)
(***************************************************************************)
\* An account without a level is shown with the first
AccountFields(v) == [v EXCEPT !.tag = IF v.tag = "none" THEN "first" ELSE v.tag]

DatabaseFields(v) == v

GroupFields(v) == v

\* Whether any domain may join, shown as if it were the admin's own
WorkspaceFields(v) == [v EXCEPT !.tag = IF v.tag = "none" THEN "none" ELSE "first"]

FieldsOf(v) ==
  CASE form = "account" -> AccountFields(v)
    [] form = "workspace" -> WorkspaceFields(v)
    [] form = "database" -> DatabaseFields(v)
    [] OTHER -> GroupFields(v)

\* The form is filled again when the row in the cache changes
Live == form \in {"database", "workspace"}

FirstTags ==
  CASE form = "workspace" -> {"none", "other"}
    [] form \in {"account", "database"} -> {"none", "first"}
    [] OTHER -> {"none"}

EditDialogInit ==
  /\ form \in Forms
  /\ on \in CASE form = "group" -> {Entries}
              [] form = "request" -> {{}}
              [] OTHER -> {{e} : e \in Entries}
  /\ entry \in [Entries -> {[name |-> 1, tag |-> t] : t \in FirstTags}]
  /\ \A e \in Entries \ on : entry[e] = NoValues
  /\ listed = entry
  /\ subject \in IF form = "workspace" THEN on ELSE {"none"}
  /\ seen = IF form = "workspace" THEN listed[subject] ELSE Blank0
  /\ fields = IF form = "workspace" THEN WorkspaceFields(seen) ELSE Blank0
  /\ touched = {} /\ submits = {} /\ edits = 0 /\ created = 0
-----------------------------------------------------------------------------
(***************************************************************************)
(* The user                                                                *)
(***************************************************************************)
FilledFrom(e, v) ==
  /\ subject' = e /\ seen' = v /\ touched' = {}
  /\ fields' = IF e = "new" THEN Blank0 ELSE FieldsOf(v)

\* Mutant: the dialog is filled once, when the page is
OpenFilledOnce ==
  /\ subject = "none"
  /\ \E e \in on :
       /\ subject' = e /\ seen' = listed[e] /\ touched' = {}
       /\ fields' = IF fields = Blank0 THEN FieldsOf(listed[e]) ELSE fields
  /\ UNCHANGED <<form, on, entry, listed, submits, edits, created>>

OpenDialog ==
  /\ subject = "none"
  /\ \E e \in on : FilledFrom(e, listed[e])
  /\ UNCHANGED <<form, on, entry, listed, submits, edits, created>>

OpenNew ==
  /\ subject = "none" /\ form \in {"account", "group", "request"}
  /\ FilledFrom("new", Blank0)
  /\ UNCHANGED <<form, on, entry, listed, submits, edits, created>>

TypeName ==
  /\ subject # "none" /\ "name" \notin touched
  /\ \E n \in Names \ {fields.name} : fields' = [fields EXCEPT !.name = n]
  /\ touched' = touched \cup {"name"}
  /\ UNCHANGED <<form, on, entry, listed, subject, seen, submits, edits, created>>

ChooseTag ==
  /\ subject # "none" /\ Tagged /\ "tag" \notin touched
  /\ \E t \in Tags \ {fields.tag} :
       /\ form = "account" => t # "none"
       /\ form = "workspace" => t # "other"
       /\ fields' = [fields EXCEPT !.tag = t]
  /\ touched' = touched \cup {"tag"}
  /\ UNCHANGED <<form, on, entry, listed, subject, seen, submits, edits, created>>

\* The mutation of an edit and that of a new row are two
Same(c, s) == (c.of = "new") = (s = "new")

Watching(s) == \E c \in submits : Same(c, s) /\ c.watched

\* reset() makes the mutation's observer forget the calls under way
Forgotten(cs, s) == {IF Same(c, s) THEN [c EXCEPT !.watched = FALSE] ELSE c : c \in cs}

\* Cancel, which waits, or Escape, which does not.  A request is not forgotten
Close ==
  /\ subject # "none" /\ form # "workspace"
  /\ FilledFrom("none", Blank0)
  /\ submits' = IF form = "request" THEN submits ELSE Forgotten(submits, subject)
  /\ UNCHANGED <<form, on, entry, listed, edits, created>>

\* What a new row holds is not followed
Sent ==
  IF subject = "new"
  THEN [of |-> "new", values |-> NoValues, touched |-> {}, seen |-> Blank0, watched |-> TRUE, pc |-> "sent"]
  ELSE [of |-> subject, values |-> fields, touched |-> touched, seen |-> seen, watched |-> TRUE, pc |-> "sent"]

Submit ==
  /\ subject # "none" /\ fields.name # 0 /\ ~Watching(subject)
  /\ Sent \notin submits /\ Cardinality(submits) < MaxSubmits
  /\ submits' = submits \cup {Sent}
  /\ UNCHANGED <<form, on, entry, listed, subject, seen, fields, touched, edits, created>>
-----------------------------------------------------------------------------
(***************************************************************************)
(* The API and its answers                                                 *)
(***************************************************************************)
\* "No environment" is sent as no value, and a field without a value is left as it is
Applied(v, w) == [name |-> w.name, tag |-> IF form = "database" /\ w.tag = "none" THEN v.tag ELSE w.tag]

Serve(c) ==
  /\ c.pc = "sent"
  /\ IF c.of = "new" THEN created < MaxEdits /\ created' = created + 1 /\ UNCHANGED entry
     ELSE entry' = [entry EXCEPT ![c.of] = Applied(@, c.values)] /\ UNCHANGED created
  /\ submits' = (submits \ {c}) \cup {[c EXCEPT !.pc = "done", !.touched = {}, !.seen = Blank0,
                   !.values = IF form = "workspace" THEN entry'[c.of] ELSE NoValues]}
  /\ UNCHANGED <<form, on, listed, subject, seen, fields, touched, edits>>

\* The dialog of the call closes, whatever it is open for
AnswerDialog(c) ==
  /\ c.pc = "done" /\ form # "workspace"
  /\ IF subject # "none" /\ Same(c, subject) THEN FilledFrom("none", Blank0)
     ELSE UNCHANGED <<subject, seen, fields, touched>>
  /\ submits' = Forgotten(submits \ {c}, c.of)
  /\ UNCHANGED <<form, on, entry, listed, edits, created>>

\* The rows in the cache become l
Refilled(l) ==
  /\ listed' = l
  /\ IF Live /\ subject \in on /\ l[subject] # seen THEN FilledFrom(subject, l[subject])
     ELSE UNCHANGED <<subject, seen, fields, touched>>

\* The form stays; the answer is put into the cache
AnswerForm(c) ==
  /\ c.pc = "done" /\ form = "workspace"
  /\ Refilled([listed EXCEPT ![c.of] = c.values])
  /\ submits' = submits \ {c}
  /\ UNCHANGED <<form, on, entry, edits, created>>

\* The message is shown by the dialog that watches the call, which stays open
FailSubmit(c) ==
  /\ submits' = submits \ {c}
  /\ UNCHANGED <<form, on, entry, listed, subject, seen, fields, touched, edits, created>>

\* The query of the page is fetched again
Refetched ==
  /\ Refilled(entry)
  /\ UNCHANGED <<form, on, entry, submits, edits, created>>

OtherAdmin ==
  /\ edits < MaxEdits /\ edits' = edits + 1
  /\ \E e \in on :
       \/ entry' = [entry EXCEPT ![e].name = 2]
       \/ Tagged /\ entry' = [entry EXCEPT ![e].tag = "other"]
  /\ UNCHANGED <<form, on, listed, subject, seen, fields, touched, submits, created>>

Types == TypeName \/ ChooseTag

EditDialogNext ==
  \/ OpenDialog \/ OpenNew \/ Types \/ Close \/ Submit
  \/ \E c \in submits : Serve(c) \/ AnswerDialog(c) \/ AnswerForm(c) \/ FailSubmit(c)
  \/ Refetched \/ OtherAdmin

EditDialogSpec == EditDialogInit /\ [][EditDialogNext]_editDialogVars
-----------------------------------------------------------------------------
\* The type of the state.
EditDialogTypeOK ==
  /\ form \in Forms /\ on \subseteq Entries
  /\ entry \in [Entries -> Values] /\ listed \in [Entries -> Values]
  /\ subject \in on \cup {"new", "none"} /\ seen \in Values \cup {Blank0}
  /\ fields \in [name : Names \cup {0}, tag : Tags] /\ touched \subseteq {"name", "tag"}
  /\ submits \subseteq Submission /\ edits \in 0..MaxEdits /\ created \in 0..MaxEdits

\* A save changes a field its dialog's user did not touch only where the row is no longer what
\* the dialog was filled from, or where the form shows it otherwise: an account without a level,
\* a workspace that lets other domains join.
UntouchedKept ==
  [][\A e \in on, f \in {"name", "tag"} :
       entry'[e][f] # entry[e][f] /\ edits' = edits =>
         \E c \in submits :
           /\ c.of = e /\ c.pc = "sent"
           /\ \/ f \in c.touched \/ c.seen[f] # entry[e][f]
              \/ f = "tag" /\ FieldsOf(c.seen).tag # c.seen.tag]_editDialogVars

\* A dialog that closes was closed by its user, by the success of what it sent, or by that of a
\* call whose own dialog was closed while it was under way.
DialogClosedForCause ==
  [][subject # "none" /\ subject' = "none" =>
       Close \/ \E c \in submits : Same(c, subject) /\ c.pc = "done" /\ (c.of = subject \/ ~c.watched)]_editDialogVars

\* What is typed stays as long as the dialog is open, but in the forms that follow the cache.
TypedKept ==
  [][touched # {} /\ subject' = subject /\ fields' # fields => Types \/ (Live /\ listed' # listed)]_editDialogVars

\* Two calls of one dialog are under way only if it was closed in between, and a second request
\* for access is not sent before the first is answered.
OneWatched ==
  \A c, d \in submits :
    c # d /\ Same(c, d.of) => form # "request" /\ ~(c.watched /\ d.watched)
=============================================================================
