------------------------------ MODULE Worksheets ------------------------------
(***************************************************************************)
(* One user's worksheets and folders on one database.                      *)
(*   api/workbench/api_worksheet.py, policies.py, models.py                *)
(*   api/workbench/utils.py create_worksheet_version                       *)
(* A handler reads and checks in one step and writes in a later one: rows  *)
(* are not locked and its queries share no transaction.  Positions and the *)
(* names of folders are left out.                                          *)
(***************************************************************************)
EXTENDS Naturals, FiniteSets

CONSTANTS Sheets, Folders, Names, Texts, WriteCalls

ASSUME WorksheetsAssumption == Names # {} /\ Texts # {}

Root == "root"
Same == "same"  \* a field the request leaves out
Places == Folders \cup {Root}

VARIABLES
  folders,  \* Folder rows
  sheet,    \* Worksheet rows
  versions, \* the texts of each worksheet's WorksheetVersion rows
  call,     \* what each handler has read and is about to write
  moving,   \* the folder delete_folder has emptied and not deleted yet, or Root
  carried,  \* worksheets that came to the root with a folder's deletion
  crossedSheets,    \* worksheets saved by a call while others were written
  unkept    \* worksheets whose text lost its version to a crash or a deletion

sheetVars == <<folders, sheet, versions, call, moving, carried, crossedSheets, unkept>>

\* What a request may ask: for bounds, a new text comes alone
Change == [name : Names \cup {Same}, place : Places \cup {Same}, text : {Same}]
          \cup [name : {Same}, place : {Same}, text : Texts]
Row == [there : BOOLEAN, name : Names, place : Places, text : Texts]
Blank == [there |-> FALSE, name |-> CHOOSE n \in Names : TRUE, place |-> Root, text |-> CHOOSE t \in Texts : TRUE]
Call == [pc : {"free", "create", "update", "version", "over"}, sheet : Sheets \cup {Root}, row : Row,
         version : BOOLEAN, asked : SUBSET {"name", "place", "text"}, late : SUBSET Sheets]
NoCall == [pc |-> "free", sheet |-> Root, row |-> Blank, version |-> FALSE, asked |-> {}, late |-> {}]
Over == [NoCall EXCEPT !.pc = "over"]

SheetsTypeOK ==
  /\ folders \subseteq Folders /\ sheet \in [Sheets -> Row]
  /\ versions \in [Sheets -> SUBSET Texts]
  /\ call \in [WriteCalls -> Call] /\ moving \in Places
  /\ carried \cup crossedSheets \cup unkept \subseteq Sheets
  /\ \A s \in Sheets : versions[s] # {} => sheet[s].there

\* A user who has some worksheets, each with a version, and none of them with the name of another
SheetsInit ==
  /\ folders = Folders
  /\ \E there \in SUBSET Sheets, name \in [Sheets -> Names], place \in [Sheets -> Places] :
       /\ sheet = [s \in Sheets |-> IF s \in there THEN [Blank EXCEPT !.there = TRUE, !.name = name[s], !.place = place[s]] ELSE Blank]
       /\ \A s, o \in there : s # o => name[s] # name[o] \/ place[s] # place[o]
  /\ versions = [s \in Sheets |-> IF sheet[s].there THEN {sheet[s].text} ELSE {}]
  /\ call = [c \in WriteCalls |-> NoCall] /\ moving = Root
  /\ carried = {} /\ crossedSheets = {} /\ unkept = {}
-----------------------------------------------------------------------------
\* check_duplicate_worksheet_name, exclude_id=s
Taken(s, name, place) == \E o \in Sheets \ {s} : sheet[o].there /\ sheet[o].name = name /\ sheet[o].place = place

\* The rows of set are written while others are between reading and writing
Overtaken(set) == [c \in WriteCalls |->
  IF call[c].pc \in {"create", "update"} THEN [call[c] EXCEPT !.late = @ \cup set] ELSE call[c]]

\* What a call leaves behind when its row is saved
Saved(c) == IF call[c].version THEN [NoCall EXCEPT !.pc = "version", !.sheet = call[c].sheet, !.row.text = call[c].row.text] ELSE Over

\* delete_folder: the worksheets in it are moved to the root, whatever lies there by their name
MoveOut(f) ==
  LET inside == {s \in Sheets : sheet[s].there /\ sheet[s].place = f}
  IN  /\ moving = Root /\ f \in folders /\ moving' = f
      /\ sheet' = [s \in Sheets |-> IF s \in inside THEN [sheet[s] EXCEPT !.place = Root] ELSE sheet[s]]
      /\ carried' = carried \cup inside /\ call' = Overtaken(inside)
      /\ UNCHANGED <<folders, versions, crossedSheets, unkept>>

\* folder.delete(), with SET_NULL for those that were moved into it meanwhile
DeleteFolder ==
  LET inside == {s \in Sheets : sheet[s].there /\ sheet[s].place = moving}
  IN  /\ moving # Root /\ folders' = folders \ {moving} /\ moving' = Root
      /\ sheet' = [s \in Sheets |-> IF s \in inside THEN [sheet[s] EXCEPT !.place = Root] ELSE sheet[s]]
      /\ carried' = carried \cup inside /\ call' = Overtaken(inside)
      /\ UNCHANGED <<versions, crossedSheets, unkept>>

\* Or the process dies before, and the folder stays
FolderStays ==
  /\ moving # Root /\ moving' = Root
  /\ UNCHANGED <<folders, sheet, versions, call, carried, crossedSheets, unkept>>

\* create_worksheet: the folder and the name are checked
AskCreate(c, s, name, place) ==
  /\ call[c].pc = "free" /\ ~sheet[s].there /\ s \notin unkept
  /\ \A d \in WriteCalls : call[d].sheet # s
  /\ place \in folders \cup {Root} /\ ~Taken(s, name, place)
  /\ call' = [call EXCEPT ![c] = [pc |-> "create", sheet |-> s, version |-> TRUE, asked |-> {"name", "place", "text"},
       late |-> {}, row |-> [Blank EXCEPT !.there = TRUE, !.name = name, !.place = place]]]
  /\ UNCHANGED <<folders, sheet, versions, moving, carried, crossedSheets, unkept>>

\* Mutant: a request without a folder is one that asks for the root
AskUpdateToRoot(c, s, change) ==
  LET old == sheet[s]
      new == [old EXCEPT !.name = IF change.name = Same THEN @ ELSE change.name,
                         !.place = IF change.place = Same THEN Root ELSE change.place,
                         !.text = IF change.text = Same THEN @ ELSE change.text]
  IN  /\ call[c].pc = "free" /\ old.there
      /\ new.place \in folders \cup {Root}
      /\ new.name # old.name \/ new.place # old.place => ~Taken(s, new.name, new.place)
      /\ call' = [call EXCEPT ![c] = [pc |-> "update", sheet |-> s, row |-> new, version |-> new.text # old.text,
                                      asked |-> {f \in DOMAIN change : change[f] # Same}, late |-> {}]]
      /\ UNCHANGED <<folders, sheet, versions, moving, carried, crossedSheets, unkept>>

\* update_worksheet: the row that is read, with the fields the request has
AskUpdate(c, s, change) ==
  LET old == sheet[s]
      new == [old EXCEPT !.name = IF change.name = Same THEN @ ELSE change.name,
                         !.place = IF change.place = Same THEN @ ELSE change.place,
                         !.text = IF change.text = Same THEN @ ELSE change.text]
  IN  /\ call[c].pc = "free" /\ old.there
      /\ new.place \in folders \cup {Root}
      /\ new.name # old.name \/ new.place # old.place => ~Taken(s, new.name, new.place)
      /\ call' = [call EXCEPT ![c] = [pc |-> "update", sheet |-> s, row |-> new, version |-> new.text # old.text,
                                      asked |-> {f \in DOMAIN change : change[f] # Same}, late |-> {}]]
      /\ UNCHANGED <<folders, sheet, versions, moving, carried, crossedSheets, unkept>>

\* Mutant: without the constraint
AcceptableAnyName(s, row) == row.place \in folders \cup {Root}

\* full_clean() and the constraint of the table: in the root, names are not compared
Acceptable(s, row) == row.place = Root \/ (row.place \in folders /\ ~Taken(s, row.name, row.place))

\* save(): every column as it was read, but for those of the request.  Where the row has been
\* deleted, it is inserted again.
SaveSheet(c) ==
  LET s == call[c].sheet
  IN  /\ call[c].pc \in {"create", "update"} /\ Acceptable(s, call[c].row)
      /\ sheet' = [sheet EXCEPT ![s] = call[c].row]
      /\ crossedSheets' = IF call[c].late # {} THEN crossedSheets \cup {s} ELSE crossedSheets
      /\ carried' = IF call[c].row.place = Root THEN carried ELSE carried \ {s}
      /\ call' = [Overtaken({s}) EXCEPT ![c] = Saved(c)]
      /\ UNCHANGED <<folders, versions, moving, unkept>>

SaveRefused(c) ==
  /\ call[c].pc \in {"create", "update"} /\ ~Acceptable(call[c].sheet, call[c].row)
  /\ call' = [call EXCEPT ![c] = Over]
  /\ UNCHANGED <<folders, sheet, versions, moving, carried, crossedSheets, unkept>>

\* Mutant: and no other is left
KeepOnly(c) ==
  /\ call[c].pc = "version"
  /\ LET s == call[c].sheet
     IN  versions' = IF sheet[s].there THEN [versions EXCEPT ![s] = {call[c].row.text}] ELSE versions
  /\ call' = [call EXCEPT ![c] = Over]
  /\ UNCHANGED <<folders, sheet, moving, carried, crossedSheets, unkept>>

\* create_worksheet_version: of the text that was saved.  A worksheet that is gone by now is an error.
KeepVersion(c) ==
  /\ call[c].pc = "version"
  /\ LET s == call[c].sheet
     IN  versions' = IF sheet[s].there THEN [versions EXCEPT ![s] = @ \cup {call[c].row.text}] ELSE versions
  /\ call' = [call EXCEPT ![c] = Over]
  /\ UNCHANGED <<folders, sheet, moving, carried, crossedSheets, unkept>>

\* Its versions go with it
DeleteSheet(s) ==
  /\ sheet[s].there
  /\ sheet' = [sheet EXCEPT ![s] = Blank] /\ versions' = [versions EXCEPT ![s] = {}]
  /\ call' = Overtaken({s}) /\ carried' = carried \ {s} /\ unkept' = unkept \cup {s}
  /\ UNCHANGED <<folders, moving, crossedSheets>>

\* The process dies
CallDies(c) ==
  /\ call[c].pc \notin {"free", "over"}
  /\ call' = [call EXCEPT ![c] = Over]
  /\ unkept' = IF call[c].pc = "version" THEN unkept \cup {call[c].sheet} ELSE unkept
  /\ UNCHANGED <<folders, sheet, versions, moving, carried, crossedSheets>>

SheetsNext ==
  \/ DeleteFolder \/ FolderStays \/ \E f \in Folders : MoveOut(f)
  \/ \E s \in Sheets : DeleteSheet(s)
  \/ \E c \in WriteCalls :
       \/ SaveSheet(c) \/ SaveRefused(c) \/ KeepVersion(c) \/ CallDies(c)
       \/ \E s \in Sheets :
            \/ \E name \in Names, place \in Places : AskCreate(c, s, name, place)
            \/ \E change \in Change : AskUpdate(c, s, change)

SheetsSpec == SheetsInit /\ [][SheetsNext]_sheetVars
-----------------------------------------------------------------------------
(* What may be expected of it *)

\* Two worksheets of one name lie in one place only at the root, and only when one of them
\* came there with its folder's deletion or was written while another was.
NamesForCause ==
  \A s, o \in Sheets : s # o /\ sheet[s].there /\ sheet[o].there
                       /\ sheet[s].name = sheet[o].name /\ sheet[s].place = sheet[o].place =>
    /\ sheet[s].place = Root
    /\ {s, o} \cap (carried \cup crossedSheets) # {}

\* The text of a worksheet is among its versions, unless the call that saved it is about to
\* keep it or has died, or the worksheet was deleted under it.
TextIsKept ==
  \A s \in Sheets : sheet[s].there /\ sheet[s].text \notin versions[s] =>
    s \in unkept \/ \E c \in WriteCalls : call[c].pc = "version" /\ call[c].sheet = s

\* A save undoes what another call has written, or brings a deleted worksheet back, only if
\* it had read its copy before.
UndoneForCause ==
  [][\A c \in WriteCalls : call[c].pc = "update" /\ call'[c].pc # "update" /\ call[c].sheet \notin call[c].late =>
       LET s == call[c].sheet
       IN  sheet[s].there /\ \A f \in {"name", "place", "text"} \ call[c].asked : sheet'[s][f] = sheet[s][f]]_sheetVars
=============================================================================
