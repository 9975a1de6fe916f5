---------------------------- MODULE AddDatabase ----------------------------
(***************************************************************************)
(* The page that adds a database, the call it makes and the page of the    *)
(* database it ends on.                                                    *)
(*                                                                         *)
(* A connection string may be imported: it sets the fields it has a value  *)
(* for and leaves the others, the type among them, as they are.  The API   *)
(* looks for the name first, tries the connection, which takes a while,    *)
(* and makes the database.  The call goes on when the page is left, and    *)
(* its success takes the user to the database wherever they are by then.   *)
(***************************************************************************)
EXTENDS Naturals, Sequences, FiniteSets

CONSTANTS
  Titles,       \* names a user may give a database
  MaxImports,   \* connection strings imported
  MaxAttempts   \* submissions

ASSUME AddAssumption == MaxImports \in Nat /\ MaxAttempts \in Nat

VARIABLES
  where,     \* the page: "form", "elsewhere" or that of a database
  draft,     \* what the form holds
  imported,  \* the strings imported since the page was opened
  attempts,  \* the calls
  tries,     \* their number
  failure,   \* what the page shows of the last one
  named,     \* the names in use, and those this tab gave
  mine,
  flagged,   \* the address says create=true
  notice,    \* "Database created successfully!" is shown, and the timer that is to hide it
  timer,
  over       \* names of the calls that have ended for this tab: answered, lost or their page left

addVars == <<where, draft, imported, attempts, tries, failure, named, mine, flagged, notice, timer,
             over>>

Adapters == {"postgres", "mysql"}
Typed == MaxImports + 1
Sources == 0..Typed
NoTitle == "untitled"

\* The page of a database named here, or of one that was there before
DatabasePages == Titles \cup {"older"}

\* Of the fields that no other depends on, rest says whether those required are filled: the host,
\* the database and, when a tunnel is chosen, its own
Draft == [title : Titles \cup {NoTitle}, type : Adapters, port : Adapters \cup {"own"},
          user : Sources, password : Sources, rest : BOOLEAN]
EmptyDraft == [title |-> NoTitle, type |-> "postgres", port |-> "postgres", user |-> 0, password |-> 0,
               rest |-> FALSE]

\* In a string only a user may have a password; it always names a host and a database
ConnectionStrings == [protocol : Adapters, has : {"nobody", "user", "both"}]

Attempt == [title : Titles, watched : BOOLEAN, pc : {"sent", "trying", "made", "exists", "refused"}]

AddInit ==
  /\ where = "form" /\ draft = EmptyDraft /\ imported = <<>>
  /\ attempts = {} /\ tries = 0 /\ failure = "none"
  /\ named \in SUBSET Titles /\ mine = {}
  /\ flagged = FALSE /\ notice = FALSE /\ timer = FALSE /\ over = {}
-----------------------------------------------------------------------------
(***************************************************************************)
(* The form                                                                *)
(***************************************************************************)
Edited(d) ==
  /\ where = "form" /\ draft # d /\ draft' = d
  /\ UNCHANGED <<where, imported, attempts, tries, failure, named, mine, flagged, notice, timer, over>>

TypeField ==
  \/ \E t \in Titles : Edited([draft EXCEPT !.title = t])
  \/ Edited([draft EXCEPT !.user = Typed]) \/ Edited([draft EXCEPT !.password = Typed])
  \/ Edited([draft EXCEPT !.port = "own"]) \/ Edited([draft EXCEPT !.rest = TRUE])

\* Mutant: the port stays
ChooseTypeOnly ==
  \E t \in Adapters \ {draft.type} : Edited([draft EXCEPT !.type = t, !.rest = @ /\ t = "postgres"])

\* The port and the database of the type replace what was there; MySQL has no usual database
ChooseType ==
  \E t \in Adapters \ {draft.type} :
    Edited([draft EXCEPT !.type = t, !.port = t, !.rest = @ /\ t = "postgres"])

\* The fields of a tunnel are required once it is chosen
ChooseTunnel == Edited([draft EXCEPT !.rest = FALSE])

\* Mutant: a password that was typed or imported before is kept
ImportKeepsPassword ==
  /\ where = "form" /\ Len(imported) < MaxImports
  /\ \E s \in ConnectionStrings, r \in {draft.rest, TRUE} : \E n \in {"own", s.protocol} :
       /\ imported' = Append(imported, s)
       /\ draft' = [draft EXCEPT !.port = n, !.rest = r,
                      !.user = IF s.has = "nobody" THEN @ ELSE Len(imported'),
                      !.password = IF s.has = "both" /\ @ = 0 THEN Len(imported') ELSE @]
  /\ UNCHANGED <<where, attempts, tries, failure, named, mine, flagged, notice, timer, over>>

\* handleImportConnectionString sets no field to nothing, and never the type
ImportString ==
  /\ where = "form" /\ Len(imported) < MaxImports
  /\ \E s \in ConnectionStrings, r \in {draft.rest, TRUE} : \E n \in {"own", s.protocol} :
       /\ imported' = Append(imported, s)
       /\ draft' = [draft EXCEPT !.port = n, !.rest = r,
                      !.user = IF s.has = "nobody" THEN @ ELSE Len(imported'),
                      !.password = IF s.has = "both" THEN Len(imported') ELSE @]
  /\ UNCHANGED <<where, attempts, tries, failure, named, mine, flagged, notice, timer, over>>

Complete == draft.title # NoTitle /\ draft.user # 0 /\ draft.password # 0 /\ draft.rest

\* The button waits for the call the page has made
IsPending == \E c \in attempts : c.watched

\* Mutant: the button does not wait
SubmitAgain ==
  /\ where = "form" /\ Complete /\ tries < MaxAttempts
  /\ tries' = tries + 1
  /\ attempts' = attempts \cup {[title |-> draft.title, watched |-> TRUE, pc |-> "sent"]}
  /\ attempts' # attempts
  /\ failure' = "none"
  /\ UNCHANGED <<where, draft, imported, named, mine, flagged, notice, timer, over>>

SubmitDatabase ==
  /\ where = "form" /\ Complete /\ ~IsPending /\ tries < MaxAttempts
  /\ tries' = tries + 1
  /\ attempts' = attempts \cup {[title |-> draft.title, watched |-> TRUE, pc |-> "sent"]}
  /\ attempts' # attempts
  /\ failure' = "none"
  /\ UNCHANGED <<where, draft, imported, named, mine, flagged, notice, timer, over>>
-----------------------------------------------------------------------------
(***************************************************************************)
(* The API                                                                 *)
(***************************************************************************)
Proceeds(c, pc) == attempts' = (attempts \ {c}) \cup {[c EXCEPT !.pc = pc]}

CheckDuplicate(c) ==
  /\ c.pc = "sent"
  /\ \/ c.title \in named /\ Proceeds(c, "exists")
     \/ c.title \notin named /\ \E pc \in {"trying", "refused"} : Proceeds(c, pc)
  /\ UNCHANGED <<where, draft, imported, tries, failure, named, mine, flagged, notice, timer, over>>

\* The connection may fail; a name given meanwhile breaks the constraint of the table
CreateDatabase(c) ==
  /\ c.pc = "trying"
  /\ \/ Proceeds(c, "refused") /\ UNCHANGED <<named, mine>>
     \/ c.title \notin named /\ Proceeds(c, "made") /\ named' = named \cup {c.title} /\ mine' = mine \cup {c.title}
  /\ UNCHANGED <<where, draft, imported, tries, failure, flagged, notice, timer, over>>
-----------------------------------------------------------------------------
(***************************************************************************)
(* The answers, and the pages                                              *)
(***************************************************************************)
\* The page of a database is one component for all of them and keeps its state between two
Opens(page) ==
  /\ where' = page
  /\ IF {where, page} \subseteq DatabasePages THEN UNCHANGED <<notice, timer>> ELSE notice' = FALSE /\ timer' = FALSE
  /\ draft' = EmptyDraft /\ imported' = <<>>

\* The calls of a page that is left are not watched
Unwatched(cs) == {[c EXCEPT !.watched = FALSE] : c \in cs}

AnswerCreated(c) ==
  /\ c.pc = "made" /\ Opens(c.title) /\ flagged' = TRUE
  /\ attempts' = Unwatched(attempts \ {c})
  /\ over' = over \cup {d.title : d \in attempts}
  /\ failure' = "none"
  /\ UNCHANGED <<tries, named, mine>>

AnswerRefused(c) ==
  /\ c.pc \in {"exists", "refused"}
  /\ attempts' = attempts \ {c}
  /\ failure' = IF c.watched THEN c.pc ELSE failure
  /\ over' = over \cup {c.title}
  /\ UNCHANGED <<where, draft, imported, tries, named, mine, flagged, notice, timer>>

\* The connection is lost; what the API has begun goes on, unheard
LoseAnswer(c) ==
  /\ c.watched
  /\ \/ attempts' = attempts \ {c}
     \/ c.pc \in {"sent", "trying"} /\ attempts' = (attempts \ {c}) \cup {[c EXCEPT !.watched = FALSE]}
  /\ failure' = "lost" /\ over' = over \cup {c.title}
  /\ UNCHANGED <<where, draft, imported, tries, named, mine, flagged, notice, timer>>

FollowLink ==
  /\ \E page \in {"form", "elsewhere", "older"} \cup named : page # where /\ Opens(page)
  /\ attempts' = Unwatched(attempts)
  /\ over' = over \cup {c.title : c \in attempts}
  /\ flagged' = FALSE /\ failure' = "none"
  /\ UNCHANGED <<tries, named, mine>>

\* The effect sets a timer and takes the parameter off the address; that is a change of what
\* the effect depends on, and its cleanup clears the timer
ShowNotice ==
  /\ where \in DatabasePages /\ flagged
  /\ notice' = TRUE /\ flagged' = FALSE /\ timer' = FALSE
  /\ UNCHANGED <<where, draft, imported, attempts, tries, failure, named, mine, over>>

HideNotice ==
  /\ timer /\ timer' = FALSE /\ notice' = FALSE
  /\ UNCHANGED <<where, draft, imported, attempts, tries, failure, named, mine, flagged, over>>

AddNext ==
  \/ TypeField \/ ChooseType \/ ChooseTunnel \/ ImportString \/ SubmitDatabase
  \/ \E c \in attempts :
       CheckDuplicate(c) \/ CreateDatabase(c) \/ AnswerCreated(c) \/ AnswerRefused(c) \/ LoseAnswer(c)
  \/ FollowLink \/ ShowNotice \/ HideNotice

AddSpec == AddInit /\ [][AddNext]_addVars
-----------------------------------------------------------------------------
\* The type of the state.
AddTypeOK ==
  /\ where \in {"form", "elsewhere"} \cup DatabasePages /\ draft \in Draft
  /\ imported \in Seq(ConnectionStrings) /\ Len(imported) <= MaxImports
  /\ attempts \subseteq Attempt /\ tries \in 0..MaxAttempts
  /\ mine \subseteq named /\ named \subseteq Titles /\ over \subseteq Titles
  /\ failure \in {"none", "exists", "refused", "lost"}
  /\ {flagged, notice, timer} \subseteq BOOLEAN

\* A user and a password that are of two connection strings: the later one names a user only.
PairFits ==
  draft.user \in 1..MaxImports /\ draft.password \in 1..MaxImports /\ draft.user # draft.password =>
    draft.password < draft.user /\ imported[draft.user].has = "user"

\* A port that is the usual one of the other type came with a connection string, whose protocol
\* does not choose the type.
PortFits ==
  draft.port \in Adapters \ {draft.type} =>
    imported # <<>> /\ imported[Len(imported)].protocol = draft.port

\* A call is refused for the name of a database that this tab has made only when the call that
\* made it, or an earlier one of that name, is over for the tab: answered, lost or its page left.
RefusedForCause ==
  \A c \in attempts : c.pc = "exists" /\ c.title \in mine => c.title \in over
=============================================================================
