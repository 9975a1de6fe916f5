---------------------------- MODULE MCDatabases ----------------------------
(***************************************************************************)
(* The handles on databases and the pages where a database, its accounts   *)
(* and who may use them are added and edited, for TLC.  A behaviour is one *)
(* of the pool, of the page that adds a database, of a dialog that edits   *)
(* what there is or of a page that gives access.  They meet in rows and in *)
(* connections that may change or fail at any time, which each of them     *)
(* lets happen.                                                            *)
(***************************************************************************)
EXTENDS ConnPool, EditDialogs, AddDatabase, AccessPages, TLC

VARIABLE side

databaseVars == <<side, vars, editDialogVars, addVars, accessPageVars>>

DatabasesInit ==
  /\ side \in {"pool", "dialogs", "adding", "access"}
  /\ Init /\ EditDialogInit /\ AddInit /\ AccessPagesInit
  /\ side # "dialogs" => form = "group"
  /\ side # "adding" => named = {}
  /\ side # "access" => page = "keys"

DatabasesNext ==
  \/ /\ side = "pool" /\ Next
     /\ UNCHANGED <<side, editDialogVars, addVars, accessPageVars>>
  \/ /\ side = "dialogs" /\ EditDialogNext
     /\ UNCHANGED <<side, vars, addVars, accessPageVars>>
  \/ /\ side = "adding" /\ AddNext
     /\ UNCHANGED <<side, vars, editDialogVars, accessPageVars>>
  \/ /\ side = "access" /\ AccessPagesNext
     /\ UNCHANGED <<side, vars, editDialogVars, addVars>>

DatabasesSpec == DatabasesInit /\ [][DatabasesNext]_databaseVars

\* Queries and connection strings are interchangeable, and so are the entries of a page and the
\* people of another, which are the same two
DatabasesSymmetry == Permutations(Queries) \cup Permutations(Keys) \cup Permutations(People)
-----------------------------------------------------------------------------
(* What is checked of the pages; ConnPool has properties of its own *)

\* A form sends what its user saw or typed, what it made is told to the one who made it, and a
\* page that gives access shows and does what the admin asked, but for what is named.
SavedForCause ==
  /\ [](EditDialogTypeOK /\ OneWatched) /\ UntouchedKept /\ DialogClosedForCause /\ TypedKept
  /\ [](AddTypeOK /\ PairFits /\ PortFits /\ RefusedForCause)
  /\ [](AccessPagesTypeOK /\ ListedForCause /\ WishDone) /\ OfferedIsAllowed
=============================================================================
