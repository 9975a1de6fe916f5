------------------------------ MODULE MCMembers ------------------------------
(***************************************************************************)
(* The people of a workspace and what they keep in it, for TLC.  A         *)
(* behaviour is one of the members and their sessions, of the invitations, *)
(* of the login codes of one address, of worksheets, of the versions of    *)
(* one or of images.  They meet in rows that are only made: an invitation  *)
(* makes a user and a code a session, which Membership lets happen         *)
(* whenever they may.                                                      *)
(***************************************************************************)
EXTENDS Membership, Invitations, LoginCodes, Worksheets, WorksheetVersions, ImageStore, TLC

VARIABLE branch

joinVars == <<invitationVars, codeVars>>
rowVars == <<sheetVars, versionList, imageVars>>
memberVars == <<branch, vars, joinVars, rowVars>>

MembersInit ==
  /\ branch \in {"members", "invitations", "codes", "sheets", "versions", "images"}
  /\ Init /\ InvitationInit /\ CodeInit /\ SheetsInit /\ HistoryInit /\ ImagesInit
  /\ branch # "sheets" => sheet = [s \in Sheets |-> Blank]
  /\ branch # "images" => url = NoPicture

MembersNext ==
  \/ branch = "members" /\ Next /\ UNCHANGED <<branch, joinVars, rowVars>>
  \/ /\ UNCHANGED <<branch, vars, rowVars>>
     /\ \/ branch = "invitations" /\ InvitationNext /\ UNCHANGED codeVars
        \/ branch = "codes" /\ CodeNext /\ UNCHANGED invitationVars
  \/ /\ UNCHANGED <<branch, vars, joinVars>>
     /\ \/ branch = "sheets" /\ SheetsNext /\ UNCHANGED <<versionList, imageVars>>
        \/ branch = "versions" /\ HistoryNext /\ UNCHANGED <<sheetVars, imageVars>>
        \/ branch = "images" /\ ImagesNext /\ UNCHANGED <<sheetVars, versionList>>

MembersSpec == MembersInit /\ [][MembersNext]_memberVars

\* Workers are interchangeable, and so are the people who are not founders; the calls of
\* admins, of writers and of those who save a picture go by the workers' names, the calls that
\* join, the worksheets and the images by those people's
Symmetry == Permutations(Workers) \cup Permutations(Users \ Founders)
-----------------------------------------------------------------------------
(* What is checked of the parts beside Membership, which has properties of its own *)

\* An invitation lets in as many as it says while it is valid, there is one of it, and a code
\* makes one session; worksheets, their versions and images are what was saved last: no name
\* twice, no text lost, the first and the spread of the versions kept, no image shown that is
\* not there, none left behind.  All of this but for calls that overlap in the ways named: of
\* them, a save of a person's whole row undoes what was written since the row was read.
RowsForCause ==
  /\ [](InvitationTypeOK /\ OverusedForCause /\ OneStands) /\ ShutForCause /\ HandedForCause
  /\ [](CodeTypeOK /\ RecentBounded /\ OneLogin)
  /\ [](SheetsTypeOK /\ NamesForCause /\ TextIsKept) /\ UndoneForCause
  /\ [](HistoryTypeOK /\ FirstStays) /\ SpansStay
  /\ [](ImagesTypeOK /\ ShownIsServed /\ LeftForCause)
=============================================================================
