----------------------------- MODULE AccessPages -----------------------------
(***************************************************************************)
(* The pages where an admin says who may do what: the access list of an    *)
(* account (DatabasePage.tsx), the requests and the keys that wait in the  *)
(* inbox (InboxPage.tsx), the members of a group (GroupCard.tsx).          *)
(*                                                                         *)
(* Each page offers what a list it once read allows, and the API judges    *)
(* the call by the rows there are when it serves it.  A list is read again *)
(* after a call of this tab succeeded, and not when anyone else changes    *)
(* the rows; an answer read earlier is one that came before the change.    *)
(*                                                                         *)
(* A revoked row is kept and stands in nobody's way; rows of one status    *)
(* are told apart only by the end their access has, so a person has a set  *)
(* of statuses and a number that tells the ends from each other.           *)
(***************************************************************************)
EXTENDS Naturals, FiniteSets

CONSTANTS
  People,     \* members; a group that is given access is one of them too
  MaxClicks,  \* bound on the calls of the page
  MaxOthers   \* bound on what others do meanwhile

ASSUME AccessPagesAssumption == {MaxClicks, MaxOthers} \subseteq Nat

VARIABLES
  page,      \* the page that is shown
  rows,      \* the statuses of each person's rows, and which granted_until they have
  lapsed,    \* the people and the granted_until of theirs that have passed
  list,      \* the rows as the page last read them
  assigned,  \* those whom the account's list showed as having access when it was last judged
  sent,      \* the calls that are under way
  stale,     \* the list is invalid and is being read again
  clicks, others,
  wish,      \* what the admin last asked for each person, if nothing has met it since
  excused    \* those whose rows the page need not know: changed by others, or an answer was lost

accessPageVars ==
  <<page, rows, lapsed, list, assigned, sent, stale, clicks, others, wish, excused>>
counts == <<clicks, others>>

Pages == {"account", "inbox", "keys", "group"}
Statuses == {"pending", "lasting", "timed", "denied", "revoked", "member"}
Asks == {"grant", "approve", "deny", "add", "remove"}
InTheWay == {"pending", "lasting", "timed"}

Rows == [has : SUBSET Statuses, term : 0..MaxOthers]

AskSent == [id : 1..MaxClicks, who : People, what : Asks, saw : Rows,
         here : BOOLEAN, answer : {"none", "done", "refused"}]

AccessPagesTypeOK ==
  /\ page \in Pages /\ stale \in BOOLEAN
  /\ {rows, list} \subseteq [People -> Rows]
  /\ lapsed \subseteq People \X (0..MaxOthers) /\ assigned \subseteq People /\ excused \subseteq People
  /\ sent \subseteq AskSent
  /\ wish \in [People -> Asks \cup {"nothing"}]
  /\ clicks \in 0..MaxClicks /\ others \in 0..MaxOthers
-----------------------------------------------------------------------------
(* The API: what a person's rows let a call do to them *)

\* Mutant: a denied request stands in the way of a verdict and not of a grant
RowsAllowDenied(what, r) ==
  CASE what = "grant" -> r \subseteq {"revoked", "denied"}
    [] what \in {"approve", "deny"} -> "pending" \in r /\ "denied" \notin r
    [] what = "add" -> TRUE
    [] what = "remove" -> "member" \in r

\* Mutant: a request that was approved may be denied after all
RowsAllowDecided(what, r) ==
  CASE what = "grant" -> r \subseteq {"revoked"}
    [] what \in {"approve", "deny"} -> r \cap {"pending", "timed"} # {}
    [] what = "add" -> TRUE
    [] what = "remove" -> "member" \in r

RowsAllow(what, r) ==
  CASE what = "grant" -> r \subseteq {"revoked"}
    [] what \in {"approve", "deny"} -> "pending" \in r
    [] what = "add" -> TRUE
    [] what = "remove" -> "member" \in r

RowsAfter(what, r) ==
  CASE what = "grant" -> r \cup {"lasting"}
    [] what = "approve" -> (r \ {"pending"}) \cup {IF page = "keys" THEN "lasting" ELSE "timed"}
    [] what = "deny" -> (r \ {"pending"}) \cup {"denied"}
    [] what = "add" -> {"member"}
    [] what = "remove" -> {}

(* What others make of a person's rows *)
OthersMake(r) ==
  CASE page = "group" -> {{"member"}, {}} \ {r}
    [] page = "keys" -> IF "pending" \in r THEN {{"lasting"}, {"revoked"}} ELSE {{"pending"}}
    [] OTHER ->
         {RowsAfter(what, r) : what \in {w \in {"grant", "approve", "deny"} : RowsAllow(w, r)}}
           \cup (IF r \subseteq {"revoked"} THEN {r \cup {"timed"}} ELSE {})
           \cup (IF r \cap InTheWay = {} THEN {r \cup {"pending"}} ELSE {})
           \cup {(r \ {s}) \cup {"revoked"} : s \in r \ {"revoked"}}
-----------------------------------------------------------------------------
Lapsed(l, u) == <<u, l[u].term>> \in lapsed

(***************************************************************************)
(* activeAccess: of the rows of the list those that give access.  It is    *)
(* worked out when the list changes and when the page is shown; a list     *)
(* that is read again and is the same leaves it as it was, however much    *)
(* time has passed.                                                        *)
(***************************************************************************)
ActiveAccess(l) ==
  {u \in People : \/ "lasting" \in l[u].has
                  \/ "timed" \in l[u].has /\ ~Lapsed(l, u)}

\* A page counts its own calls only: those of a visit before go on without it
Pending(u) == {c \in sent : c.here /\ c.who = u}

(* The menus of the account's list: whoever is not assigned, one at a time *)
OfferedGrants(u) == IF u \in assigned \/ (\E c \in sent : c.here) THEN {} ELSE {"grant"}

(* The inbox shows the rows that were pending; a card has two buttons *)
Waiting == {u \in People : "pending" \in list[u].has}

OfferedVerdicts(u) == IF u \in Waiting /\ Pending(u) = {} THEN {"approve", "deny"} ELSE {}

\* Without the admin's passphrase the button of a key does nothing and says nothing
OfferedKeys(u) == IF u \in Waiting /\ Pending(u) = {} THEN {"approve"} ELSE {}

(* A removal waits for the one before it; an addition waits for nothing *)
OfferedMembers(u) ==
  CASE "member" \notin list[u].has -> {"add"}
    [] "member" \in list[u].has /\ ~\E c \in sent : c.here /\ c.what = "remove" -> {"remove"}
    [] OTHER -> {}

Offered(u) ==
  CASE page = "account" -> OfferedGrants(u)
    [] page = "inbox" -> OfferedVerdicts(u)
    [] page = "keys" -> OfferedKeys(u)
    [] page = "group" -> OfferedMembers(u)
-----------------------------------------------------------------------------
Beginnings ==
  CASE page = "group" -> {{}, {"member"}}
    [] page = "keys" -> {{"pending"}}
    [] OTHER -> {{}, {"pending"}, {"lasting"}, {"timed"}, {"denied"}}

AccessPagesInit ==
  /\ page \in Pages
  /\ rows \in [People -> [has : Beginnings, term : {0}]]
  /\ lapsed = {} /\ list = rows /\ assigned = ActiveAccess(rows)
  /\ sent = {} /\ stale = FALSE /\ clicks = 0 /\ others = 0
  /\ wish = [u \in People |-> "nothing"] /\ excused = {}

\* Two calls about a person cross where the page lets them, or where it has forgotten the first
Crossed(u) == \E c \in sent : c.who = u /\ (page = "group" \/ ~c.here)

Click(u, what) ==
  /\ what \in Offered(u)
  /\ clicks < MaxClicks /\ clicks' = clicks + 1
  /\ sent' = sent \cup {[id |-> clicks', who |-> u, what |-> what, saw |-> list[u],
                         here |-> TRUE, answer |-> "none"]}
  /\ wish' = [wish EXCEPT ![u] = IF Crossed(u) THEN "nothing" ELSE what]
  /\ UNCHANGED <<page, rows, lapsed, list, assigned, stale, others, excused>>

ServeAsk(c) ==
  LET allowed == RowsAllow(c.what, rows[c.who].has) IN
  /\ c.answer = "none"
  /\ rows' = IF allowed THEN [rows EXCEPT ![c.who].has = RowsAfter(c.what, @)] ELSE rows
  /\ sent' = (sent \ {c}) \cup
               {[c EXCEPT !.answer = IF allowed THEN "done" ELSE "refused"]}
  /\ UNCHANGED <<page, lapsed, list, assigned, stale, counts, wish, excused>>

\* Mutant: the approval of a request leaves the list as it was
AnswerQuietly(c) ==
  /\ c.answer # "none"
  /\ sent' = sent \ {c}
  /\ stale' = (stale \/ (c.answer = "done" /\ c.what # "approve"))
  /\ wish' = IF c.answer = "refused" THEN [wish EXCEPT ![c.who] = "nothing"] ELSE wish
  /\ UNCHANGED <<page, rows, lapsed, list, assigned, counts, excused>>

(***************************************************************************)
(* A success makes the list be read again, whether the page is still there *)
(* or not, and nobody waits for it: until it is read, the page offers what *)
(* it offered.  A refusal is shown, and the list is left as it was.        *)
(***************************************************************************)
AnswerClick(c) ==
  /\ c.answer # "none"
  /\ sent' = sent \ {c}
  /\ stale' = (stale \/ c.answer = "done")
  /\ wish' = IF c.answer = "refused" THEN [wish EXCEPT ![c.who] = "nothing"] ELSE wish
  /\ UNCHANGED <<page, rows, lapsed, list, assigned, counts, excused>>

(* An answer that is lost is an error like a refusal, served or not *)
LoseClick(c) ==
  /\ sent' = sent \ {c}
  /\ wish' = [wish EXCEPT ![c.who] = "nothing"]
  /\ excused' = excused \cup {c.who}
  /\ UNCHANGED <<page, rows, lapsed, list, assigned, stale, counts>>

\* Those whose time ran out unseen stay assigned by a list that has not changed
Overdue == {u \in assigned : "timed" \in list[u].has /\ Lapsed(list, u)}

ReadAgain ==
  /\ stale /\ stale' = FALSE
  /\ list' = rows
  /\ assigned' = IF rows = list THEN assigned ELSE ActiveAccess(rows)
  /\ excused' = {c.who : c \in sent} \cap excused
  /\ UNCHANGED <<page, rows, lapsed, sent, counts, wish>>

(* The page is left and opened again: a list that has aged is read again *)
VisitAgain ==
  /\ assigned' = ActiveAccess(list)
  /\ sent' = {[c EXCEPT !.here = FALSE] : c \in sent}
  /\ stale' \in {stale, TRUE}
  /\ UNCHANGED <<page, rows, lapsed, list, counts, wish, excused>>

\* A request, and a grant that ends, come with an end of their own; an approval leaves it
OthersChange(u) ==
  /\ others < MaxOthers /\ others' = others + 1
  /\ \E r \in OthersMake(rows[u].has) :
       rows' = [rows EXCEPT ![u] =
                  [has |-> r, term |-> IF r \cap {"pending", "timed"} # {} /\ @.has \cap {"pending", "timed"} = {}
                                       THEN @.term + 1 ELSE @.term]]
  /\ wish' = [wish EXCEPT ![u] = "nothing"]
  /\ excused' = excused \cup {u}
  /\ UNCHANGED <<page, lapsed, list, assigned, sent, stale, clicks>>

(* The end of an access counts from its request: it may pass before the approval *)
Lapse(u) ==
  /\ rows[u].has \cap {"pending", "timed"} # {} /\ page \in {"account", "inbox"}
  /\ lapsed' = lapsed \cup {<<u, rows[u].term>>}
  /\ UNCHANGED <<page, rows, list, assigned, sent, stale, counts, wish, excused>>

AccessPagesNext ==
  \/ \E u \in People, what \in Asks : Click(u, what)
  \/ \E c \in sent : ServeAsk(c) \/ AnswerClick(c) \/ LoseClick(c)
  \/ ReadAgain \/ VisitAgain
  \/ \E u \in People : OthersChange(u) \/ Lapse(u)

AccessPagesSpec == AccessPagesInit /\ [][AccessPagesNext]_accessPageVars
-----------------------------------------------------------------------------
Settled == sent = {} /\ ~stale

\* With nothing under way the page shows the rows there are, but for a person whom another
\* changed or whose answer was lost; and whoever it says has access has it, unless the time ran
\* out since the list last changed or was last opened (DatabasePage.tsx:119).
ListedForCause ==
  Settled => \A u \in People \ excused :
               /\ list[u] = rows[u]
               /\ (u \in assigned) # (u \in ActiveAccess(rows)) => u \in Overdue

\* What a page offers the API does, if the rows are still those the page was looking at.  The
\* account's list alone offers what is bound to be refused: a person whose request waits or was
\* denied, or whose access has ended, is offered for a grant (DatabasePage.tsx:143) that finds
\* the row and says "Access already granted" (api_access.py:110).
OfferedIsAllowed ==
  [][\A b \in sent, c \in sent' :
       b.id = c.id /\ b.answer = "none" /\ c.answer = "refused" =>
         \/ c.saw # rows[c.who]
         \/ c.what = "grant" /\ \/ rows[c.who].has \cap {"pending", "denied"} # {}
                                \/ Lapsed(rows, c.who)]_accessPageVars

\* What a person's rows are once it was done
Done(what, r) ==
  CASE what \in {"grant", "approve"} -> r \cap {"lasting", "timed"} # {}
    [] what = "deny" -> "denied" \in r /\ r \cap InTheWay = {}
    [] what = "add" -> r = {"member"}
    [] what = "remove" -> r = {}

\* With nothing under way each person has what the admin last asked for them, unless it was
\* refused or its answer lost, another has changed it since, or two calls about the person crossed.
WishDone ==
  Settled => \A u \in People : wish[u] # "nothing" => Done(wish[u], rows[u].has)
=============================================================================
