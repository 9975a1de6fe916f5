----------------------------- MODULE VaultGate -----------------------------
(***************************************************************************)
(* The vault's gate in one tab of the web app, and the page that replaces  *)
(* a key.                                                                  *)
(*                                                                         *)
(* A page that needs the vault is behind a gate, which shows what the user *)
(* is to do first: create a key, wait for its approval or type the         *)
(* passphrase.  The gate judges by the cached answer of /user/me, by the   *)
(* passphrase the tab keeps and by what the API says of it.  The pages of  *)
(* one layout have one gate, which stays between them.  A key is created   *)
(* by one call, its passphrase shown once, and confirmed by another; a     *)
(* call goes on when the page it came from is left.                        *)
(***************************************************************************)
EXTENDS Naturals, FiniteSets, SequencesExt

CONSTANTS
  MaxKeys,    \* keys of the user
  MaxCalls,   \* calls under way at a time
  MaxChangesOfKeys   \* changes made by others

ASSUME GateAssumption == MaxKeys \in Nat \ {0} /\ {MaxCalls, MaxChangesOfKeys} \subseteq Nat

VARIABLES
  \* the server: the user's keys, those confirmed in the order of confirmed_at
  status, order,
  solo,        \* the user is the only admin
  managed,     \* the workspace is not in vault mode
  \* the query me: what is cached, and the fetch under way
  known, fetch,
  \* the tab
  page,        \* one behind a gate, or the key reset
  pass,        \* the key whose passphrase is kept as validated
  gate, complete, inProgress,
  testing,     \* the stored passphrase's test: the key, and the answer
  typed,       \* the unlock screen's test, which outlives the screen
  step,        \* of the key reset
  shown,       \* the key whose passphrase is shown
  requests,    \* the calls that create or confirm a key
  \* history
  saved,       \* the keys whose passphrase the user has saved
  excused,     \* the gate may be open for another reason than the passphrase
  behind,      \* why me may be behind the server and nobody asks
  untold,      \* keys retired where the tab was not told
  changes      \* changes made by others

serverVars == <<status, order, solo, managed>>
meVars == <<known, fetch>>
gateVars == <<gate, complete, inProgress, testing>>
gateHistory == <<saved, excused, behind, untold, changes>>
vaultGateVars == <<serverVars, meVars, page, pass, gateVars, typed, step, shown, requests, gateHistory>>

Slots == 1..MaxKeys
None0 == 0

\* A gate that is not there needs no excuse
Excused == excused \/ page = "gated"

\* The server has said which key is tried, and the gate goes by it
Relied == gate = "unlocked" \/ "yes" \in {typed.pc, testing.pc}

Known == [key : {None0} \cup Slots, approved : BOOLEAN]
NoUser == [key |-> None0, approved |-> FALSE]
NoFetch == [pc |-> "idle", answer |-> NoUser]
Fetch == [NoFetch EXCEPT !.pc = "sent"]

\* here: the gate that sent it is still the one shown
NoTest == [pass |-> None0, pc |-> "idle", here |-> FALSE]
Testing(k) == [pass |-> k, pc |-> "sent", here |-> TRUE]

\* here: the page that sent it is still the one shown
KeyCall == [op : {"create", "confirm"}, key : {None0} \cup Slots, from : {"gated", "reset"},
            here : BOOLEAN, pc : {"sent", "ok", "failed"}]
-----------------------------------------------------------------------------
(***************************************************************************)
(* The API                                                                 *)
(***************************************************************************)
\* The last of the confirmed keys that is as asked
LastIn(states) ==
  LET of == {i \in DOMAIN order : status[order[i]] \in states} IN
  IF of = {} THEN None0 ELSE order[Max(of)]

\* get_current_key: confirmed and not revoked
CurrentKey == LastIn({"pending", "active"})

MeNow == [key |-> CurrentKey, approved |-> CurrentKey # None0 /\ status[CurrentKey] = "active"]

\* test_passphrase tries the active key, and the pending one when there is none
TestedKey == IF LastIn({"active"}) # None0 THEN LastIn({"active"}) ELSE LastIn({"pending"})

Fresh == {k \in Slots : status[k] = "none"}

\* confirm_key: revokes the other keys.  A key that is confirmed is a success at once
ConfirmAt(k) ==
  IF status[k] = "created"
  THEN /\ status' = [o \in Slots |-> IF o = k THEN "pending"
                                     ELSE IF status[o] = "none" THEN "none" ELSE "revoked"]
       /\ order' = Append(order, k)
  ELSE UNCHANGED <<status, order>>
-----------------------------------------------------------------------------
(***************************************************************************)
(* The gate's effects, which run after every render                        *)
(***************************************************************************)
\* Mutant: a key that is approved opens the gate at once
JudgedByKey(g, m, p, done, going) ==
  IF managed \/ m.approved THEN "unlocked"
  ELSE IF m.key = None0 THEN "needs_create" ELSE "needs_approval"

\* determineStatus, for what is known, the passphrase p and whether it is or was tested
Judged(g, m, p, done, going) ==
  IF g = "unlocked" THEN g
  ELSE IF managed THEN "unlocked"
  ELSE IF m.key = None0 THEN "needs_create"
  ELSE IF ~m.approved THEN "needs_approval"
  ELSE IF going \/ (p # None0 /\ ~done) THEN g
  ELSE "needs_unlock"

\* Whether it sends the stored passphrase to be tested
Tests(g, m, p, done, going) ==
  g # "unlocked" /\ ~managed /\ m.approved /\ p # None0 /\ ~done /\ ~going

\* The tab after its effects.  The refs are reset when no passphrase is kept; the screens that
\* show a passphrase go when the gate shows another.
Settled(at, g, m, p, d, i, t, sh) ==
  LET kept == p # None0 \/ p = pass
      done == d /\ kept
      going == i /\ kept IN
  /\ page' = at /\ known' = m /\ pass' = p
  /\ IF at = "gated"
     THEN /\ gate' = Judged(g, m, p, done, going)
          /\ complete' = done
          /\ inProgress' = (going \/ Tests(g, m, p, done, going))
          /\ testing' = IF Tests(g, m, p, done, going) THEN Testing(p) ELSE t
          /\ shown' = IF gate' \in {"needs_create", "needs_approval"} THEN sh ELSE None0
     ELSE /\ gate' = "loading" /\ complete' = FALSE /\ inProgress' = FALSE /\ testing' = NoTest
          /\ shown' = sh

Rendered(m, p, sh) == Settled(page, gate, m, p, complete, inProgress, testing, sh)

\* The step VaultKeyEmptyState shows, once its own effect has run
EmptyStep == IF shown # None0 THEN 2 ELSE IF gate = "needs_create" THEN 1 ELSE 3

OfferedByGate == page = "gated" /\ gate \in {"needs_create", "needs_approval"} /\ EmptyStep = 1

\* The only admin is shown another screen
OfferedByReset == page = "reset" /\ ~solo /\ step = 1
-----------------------------------------------------------------------------
VaultGateInit ==
  /\ solo \in BOOLEAN /\ managed \in BOOLEAN
  /\ status \in {[k \in Slots |-> IF k = 1 THEN s ELSE "none"] : s \in {"none", "active"}}
  /\ order = IF status[1] = "active" THEN <<1>> ELSE <<>>
  /\ managed => order = <<>> /\ ~solo
  /\ known = MeNow /\ fetch = NoFetch
  /\ page = "gated" /\ pass \in {None0, 1} /\ (pass = 1 => order # <<>>)
  /\ gate = Judged("loading", known, pass, FALSE, FALSE)
  /\ complete = FALSE /\ inProgress = Tests("loading", known, pass, FALSE, FALSE)
  /\ testing = (IF inProgress THEN Testing(pass) ELSE NoTest)
  /\ typed = NoTest /\ step = 1 /\ shown = None0 /\ requests = {}
  /\ saved = ToSet(order) /\ excused = FALSE /\ behind = {} /\ untold = {} /\ changes = 0

\* A page of another layout is opened, with a gate of its own or none, and the one shown is left
\* with all it kept; from one admin's page to another, and on the home page, the gate stays
Go(at) ==
  /\ ~(at = "reset" /\ page = "reset")
  /\ Settled(at, "loading", known, pass, FALSE, FALSE, NoTest, None0)
  /\ step' = 1
  /\ requests' = {[c EXCEPT !.here = FALSE] : c \in requests}
  /\ typed' = [typed EXCEPT !.here = FALSE]
  /\ excused' = FALSE
  /\ UNCHANGED <<serverVars, fetch, saved, behind, untold, changes>>

(***************************************************************************)
(* me: asked again when it is stale or invalidated                         *)
(***************************************************************************)
AskUser ==
  /\ fetch = NoFetch /\ fetch' = Fetch
  /\ UNCHANGED <<serverVars, known, page, pass, gateVars, typed, step, shown, requests, gateHistory>>

ServeUser ==
  /\ fetch.pc = "sent" /\ fetch' = [pc |-> "answered", answer |-> MeNow]
  /\ UNCHANGED <<serverVars, known, page, pass, gateVars, typed, step, shown, requests, gateHistory>>

AnswerUser ==
  /\ fetch.pc = "answered" /\ fetch' = NoFetch
  /\ Rendered(fetch.answer, pass, shown)
  /\ behind' = IF fetch.answer = MeNow THEN {} ELSE behind
  /\ UNCHANGED <<serverVars, typed, step, requests, saved, excused, untold, changes>>

FailUser ==
  /\ fetch.pc # "idle" /\ fetch' = NoFetch
  /\ behind' = behind \cup {"missed"}
  /\ UNCHANGED <<serverVars, known, page, pass, gateVars, typed, step, shown, requests,
                 saved, excused, untold, changes>>
-----------------------------------------------------------------------------
(***************************************************************************)
(* The stored passphrase is tested once, a typed one whenever it is sent   *)
(***************************************************************************)
Says(k) == IF TestedKey = k THEN "yes" ELSE "no"

ServeTest ==
  /\ testing.pc = "sent" /\ testing' = [testing EXCEPT !.pc = Says(testing.pass)]
  /\ UNCHANGED <<serverVars, meVars, page, pass, gate, complete, inProgress, typed, step, shown,
                 requests, gateHistory>>

\* A test that fails counts as one that says no
AnswerTest ==
  \E said \in {testing.pc, "no"} :
    /\ testing.pc # "idle" /\ said # "sent"
    /\ page' = page /\ known' = known /\ pass' = pass
    /\ gate' = Judged(IF said = "yes" THEN "unlocked" ELSE "needs_unlock", known, pass, TRUE, FALSE)
    /\ complete' = TRUE /\ inProgress' = FALSE /\ testing' = NoTest
    /\ shown' = IF gate' \in {"needs_create", "needs_approval"} THEN shown ELSE None0
    /\ UNCHANGED <<serverVars, fetch, typed, step, requests, gateHistory>>

\* The user types a passphrase they have, or what is none
Unlock ==
  /\ page = "gated" /\ gate = "needs_unlock" /\ typed = NoTest
  /\ \E k \in saved \cup {None0} : typed' = Testing(k)
  /\ UNCHANGED <<serverVars, meVars, page, pass, gateVars, step, shown, requests, gateHistory>>

ServeUnlock ==
  /\ typed.pc = "sent"
  /\ typed' = [typed EXCEPT !.pc = IF typed.pass = None0 THEN "no" ELSE Says(typed.pass)]
  /\ UNCHANGED <<serverVars, meVars, page, pass, gateVars, step, shown, requests, gateHistory>>

\* onSuccess keeps the passphrase also when the screen is gone
AnswerUnlock ==
  /\ typed.pc # "idle" /\ typed' = NoTest
  /\ \/ /\ typed.pc = "yes"
        /\ IF typed.here THEN Settled(page, "unlocked", known, typed.pass, TRUE, inProgress, testing, shown)
           ELSE Rendered(known, typed.pass, shown)
        /\ IF status[typed.pass] = "revoked"
           THEN untold' = untold \cup {typed.pass} /\ excused' = Excused
           ELSE UNCHANGED <<untold, excused>>
     \/ UNCHANGED <<known, page, pass, gateVars, shown, untold, excused>>
  /\ UNCHANGED <<serverVars, fetch, step, requests, saved, behind, changes>>

\* Lock Vault, in the layout of every page but the key reset
Lock ==
  /\ page = "gated" /\ pass # None0 /\ ~managed
  /\ Rendered(known, None0, shown)
  /\ excused' = Excused
  /\ UNCHANGED <<serverVars, fetch, typed, step, requests, saved, behind, untold, changes>>
-----------------------------------------------------------------------------
(***************************************************************************)
(* A key is created and confirmed, behind the gate or by the key reset     *)
(***************************************************************************)
Call(op, k) == [op |-> op, key |-> k, from |-> page, here |-> TRUE, pc |-> "sent"]

Send(c) == Cardinality(requests) < MaxCalls /\ c \notin requests /\ requests' = requests \cup {c}

Pending(op) == \E c \in requests : c.op = op /\ c.here

Becomes(c, d) == requests' = (requests \ {c}) \cup {d}

CallCreate ==
  /\ OfferedByGate \/ OfferedByReset
  /\ ~managed /\ ~Pending("create")
  /\ Send(Call("create", None0))
  /\ UNCHANGED <<serverVars, meVars, page, pass, gateVars, typed, step, shown, gateHistory>>

\* create_key: the key of the only admin is confirmed and approved at once
ServeCreate(c) ==
  /\ c.op = "create" /\ c.pc = "sent" /\ Fresh # {}
  /\ LET k == Min(Fresh) IN
     /\ status' = [status EXCEPT ![k] = IF solo THEN "active" ELSE "created"]
     /\ order' = IF solo THEN Append(order, k) ELSE order
     /\ behind' = IF solo THEN behind \cup {"unanswered"} ELSE behind
     /\ excused' = IF solo /\ Relied THEN Excused ELSE excused
     /\ Becomes(c, [c EXCEPT !.key = k, !.pc = "ok"])
  /\ UNCHANGED <<solo, managed, meVars, page, pass, gateVars, typed, step, shown,
                 saved, untold, changes>>

\* The passphrase is shown if the page that asked for it is there
AnswerCreate(c) ==
  /\ c.op = "create" /\ c.pc = "ok"
  /\ requests' = requests \ {c}
  /\ IF c.here /\ (page = "gated" => gate \in {"needs_create", "needs_approval"})
     THEN shown' = c.key /\ step' = (IF page = "reset" THEN 2 ELSE 1)
     ELSE UNCHANGED <<shown, step>>
  /\ UNCHANGED <<serverVars, meVars, page, pass, gateVars, typed, gateHistory>>

\* What is confirmed is what is shown, once the user has ticked that it is saved
CallConfirm ==
  /\ Send(Call("confirm", shown))
  /\ saved' = saved \cup {shown}
  /\ UNCHANGED <<serverVars, meVars, page, pass, gateVars, typed, step, shown,
                 excused, behind, untold, changes>>

\* Continue may be pressed again while its call is under way
Continue == page = "gated" /\ EmptyStep = 2 /\ CallConfirm

CompleteReset == page = "reset" /\ step = 2 /\ shown # None0 /\ ~Pending("confirm") /\ CallConfirm

ServeConfirm(c) ==
  /\ c.op = "confirm" /\ c.pc = "sent"
  /\ IF status[c.key] = "revoked" THEN UNCHANGED <<status, order>> ELSE ConfirmAt(c.key)
  /\ Becomes(c, [c EXCEPT !.pc = IF status[c.key] = "revoked" THEN "failed" ELSE "ok"])
  /\ behind' = IF order' # order THEN behind \cup {"unanswered"} ELSE behind
  /\ excused' = IF order' # order /\ Relied THEN Excused ELSE excused
  /\ UNCHANGED <<solo, managed, meVars, page, pass, gateVars, typed, step, shown,
                 saved, untold, changes>>

Confirmed(c, from) ==
  /\ c.op = "confirm" /\ c.pc = "ok" /\ c.from = from
  /\ requests' = requests \ {c}
  /\ fetch' = Fetch
  /\ behind' = behind \ {"unanswered"}
  /\ UNCHANGED <<serverVars, typed, saved, changes>>

\* What was shown goes, if its screen is there; the passphrase that is kept stays
AnswerContinue(c) ==
  /\ Confirmed(c, "gated")
  /\ Rendered(known, pass, IF c.here THEN None0 ELSE shown)
  /\ untold' = untold \cup ({pass} \cap Slots)
  /\ UNCHANGED <<step, excused>>

\* Mutant: the reset keeps the old passphrase
AnswerResetOpen(c) ==
  /\ Confirmed(c, "reset")
  /\ Rendered(known, pass, IF c.here THEN None0 ELSE shown)
  /\ step' = IF c.here THEN 3 ELSE step
  /\ UNCHANGED <<excused, untold>>

\* The reset locks the vault, wherever the user is by now
AnswerReset(c) ==
  /\ Confirmed(c, "reset")
  /\ Rendered(known, None0, IF c.here THEN None0 ELSE shown)
  /\ step' = IF c.here THEN 3 ELSE step
  /\ excused' = Excused
  /\ UNCHANGED untold

\* A call fails, whether or not the server has done what it asked
FailCall(c) ==
  /\ requests' = requests \ {c}
  /\ untold' = IF c.op = "confirm" /\ c.pc = "ok" THEN untold \cup ({pass} \cap Slots) ELSE untold
  /\ UNCHANGED <<serverVars, meVars, page, pass, gateVars, typed, step, shown,
                 saved, excused, behind, changes>>
-----------------------------------------------------------------------------
(***************************************************************************)
(* Others: an admin approves or revokes, another tab replaces the key      *)
(***************************************************************************)
Approve ==
  /\ changes < MaxChangesOfKeys /\ changes' = changes + 1
  /\ \E k \in Slots : status[k] = "pending" /\ status' = [status EXCEPT ![k] = "active"]
  /\ UNCHANGED <<order, solo, managed, meVars, page, pass, gateVars, typed, step, shown, requests,
                 saved, excused, behind, untold>>

RevokedElsewhere ==
  /\ changes < MaxChangesOfKeys /\ changes' = changes + 1
  /\ \E k \in Slots :
       /\ status[k] \in {"pending", "active"} /\ status' = [status EXCEPT ![k] = "revoked"]
       /\ untold' = untold \cup {k}
  /\ excused' = Excused
  /\ UNCHANGED <<order, solo, managed, meVars, page, pass, gateVars, typed, step, shown, requests,
                 saved, behind>>

ReplacedElsewhere ==
  /\ changes < MaxChangesOfKeys /\ changes' = changes + 1
  /\ Fresh # {} /\ ~managed /\ ~solo
  /\ LET k == Max(Fresh) IN
     /\ status' = [o \in Slots |-> IF o = k THEN "pending"
                                   ELSE IF status[o] = "none" THEN "none" ELSE "revoked"]
     /\ order' = Append(order, k)
     /\ saved' = saved \cup {k}
  /\ untold' = untold \cup Slots
  /\ excused' = (IF Relied THEN Excused ELSE excused) /\ behind' = behind \cup {"missed"}
  /\ UNCHANGED <<solo, managed, meVars, page, pass, gateVars, typed, step, shown, requests>>

Leaves == Go("gated") \/ Go("reset")

VaultGateNext ==
  \/ Leaves
  \/ AskUser \/ ServeUser \/ AnswerUser \/ FailUser
  \/ ServeTest \/ AnswerTest \/ Unlock \/ ServeUnlock \/ AnswerUnlock \/ Lock
  \/ CallCreate \/ Continue \/ CompleteReset
  \/ \E c \in requests :
       \/ ServeCreate(c) \/ AnswerCreate(c) \/ ServeConfirm(c)
       \/ AnswerContinue(c) \/ AnswerReset(c) \/ FailCall(c)
  \/ Approve \/ RevokedElsewhere \/ ReplacedElsewhere

VaultGateSpec == VaultGateInit /\ [][VaultGateNext]_vaultGateVars
-----------------------------------------------------------------------------
\* The type of the state.
VaultGateTypeOK ==
  /\ status \in [Slots -> {"none", "created", "pending", "active", "revoked"}]
  /\ order \in Seq(Slots) /\ {solo, managed, complete, inProgress, excused} \subseteq BOOLEAN
  /\ known \in Known /\ fetch \in [pc : {"idle", "sent", "answered"}, answer : Known]
  /\ page \in {"gated", "reset"} /\ pass \in {None0} \cup Slots
  /\ gate \in {"loading", "needs_create", "needs_approval", "needs_unlock", "unlocked"}
  /\ {testing, typed} \subseteq [pass : {None0} \cup Slots, pc : {"idle", "sent", "yes", "no"}, here : BOOLEAN]
  /\ step \in 1..3 /\ shown \in {None0} \cup Slots /\ requests \subseteq KeyCall
  /\ saved \subseteq Slots /\ behind \subseteq {"missed", "unanswered"} /\ untold \subseteq Slots
  /\ changes \in 0..MaxChangesOfKeys

\* A gate is open, in vault mode, only with the passphrase of the key the server takes it for,
\* but for what has happened since the gate was there: the vault was locked, a key was revoked
\* elsewhere, another came into force after the server had said yes to the one the gate goes by,
\* or a passphrase typed before was answered after its key had been retired.
OpenFits == gate = "unlocked" /\ ~managed /\ ~excused => pass # None0 /\ pass = TestedKey

\* A user who has a key is not offered to create one, but while me is fetched or the passphrase
\* that is kept is tested, or where nobody tells the tab to fetch it: the fetch failed, the key
\* was made elsewhere, by a call that is not answered, or for the only admin, whose key is in
\* force before its passphrase is saved.
OfferFits ==
  OfferedByGate /\ CurrentKey # None0 => fetch # NoFetch \/ inProgress \/ behind # {}

\* A passphrase of a retired key is not kept, but while the confirmation that retired it is not
\* answered, where the tab was not told, where it was typed before and answered after, or where
\* the screen behind the gate confirmed the new one, which locks nothing.
RetiredForgotten ==
  pass # None0 /\ status[pass] = "revoked" =>
    pass \in untold \/ \E c \in requests : c.op = "confirm" /\ c.pc = "ok"

\* The passphrase of a key that waits for its confirmation is shown until the user leaves, the
\* gate finds another key of theirs in force (a test under way may even open it), or a call that
\* confirmed the key before it is answered late: Continue may have been pressed twice, and what
\* the second answer puts away is whatever is shown by then.
ShownKept ==
  [][shown # None0 /\ shown' # shown =>
       \/ Leaves \/ gate' \in {"unlocked", "needs_unlock"} \/ status[shown] # "created"
       \/ \E c \in requests \ requests' : c.op = "confirm" /\ c.here /\ c.key # shown]_vaultGateVars

\* A key in force is retired by this tab for one whose passphrase the user has saved.
RetiredForSaved ==
  [][\A k \in Slots : status[k] = "active" /\ status'[k] = "revoked" /\ changes' = changes =>
       \E n \in saved : status[n] = "created" /\ status'[n] = "pending"]_vaultGateVars
=============================================================================
