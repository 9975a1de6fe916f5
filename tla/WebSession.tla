------------------------------ MODULE WebSession ------------------------------
(***************************************************************************)
(* A tab of the web app and the session it takes itself to be in.          *)
(*   frontend/src/lib/app-context.tsx, auth.ts, vault.ts,                  *)
(*   webapp/components/AppLayout.tsx, RouteGuard.tsx, AuthErrorModal.tsx,  *)
(*   the pages to log in, sign up and join a workspace                     *)
(* The token and the passphrase are in a storage all tabs share; what was  *)
(* read with a token, and the passphrase once more, are in the tab.        *)
(* Answers and passphrases are modelled by the token they belong to.       *)
(* Bounds: MaxOutside changes by other tabs or sessions that end without   *)
(* this tab, one mutation in flight, or one with one that changes the      *)
(* session.                                                                *)
(***************************************************************************)
EXTENDS Naturals, FiniteSets

CONSTANTS
  Memberships,  \* tokens of workspace sessions
  Onboarding,   \* the token of a session without a workspace
  MaxOutside

ASSUME SessionAssumption ==
  /\ {"no token", "off"} \cap (Memberships \cup {Onboarding}) = {}
  /\ MaxOutside \in Nat

Tokens == Memberships \cup {Onboarding}
NoToken == "no token"
Off == "off"
SessionPages == {"login", "onboarding", "home"}
Errands == {"login", "join", "leave", "logout", "switch", "profile", "unlock"}

VARIABLES
  token,     \* localStorage
  stored,    \* the passphrase in localStorage
  grade,     \* what the API takes a token for
  tab,       \* the page, and of AppProvider: hasToken, lastTokenRef, identitySessionDetected, vault
  me,        \* the query of the user and the workspace
  identity,  \* the query of the identity
  rows,      \* any other query of the pages of a workspace
  modal,     \* AuthErrorModal is open
  errand,    \* mutations in flight, with the token they were sent with
  outside,   \* changes made by other tabs and sessions that ended by themselves
  noticed,   \* the event of the token's last change has been handled
  cause      \* why the tab may show what is not its session's

storageVars == <<token, stored, grade>>
queryVars == <<me, identity, rows>>
sessionVars == <<storageVars, tab, queryVars, modal, errand, outside, noticed, cause>>

Unread == [data |-> NoToken, error |-> "none", asked |-> Off]
NoErrands == [k \in Errands |-> Off]

Reading == [data : Tokens \cup {NoToken}, error : {"none", "refused", "other"}, asked : Tokens \cup {NoToken, Off}]

SessionTypeOK ==
  /\ {token, stored} \subseteq Tokens \cup {NoToken} /\ {modal, noticed} \subseteq BOOLEAN
  /\ grade \in [Tokens -> {"workspace", "identity", "gone"}]
  /\ tab \in [page : SessionPages, has : BOOLEAN, last : Tokens \cup {NoToken}, detected : BOOLEAN, vault : Tokens \cup {NoToken}]
  /\ {me, identity, rows} \subseteq Reading
  /\ errand \in [Errands -> Tokens \cup {NoToken, Off}]
  /\ outside \in 0 .. MaxOutside /\ cause \subseteq {"elsewhere", "late", "over", "overtaken", "refused"}

\* A document that has been loaded: refreshToken runs before anything is answered
Loaded(page, t, passphrase) ==
  [page |-> page, has |-> t # NoToken, last |-> t, detected |-> FALSE, vault |-> passphrase]

SessionInit ==
  /\ token \in Tokens \cup {NoToken} /\ stored \in {NoToken, token} \ {Onboarding}
  /\ \E expired \in SUBSET {token} :
       grade = [t \in Tokens |-> IF t \in expired THEN "gone" ELSE IF t = Onboarding THEN "identity" ELSE "workspace"]
  /\ tab = Loaded("home", token, stored)
  /\ me = Unread /\ identity = Unread /\ rows = Unread /\ modal = FALSE /\ errand = NoErrands
  /\ outside = 0 /\ noticed = TRUE /\ cause = {}
-----------------------------------------------------------------------------
MeEnabled == tab.has /\ ~tab.detected
shouldCheckIdentity == tab.has /\ me.error = "refused"

sessionType ==
  IF ~tab.has THEN "none"
  ELSE IF me.data # NoToken THEN "workspace"
  ELSE IF shouldCheckIdentity /\ identity.data # NoToken THEN "identity" ELSE "none"

IsLoading(q) == q.data = NoToken /\ q.error = "none"
isAuthLoading == (MeEnabled /\ IsLoading(me)) \/ (shouldCheckIdentity /\ IsLoading(identity))

\* RouteGuard of PublicRoute, OnboardingRoute and ProtectedRoute
Allowed(page) == CASE page = "login" -> "none" [] page = "onboarding" -> "identity" [] page = "home" -> "workspace"
Shown(page) == tab.page = page /\ ~isAuthLoading /\ sessionType = Allowed(page)

\* A page that is left cancels what it fetches
Redirect ==
  /\ ~isAuthLoading /\ sessionType # Allowed(tab.page)
  /\ \E page \in SessionPages : Allowed(page) = sessionType /\ tab' = [tab EXCEPT !.page = page]
  /\ rows' = [rows EXCEPT !.asked = Off]
  /\ UNCHANGED <<storageVars, me, identity, modal, errand, outside, noticed, cause>>

\* window.location: everything but the storage is lost
Load(page, t, passphrase) ==
  /\ token' = t /\ stored' = passphrase /\ tab' = Loaded(page, t, passphrase)
  /\ me' = Unread /\ identity' = Unread /\ rows' = Unread /\ modal' = FALSE /\ errand' = NoErrands
  /\ noticed' = TRUE /\ UNCHANGED outside

\* The token, then clearVault and queryClient.clear, before any answer
Replace(t, page) ==
  /\ token' = t /\ stored' = NoToken /\ tab' = [tab EXCEPT !.page = page, !.vault = NoToken]
  /\ me' = Unread /\ identity' = Unread /\ rows' = Unread
  /\ noticed' = FALSE /\ cause' = IF errand.profile = Off /\ errand.unlock = Off THEN {} ELSE {"late"}
  /\ UNCHANGED outside

\* refreshToken.  invalidateQueries lets a first answer that is still awaited stand for the new token.
Refresh ==
  LET changed == token # tab.last
      awaited == me.data = NoToken /\ me.asked # Off
      returned == ~changed \* what this tab last knew, put back before it noticed
  IN  /\ ~noticed /\ noticed' = TRUE
      /\ tab' = [tab EXCEPT !.has = token # NoToken, !.last = token, !.detected = @ /\ ~changed]
      /\ IF changed THEN identity' = Unread ELSE UNCHANGED identity
      /\ me' = IF ~changed \/ (token # NoToken /\ awaited) THEN me
               ELSE IF token = NoToken THEN Unread ELSE [me EXCEPT !.asked = token, !.error = IF me.data = NoToken THEN "none" ELSE @]
      /\ cause' = IF token # NoToken /\ ((awaited /\ me.asked # token) \/ returned) THEN cause \cup {"overtaken"} ELSE cause
      /\ UNCHANGED <<storageVars, rows, modal, errand, outside>>

\* A fetch, first or again
Ask(q) == [q EXCEPT !.asked = token, !.error = IF q.data = NoToken THEN "none" ELSE @]
ReadBy(q) == [data |-> q.asked, error |-> "none", asked |-> Off]
Failed(q, error) == [q EXCEPT !.error = error, !.asked = Off]

\* What authFetch comes back with, where the API wants a session of one of the grades
Answers(q, grades) ==
  {IF q.asked # NoToken /\ grade[q.asked] \in grades THEN ReadBy(q) ELSE Failed(q, "refused"), Failed(q, "other")}

AskMe ==
  /\ MeEnabled /\ me.asked = Off /\ me' = Ask(me)
  /\ UNCHANGED <<storageVars, tab, identity, rows, modal, errand, outside, noticed, cause>>

AnswerMe ==
  /\ me.asked # Off /\ me' \in Answers(me, {"workspace"})
  /\ UNCHANGED <<storageVars, tab, identity, rows, modal, errand, outside, noticed, cause>>

AskIdentity ==
  /\ shouldCheckIdentity /\ IsLoading(identity) /\ identity.asked = Off /\ identity' = Ask(identity)
  /\ UNCHANGED <<storageVars, tab, me, rows, modal, errand, outside, noticed, cause>>

AnswerIdentity ==
  /\ identity.asked # Off /\ identity' \in Answers(identity, {"workspace", "identity"})
  /\ tab' = [tab EXCEPT !.detected = identity'.data # NoToken]
  /\ UNCHANGED <<storageVars, me, rows, modal, errand, outside, noticed, cause>>

\* Mutant: any failure to say who one is ends the session
FailOnAny == me.error # "none"
\* Neither a user nor an identity
Refused == me.error = "refused" /\ identity.error = "refused"

\* handleAuthFailure.  On the login page, where RouteGuard may have led by then, the tab goes on
\* with the rows and the passphrase it has.
FailAuth ==
  /\ tab.has /\ Refused
  /\ \/ /\ tab.page # "login" /\ Load("login", NoToken, NoToken) /\ cause' = {}
     \/ /\ tab.page = "login" /\ token' = NoToken /\ stored' = NoToken
        /\ tab' = [tab EXCEPT !.has = FALSE, !.last = NoToken, !.detected = FALSE]
        /\ me' = Unread /\ identity' = Unread /\ noticed' = FALSE /\ cause' = cause \cup {"refused"}
        /\ UNCHANGED <<rows, modal, errand, outside>>
  /\ UNCHANGED grade

AskRows ==
  /\ Shown("home") /\ rows.asked = Off /\ rows' = Ask(rows)
  /\ UNCHANGED <<storageVars, tab, me, identity, modal, errand, outside, noticed, cause>>

\* handleGlobalQueryError: a token that is not valid, not one that is missing
AnswerRows ==
  /\ rows.asked # Off
  /\ \E answer \in Answers(rows, {"workspace"}) :
       /\ rows' = [answer EXCEPT !.error = "none"]
       /\ modal' = (modal \/ (answer.error = "refused" /\ rows.asked # NoToken))
  /\ UNCHANGED <<storageVars, tab, me, identity, errand, outside, noticed, cause>>

ModalLogout ==
  /\ modal /\ Load("login", NoToken, NoToken) /\ cause' = {} /\ UNCHANGED grade
-----------------------------------------------------------------------------
\* Where each is begun; not under the modal
From == [login |-> "login", join |-> "onboarding", leave |-> "onboarding",
         logout |-> "home", switch |-> "home", profile |-> "home", unlock |-> "home"]

BeginErrand(k) ==
  /\ ~modal /\ Shown(From[k]) /\ \A o \in Errands : errand[o] # Off => {k, o} = {"switch", "profile"} \/ {k, o} = {"logout", "unlock"}
  /\ errand' = [errand EXCEPT ![k] = token]
  /\ UNCHANGED <<storageVars, tab, queryVars, modal, outside, noticed, cause>>

\* DevLoginPage forgets the token before it asks for another
BeginDevLogin ==
  /\ ~modal /\ Shown("login") /\ \A o \in Errands : errand[o] = Off
  /\ errand' = [errand EXCEPT !.login = token] /\ token' = NoToken /\ noticed' = FALSE
  /\ cause' = IF stored # NoToken THEN cause \cup {"over"} ELSE cause
  /\ UNCHANGED <<stored, grade, tab, queryVars, modal, outside>>

Finished(k) == errand' = [errand EXCEPT ![k] = Off]

Accepts(k, grades) == errand[k] \in Tokens /\ grade[errand[k]] \in grades

ErrandFails(k) ==
  /\ errand[k] # Off /\ k \notin {"logout", "leave"} /\ Finished(k)
  /\ modal' = (modal \/ (k # "login" /\ errand[k] \in Tokens /\ ~Accepts(k, IF k \in {"join", "switch"} THEN {"workspace", "identity"} ELSE {"workspace"})))
  /\ UNCHANGED <<storageVars, tab, queryVars, outside, noticed, cause>>

\* A session begins where another one's passphrase is still stored
Begun(t) == cause' = IF stored \notin {NoToken, t} THEN {"over"} ELSE {}

\* verify_login_code, completeGoogleAuth, devlogin
LoggedIn(t) ==
  /\ errand.login # Off /\ grade[t] # "gone"
  /\ Load(IF grade[t] = "workspace" THEN "home" ELSE "onboarding", t, stored) /\ Begun(t) /\ UNCHANGED grade

\* handleWorkspaceSuccess
Joined(t) ==
  /\ Accepts("join", {"workspace", "identity"}) /\ grade[t] = "workspace" /\ Load("home", t, stored) /\ Begun(t) /\ UNCHANGED grade

\* The API ends a workspace's session only
SessionEnds(k) == grade' \in {grade} \cup (IF Accepts(k, {"workspace"}) THEN {[grade EXCEPT ![errand[k]] = "gone"]} ELSE {})

Left ==
  /\ errand.leave # Off /\ SessionEnds("leave") /\ Load("login", NoToken, NoToken) /\ cause' = {}

LoggedOut ==
  /\ errand.logout # Off /\ SessionEnds("logout") /\ Finished("logout") /\ Replace(NoToken, "login")
  /\ UNCHANGED modal

\* Mutant: handleWorkspaceSwitch without clear
SwitchKeeping(t) ==
  /\ token' = t /\ stored' = NoToken /\ tab' = [tab EXCEPT !.page = "home", !.vault = NoToken]
  /\ noticed' = FALSE /\ UNCHANGED <<queryVars, outside, cause>>

Enter(t) == Replace(t, "home")

\* handleWorkspaceSwitch
Switched(t) ==
  /\ Accepts("switch", {"workspace", "identity"}) /\ grade[t] = "workspace" /\ t # errand.switch
  /\ Finished("switch") /\ Enter(t) /\ UNCHANGED <<grade, modal>>

Late(k) == IF errand[k] # token THEN cause \cup {"late"} ELSE cause

\* useUpdateProfile: setQueryData
ProfileSaved ==
  /\ Accepts("profile", {"workspace"}) /\ Finished("profile")
  /\ me' = [me EXCEPT !.data = errand.profile, !.error = "none"] /\ cause' = Late("profile")
  /\ UNCHANGED <<storageVars, tab, identity, rows, modal, outside, noticed>>

\* test_passphrase, then setVault
Unlocked ==
  /\ Accepts("unlock", {"workspace"}) /\ Finished("unlock")
  /\ stored' = errand.unlock /\ tab' = [tab EXCEPT !.vault = errand.unlock] /\ cause' = Late("unlock")
  /\ UNCHANGED <<token, grade, queryVars, modal, outside, noticed>>

\* Another tab logs in, out or elsewhere
OtherTab ==
  /\ outside < MaxOutside /\ outside' = outside + 1
  /\ token' \in {t \in Tokens : grade[t] # "gone"} \cup {NoToken} /\ token' # token
  /\ stored' \in {NoToken, stored}
  /\ noticed' = FALSE /\ cause' = cause \cup {"elsewhere"}
  /\ UNCHANGED <<grade, tab, queryVars, modal, errand>>

\* It expires, or the user is deactivated and the identity is left
SessionDrops ==
  /\ outside < MaxOutside /\ outside' = outside + 1
  /\ token # NoToken
  /\ \E g \in {"identity", "gone"} : grade[token] \notin {g, "gone"} /\ grade' = [grade EXCEPT ![token] = g]
  /\ UNCHANGED <<token, stored, tab, queryVars, modal, errand, noticed, cause>>

SessionNext ==
  \/ Redirect \/ Refresh \/ AskMe \/ AnswerMe \/ AskIdentity \/ AnswerIdentity \/ FailAuth
  \/ AskRows \/ AnswerRows \/ ModalLogout \/ BeginDevLogin \/ Left \/ LoggedOut
  \/ ProfileSaved \/ Unlocked \/ OtherTab \/ SessionDrops
  \/ \E k \in Errands : BeginErrand(k) \/ ErrandFails(k)
  \/ \E t \in Tokens : LoggedIn(t)
  \/ \E t \in Memberships : Joined(t) \/ Switched(t)

SessionSpec == SessionInit /\ [][SessionNext]_sessionVars
-----------------------------------------------------------------------------
(* What may be expected of it *)

\* The rows a workspace's page shows are those of the user it names, unless another tab has
\* changed the token or a mutation of an earlier session was answered in this one.
RowsFit ==
  Shown("home") /\ cause \cap {"elsewhere", "late", "overtaken"} = {} => rows.data \in {NoToken, me.data}

\* Who the tab says one is, once it knows of the token and nothing is being asked, is whom
\* the token says; and one is asked to join a workspace only if the token is of none.
NameFits ==
  noticed /\ me.asked = Off /\ cause \cap {"late", "overtaken"} = {} =>
    /\ sessionType = "workspace" /\ me.error = "none" => me.data = token
    /\ sessionType = "identity" => identity.data = token /\ grade[token] # "workspace"

\* The passphrase that is taken for checked is that of the session, unless the session began
\* over another, another tab changed it, or the check was answered in a later session.
PassphraseFits ==
  Shown("home") /\ cause = {} => tab.vault \in {NoToken, me.data}

\* Without a token nothing of an earlier session is left in the tab or stored.
NothingLeft ==
  token = NoToken /\ noticed /\ cause = {} =>
    stored = NoToken /\ tab.vault = NoToken /\ me.data = NoToken /\ identity.data = NoToken /\ rows.data = NoToken

\* A token that is good for something is given up by what the user does only, unless another
\* tab has put it in the place of one that was not.
TokenKept ==
  [][token' # token /\ token # NoToken /\ grade[token] # "gone" /\ outside' = outside =>
       \/ \E k \in Errands : errand[k] # errand'[k]
       \/ modal
       \/ "elsewhere" \in cause]_sessionVars
=============================================================================
