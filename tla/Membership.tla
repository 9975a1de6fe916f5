----------------------------- MODULE Membership -----------------------------
(***************************************************************************)
(* The members of one workspace and their sessions (accounts/api_group.py, *)
(* api_auth.py, api_identity.py, api_workspace.py, signals.py).            *)
(*                                                                         *)
(* A session carries a copy of its user's role, and every permission check *)
(* reads the copy.  A change of role is saved first and copied to the      *)
(* sessions by a signal in a query of its own; a login reads the user and  *)
(* inserts the session later.  Each query, or transaction, is one step.    *)
(***************************************************************************)
CONSTANTS
  Users,       \* people, each with at most one User row in the workspace
  Founders,    \* admins from the start
  Workers,     \* API workers, one request each
  CanCrash     \* whether a worker may die

ASSUME FoundersAssumption == Founders \subseteq Users
ASSUME CrashAssumption == CanCrash \in BOOLEAN

None == "none"
Roles == {"admin", "member"}

VARIABLES
  role,         \* User.role; None: no row
  deactivated,  \* users whose deactivated_at is set
  sessions,     \* the user and the copied role of each session, equal ones being one
  req,          \* the request each worker serves
  raced         \* history: users whose sessions two requests or a crash may have left wrong

userVars == <<role, deactivated>>
vars == <<role, deactivated, sessions, req, raced>>

Session == [user : Users, role : Roles]

Request ==
  [pc : {"idle", "login", "role", "sync", "deactivate", "revoke"},
   by : Users \cup {None}, user : Users \cup {None}, role : Roles \cup {None}]

Idle == [pc |-> "idle", by |-> None, user |-> None, role |-> None]

TypeOK ==
  /\ role \in [Users -> Roles \cup {None}]
  /\ deactivated \subseteq Users
  /\ sessions \subseteq Session
  /\ req \in [Workers -> Request]
  /\ raced \subseteq Users
-----------------------------------------------------------------------------
Active(u) == role[u] # None /\ u \notin deactivated
ActiveAdmins == {u \in Users : Active(u) /\ role[u] = "admin"}

\* A session by which a request for admins is let in (AuthWorkspace, require_admin)
AdminSession(s) == s \in sessions /\ Active(s.user) /\ s.role = "admin"

Begin(w, r) == req[w].pc = "idle" /\ req' = [req EXCEPT ![w] = r]
Finish(w) == req' = [req EXCEPT ![w] = Idle]

\* Requests other than w's that hold a copy of u's role
HoldsRole(w, u) == \E v \in Workers \ {w} : req[v].pc \in {"login", "sync"} /\ req[v].user = u
LogsIn(w, u) == \E v \in Workers \ {w} : req[v].pc = "login" /\ req[v].user = u

Init ==
  /\ role = [u \in Users |-> IF u \in Founders THEN "admin" ELSE None]
  /\ deactivated = {} /\ sessions = {}
  /\ req = [w \in Workers |-> Idle]
  /\ raced = {}
-----------------------------------------------------------------------------
(***************************************************************************)
(* Sessions                                                                *)
(***************************************************************************)
\* Mutant: a login does not look for the User row
LoginReadAnyone(w, u) ==
  /\ Begin(w, [Idle EXCEPT !.pc = "login", !.user = u, !.role = role[u]])
  /\ UNCHANGED <<userVars, sessions, raced>>

\* The identity is known by then: a password, a code or another session was presented
LoginRead(w, u) ==
  /\ Active(u)
  /\ Begin(w, [Idle EXCEPT !.pc = "login", !.user = u, !.role = role[u]])
  /\ UNCHANGED <<userVars, sessions, raced>>

\* The session is checked against the copy of the user that was read, not the row
LoginCreate(w) ==
  /\ req[w].pc = "login"
  /\ sessions' = sessions \cup {[user |-> req[w].user, role |-> req[w].role]}
  /\ Finish(w)
  /\ UNCHANGED <<userVars, raced>>

\* Logout, or the end of a session's thirty days
EndSession(s) ==
  /\ s \in sessions
  /\ sessions' = sessions \ {s}
  /\ UNCHANGED <<userVars, req, raced>>

(***************************************************************************)
(* Roles and deactivation                                                  *)
(***************************************************************************)
\* Mutant: an admin may change their own role
RoleReadSelf(w, s, u, r) ==
  /\ AdminSession(s)
  /\ Active(u)
  /\ Begin(w, [Idle EXCEPT !.pc = "role", !.by = s.user, !.user = u, !.role = r])
  /\ UNCHANGED <<userVars, sessions, raced>>

RoleRead(w, s, u, r) ==
  /\ AdminSession(s)
  /\ s.user # u
  /\ Active(u)
  /\ Begin(w, [Idle EXCEPT !.pc = "role", !.by = s.user, !.user = u, !.role = r])
  /\ UNCHANGED <<userVars, sessions, raced>>

RoleSave(w) ==
  LET u == req[w].user IN
  /\ req[w].pc = "role"
  /\ role' = [role EXCEPT ![u] = req[w].role]
  /\ req' = [req EXCEPT ![w].pc = "sync", ![w].by = None]
  /\ raced' = IF HoldsRole(w, u) THEN raced \cup {u} ELSE raced
  /\ UNCHANGED <<deactivated, sessions>>

Synced(u, r) == [user |-> u, role |-> r]

\* Mutant: the sessions of admins are not downgraded
RoleSyncUpwards(w) ==
  LET u == req[w].user  r == req[w].role IN
  /\ req[w].pc = "sync"
  /\ sessions' = {IF s.user = u /\ s.role = "member" THEN Synced(u, r) ELSE s : s \in sessions}
  /\ Finish(w)
  /\ UNCHANGED <<userVars, raced>>

\* sync_user_role_to_sessions.  With nothing else under way it puts things right.
RoleSync(w) ==
  LET u == req[w].user  r == req[w].role IN
  /\ req[w].pc = "sync"
  /\ sessions' = {IF s.user = u THEN Synced(u, r) ELSE s : s \in sessions}
  /\ Finish(w)
  /\ raced' = IF Active(u) /\ role[u] = r /\ ~HoldsRole(w, u) THEN raced \ {u} ELSE raced
  /\ UNCHANGED userVars

DeactivateRead(w, s, u) ==
  /\ AdminSession(s)
  /\ s.user # u
  /\ Active(u)
  /\ Begin(w, [Idle EXCEPT !.pc = "deactivate", !.by = s.user, !.user = u])
  /\ UNCHANGED <<userVars, sessions, raced>>

DeactivateSave(w) ==
  LET u == req[w].user IN
  /\ req[w].pc = "deactivate"
  /\ deactivated' = deactivated \cup {u}
  /\ req' = [req EXCEPT ![w].pc = "revoke", ![w].by = None]
  /\ raced' = IF LogsIn(w, u) THEN raced \cup {u} ELSE raced
  /\ UNCHANGED <<role, sessions>>

\* revoke_sessions_for_deactivated_user
DeactivateRevoke(w) ==
  /\ req[w].pc = "revoke"
  /\ sessions' = {s \in sessions : s.user # req[w].user}
  /\ Finish(w)
  /\ UNCHANGED <<userVars, raced>>
-----------------------------------------------------------------------------
(***************************************************************************)
(* Joining                                                                 *)
(***************************************************************************)
\* The transaction of a join, by invitation or by an allowed email domain.  Whoever has
\* a row, deactivated or not, cannot get another.
Join(u) ==
  /\ role[u] = None
  /\ role' = [role EXCEPT ![u] = "member"]
  /\ sessions' = sessions \cup {[user |-> u, role |-> "member"]}
  /\ UNCHANGED <<deactivated, req, raced>>
-----------------------------------------------------------------------------
\* A worker dies, or its connection to the database does.  A signal that was due is
\* never sent.
Crash(w) ==
  /\ CanCrash
  /\ req[w].pc # "idle"
  /\ Finish(w)
  /\ raced' = IF req[w].pc \in {"sync", "revoke"} THEN raced \cup {req[w].user} ELSE raced
  /\ UNCHANGED <<userVars, sessions>>

SessionSteps(w) == (\E u \in Users : LoginRead(w, u)) \/ LoginCreate(w)

RoleSteps(w) ==
  \/ \E s \in sessions, u \in Users, r \in Roles : RoleRead(w, s, u, r)
  \/ RoleSave(w) \/ RoleSync(w)
  \/ \E s \in sessions, u \in Users : DeactivateRead(w, s, u)
  \/ DeactivateSave(w) \/ DeactivateRevoke(w)

Next ==
  \/ \E w \in Workers : SessionSteps(w) \/ RoleSteps(w) \/ Crash(w)
  \/ \E s \in sessions : EndSession(s)
  \/ \E u \in Users : Join(u)

Spec == Init /\ [][Next]_vars
-----------------------------------------------------------------------------
(***************************************************************************)
(* Properties                                                              *)
(***************************************************************************)
\* A change to the user that its sessions are about to be told of
Pending(u) == \E w \in Workers : req[w].pc \in {"sync", "revoke"} /\ req[w].user = u

\* Every session shows its user's role, and a deactivated user has none, as soon as
\* the signal has run: unless a login or another change of role of the same user
\* overlapped the change, or a crash came between the save and the signal.
SessionsMirrorUsers ==
  \A s \in sessions :
    s.user \in raced \/ Pending(s.user) \/ (s.role = role[s.user] /\ Active(s.user))

\* The workspace loses its last admin in one way: the admin who asked for it was
\* demoted or deactivated by then (update_user_role, deactivate_user).
LastAdminRemoved ==
  [][ActiveAdmins # {} /\ ActiveAdmins' = {} =>
       \E w \in Workers :
         /\ req[w].pc \in {"role", "deactivate"} /\ req'[w].pc # req[w].pc
         /\ req[w].by \notin ActiveAdmins]_vars

(***************************************************************************)
(* What a comment promises and the code does not keep                      *)
(***************************************************************************)
\* signals.py:13: "When a user's role changes, update all their active sessions to
\* reflect the new role."  Once every request is done no session shows another role.
SessionsShowRole ==
  (\A w \in Workers : req[w].pc = "idle") =>
    \A s \in sessions : Active(s.user) => s.role = role[s.user]
=============================================================================
