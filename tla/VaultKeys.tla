----------------------------- MODULE VaultKeys -----------------------------
(***************************************************************************)
(* The key ring of one workspace in vault mode.                            *)
(*                                                                         *)
(* Each user owns keypairs (UserKey).  A key is created, confirmed by its  *)
(* owner, approved by an admin and may be revoked.  A Credential is        *)
(* encrypted under a symmetric key, and a UserCredential row wraps that    *)
(* symmetric key for one UserKey.  Approving a key copies to it the rows   *)
(* the approving admin's own key holds.                                    *)
(*                                                                         *)
(* The API runs in autocommit: every query of a handler is a step of its   *)
(* own, and the handlers of different workers interleave between them.     *)
(* Only setting credentials is wrapped in transaction.atomic.              *)
(***************************************************************************)
EXTENDS Naturals, FiniteSetsExt

CONSTANTS
  Users,        \* the users of the workspace
  Keys,         \* UserKey primary keys; their order is the order of .first()
  Owner,        \* the user each key belongs to
  Creds,        \* Credential primary keys
  LegacyKeys,   \* keys in use before the workspace moved to wrapped symmetric keys
  LegacyCreds,  \* credentials stored for those keys in the old format
  Workers,      \* API workers, each serving one request at a time
  InitAdmins    \* the admins at the start

ASSUME KeysAssumption == Keys \subseteq Nat \ {0} /\ Owner \in [Keys -> Users]
ASSUME LegacyAssumption ==
  /\ LegacyKeys \subseteq Keys /\ LegacyCreds \subseteq Creds
  /\ \A k1, k2 \in LegacyKeys : Owner[k1] = Owner[k2] => k1 = k2
ASSUME AdminsAssumption == InitAdmins \subseteq Users

VARIABLES
  \* the database
  admins,       \* active users with the admin role
  created,      \* keys that have a row
  confirmed,    \* keys with confirmed_at
  approved,     \* keys with approved_at
  revoked,      \* keys with revoked_at
  creds,        \* credentials that have a committed row
  sym,          \* the symmetric key Credential.encrypted_data is under, 0 when none
  wrap,         \* wrap[c][k]: the symmetric key k's row wraps, 0 when k has no such row
  \* the request each worker is serving, with the handler's local variables
  req,
  \* history
  soloBorn,     \* keys approved at creation
  resurrected   \* keys whose revocation an activation has overwritten

keyVars == <<created, confirmed, approved, revoked>>
credVars == <<creds, sym, wrap>>
history == <<soloBorn, resurrected>>
vars == <<admins, keyVars, credVars, req, history>>

PC == {"idle", "create_count", "create", "confirm_update", "confirm_save", "activate_admin_key",
       "activate_save", "activate_list", "provision", "rewrap", "set_credentials"}

None == "none"
NoKey == 0

Request == [pc : PC,
            target : Keys \cup {NoKey},    \* the key the request is about
            actor : Users \cup {None},     \* the admin who activates
            adminKey : Keys \cup {NoKey},  \* the admin's key, once looked up
            pass : Keys \cup {NoKey},      \* the key whose passphrase was typed
            list : SUBSET Creds,           \* the credentials query of the activation
            todo : SUBSET Creds,           \* those its loop has not reached
            cred : Creds \cup {None},      \* the credential being written
            fresh : Nat,                   \* a symmetric key just generated
            keys : SUBSET Keys,            \* keys a new credential is encrypted for
            solo : BOOLEAN]                \* is_solo_admin, as read

Idle == [pc |-> "idle", target |-> NoKey, actor |-> None, adminKey |-> NoKey,
         pass |-> NoKey, list |-> {}, todo |-> {}, cred |-> None, fresh |-> 0, keys |-> {},
         solo |-> FALSE]

TypeOK ==
  /\ admins \subseteq Users
  /\ created \subseteq Keys /\ confirmed \subseteq Keys
  /\ approved \subseteq Keys /\ revoked \subseteq Keys
  /\ creds \subseteq Creds
  /\ sym \in [Creds -> Nat]
  /\ wrap \in [Creds -> [Keys -> Nat]]
  /\ req \in [Workers -> Request]
  /\ soloBorn \subseteq Keys /\ resurrected \subseteq Keys
-----------------------------------------------------------------------------
(***************************************************************************)
(* Queries                                                                 *)
(***************************************************************************)
\* confirmed, approved and not revoked
ActiveKeys == (created \cap confirmed \cap approved) \ revoked

UserActiveKeys(u) == {k \in ActiveKeys : Owner[k] = u}

\* .first() on an unordered queryset takes the smallest primary key
FirstActiveKey(u) == Min(UserActiveKeys(u))

\* One admin is counted beside the role the user had when the request was authenticated
IsSoloAdmin(wasAdmin) == Cardinality(admins) = 1 /\ wasAdmin

\* A row in the old format holds the credential itself, encrypted for the key
OldRow(c, k) == c \in LegacyCreds /\ k \in LegacyKeys

HasRow(c, k) == wrap[c][k] # 0 \/ OldRow(c, k)

\* The row of k opens c: it wraps the symmetric key the data is under, or it is
\* an old row, which carries its own copy of the data
Opens(k, c) == IF wrap[c][k] # 0 THEN wrap[c][k] = sym[c] ELSE OldRow(c, k)
-----------------------------------------------------------------------------
Init ==
  /\ admins = InitAdmins
  /\ created = LegacyKeys /\ confirmed = LegacyKeys /\ approved = LegacyKeys /\ revoked = {}
  /\ creds = LegacyCreds
  /\ sym = [c \in Creds |-> 0]
  /\ wrap = [c \in Creds |-> [k \in Keys |-> 0]]
  /\ req = [w \in Workers |-> Idle]
  /\ soloBorn = {} /\ resurrected = {}

Begin(w, r) == req[w].pc = "idle" /\ req' = [req EXCEPT ![w] = r]

Goto(w, from, to) == req[w].pc = from /\ req' = [req EXCEPT ![w].pc = to]

Return(w) == req' = [req EXCEPT ![w] = Idle]

\* update_user_role and deactivate_user: an admin makes another user an admin or
\* not.  The check of the caller's role and the update count as one step here.
SetRole ==
  /\ \E a \in admins, u \in Users :
       u # a /\ admins' \in {admins \cup {u}, admins \ {u}}
  /\ UNCHANGED <<keyVars, credVars, req, history>>

(***************************************************************************)
(* POST /keys/create: read the user, count the admins, generate the        *)
(* keypair, insert                                                         *)
(***************************************************************************)
\* The session's user is read with the request
CreateAuthenticate(w, k) ==
  /\ k \notin created
  /\ \A v \in Workers : req[v].target # k
  /\ Begin(w, [Idle EXCEPT !.pc = "create_count", !.target = k, !.solo = Owner[k] \in admins])
  /\ UNCHANGED <<admins, keyVars, credVars, history>>

CreateCountAdmins(w) ==
  LET r == req[w] IN
  /\ r.pc = "create_count"
  /\ req' = [req EXCEPT ![w] = [r EXCEPT !.pc = "create", !.solo = IsSoloAdmin(r.solo)]]
  /\ UNCHANGED <<admins, keyVars, credVars, history>>

\* Mutant: the row is inserted for the owner's id, not for the key
CreateInsertOwner(w) ==
  /\ req[w].pc = "create"
  /\ created' = created \cup {Owner[req[w].target]}
  /\ Return(w)
  /\ UNCHANGED <<admins, confirmed, approved, revoked, credVars, history>>

CreateInsert(w) ==
  LET k == req[w].target IN
  /\ req[w].pc = "create"
  /\ created' = created \cup {k}
  /\ IF req[w].solo
     THEN /\ confirmed' = confirmed \cup {k}
          /\ approved' = approved \cup {k}
          /\ soloBorn' = soloBorn \cup {k}
     ELSE UNCHANGED <<confirmed, approved, soloBorn>>
  /\ Return(w)
  /\ UNCHANGED <<admins, revoked, credVars, resurrected>>

(***************************************************************************)
(* POST /keys/confirm                                                      *)
(***************************************************************************)
\* A key that is already confirmed is a success at once, a revoked one an error
ConfirmRead(w, k) ==
  /\ k \in created /\ k \notin confirmed /\ k \notin revoked
  /\ Begin(w, [Idle EXCEPT !.pc = "confirm_update", !.target = k])
  /\ UNCHANGED <<admins, keyVars, credVars, history>>

\* Mutant: only the approved keys of the owner are retired
ConfirmRevokeApproved(w) ==
  LET k == req[w].target IN
  /\ Goto(w, "confirm_update", "confirm_save")
  /\ revoked' = revoked \cup {o \in approved \ {k} : Owner[o] = Owner[k]}
  /\ UNCHANGED <<admins, created, confirmed, approved, credVars, history>>

ConfirmRevokeOthers(w) ==
  LET k == req[w].target IN
  /\ Goto(w, "confirm_update", "confirm_save")
  /\ revoked' = revoked \cup {o \in created \ {k} : Owner[o] = Owner[k]}
  /\ UNCHANGED <<admins, created, confirmed, approved, credVars, history>>

ConfirmSave(w) ==
  /\ req[w].pc = "confirm_save"
  /\ confirmed' = confirmed \cup {req[w].target}
  /\ Return(w)
  /\ UNCHANGED <<admins, created, approved, revoked, credVars, history>>
-----------------------------------------------------------------------------
(***************************************************************************)
(* POST /keys/activate.  The handler works on the copy of the key it read: *)
(* confirmed, not approved, not revoked.                                   *)
(***************************************************************************)
ActivateRead(w, a, k, p) ==
  /\ a \in admins
  /\ k \in created /\ k \in confirmed /\ k \notin approved /\ k \notin revoked
  /\ Begin(w, [Idle EXCEPT !.pc = "activate_admin_key", !.target = k, !.actor = a, !.pass = p])
  /\ UNCHANGED <<admins, keyVars, credVars, history>>

\* Mutant: an admin who has no active key goes on with the key being activated
ActivateWithoutAdminKey(w) ==
  LET a == req[w].actor IN
  /\ req[w].pc = "activate_admin_key"
  /\ req' = [req EXCEPT ![w].pc = "activate_save",
                        ![w].adminKey = IF UserActiveKeys(a) = {} THEN req[w].target
                                        ELSE FirstActiveKey(a)]
  /\ UNCHANGED <<admins, keyVars, credVars, history>>

ActivateFindAdminKey(w) ==
  LET a == req[w].actor IN
  /\ req[w].pc = "activate_admin_key"
  /\ IF UserActiveKeys(a) = {}
     THEN Return(w)
     ELSE req' = [req EXCEPT ![w].pc = "activate_save", ![w].adminKey = FirstActiveKey(a)]
  /\ UNCHANGED <<admins, keyVars, credVars, history>>

\* key.save() writes every column of the copy back, revoked_at = null included
ActivateSave(w) ==
  LET k == req[w].target IN
  /\ Goto(w, "activate_save", "activate_list")
  /\ approved' = approved \cup {k}
  /\ confirmed' = confirmed \cup {k}
  /\ revoked' = revoked \ {k}
  /\ resurrected' = resurrected \cup ({k} \cap revoked)
  /\ UNCHANGED <<admins, created, credVars, soloBorn>>

ActivateList(w) ==
  /\ req[w].pc = "activate_list"
  /\ req' = [req EXCEPT ![w].pc = "provision", ![w].list = creds, ![w].todo = creds]
  /\ UNCHANGED <<admins, keyVars, credVars, history>>

\* One turn of the loop for a credential the admin's key has no row for
ProvisionSkip(w, c) ==
  /\ req[w].pc = "provision" /\ c \in req[w].todo
  /\ ~HasRow(c, req[w].adminKey)
  /\ req' = [req EXCEPT ![w].todo = @ \ {c}]
  /\ UNCHANGED <<admins, keyVars, credVars, history>>

\* Mutant: a fresh symmetric key is wrapped and the data is left under the old one
ProvisionFresh(w, c) ==
  LET r == req[w] IN
  /\ r.pc = "provision" /\ c \in r.todo
  /\ wrap[c][r.adminKey] # 0
  /\ r.pass = r.adminKey
  /\ wrap' = [wrap EXCEPT ![c][r.target] = wrap[c][r.adminKey] + 1]
  /\ req' = [req EXCEPT ![w].todo = @ \ {c}]
  /\ UNCHANGED <<admins, keyVars, creds, sym, history>>

\* One turn for a row in the new format: wrap the same symmetric key for the target
ProvisionShare(w, c) ==
  LET r == req[w] IN
  /\ r.pc = "provision" /\ c \in r.todo
  /\ wrap[c][r.adminKey] # 0
  /\ r.pass = r.adminKey
  /\ wrap' = [wrap EXCEPT ![c][r.target] = wrap[c][r.adminKey]]
  /\ req' = [req EXCEPT ![w].todo = @ \ {c}]
  /\ UNCHANGED <<admins, keyVars, creds, sym, history>>

\* One turn for a row in the old format: encrypt the data again under a new
\* symmetric key (credential.save), then wrap that key for the target
ProvisionReencrypt(w, c) ==
  LET r == req[w] IN
  /\ r.pc = "provision" /\ c \in r.todo
  /\ wrap[c][r.adminKey] = 0 /\ OldRow(c, r.adminKey)
  /\ r.pass = r.adminKey
  /\ sym' = [sym EXCEPT ![c] = @ + 1]
  /\ req' = [req EXCEPT ![w].pc = "rewrap", ![w].cred = c, ![w].fresh = sym[c] + 1,
                        ![w].todo = @ \ {c}]
  /\ UNCHANGED <<admins, keyVars, creds, wrap, history>>

ProvisionRewrap(w) ==
  LET r == req[w] IN
  /\ r.pc = "rewrap"
  /\ wrap' = [wrap EXCEPT ![r.cred][r.target] = r.fresh]
  /\ req' = [req EXCEPT ![w].pc = "provision", ![w].cred = None, ![w].fresh = 0]
  /\ UNCHANGED <<admins, keyVars, creds, sym, history>>

\* The passphrase does not unlock the admin's private key: ValueError
ProvisionReject(w, c) ==
  LET r == req[w] IN
  /\ r.pc = "provision" /\ c \in r.todo
  /\ HasRow(c, r.adminKey)
  /\ r.pass # r.adminKey
  /\ Return(w)
  /\ UNCHANGED <<admins, keyVars, credVars, history>>

ActivateReturn(w) ==
  /\ req[w].pc = "provision" /\ req[w].todo = {}
  /\ Return(w)
  /\ UNCHANGED <<admins, keyVars, credVars, history>>

\* POST /keys/revoke.  Reading the key and saving revoked_at alone have the
\* effect of one step at the time of the save.
Revoke(k) ==
  /\ admins # {}
  /\ k \in created /\ k \notin revoked
  /\ revoked' = revoked \cup {k}
  /\ UNCHANGED <<admins, created, confirmed, approved, credVars, req, history>>
-----------------------------------------------------------------------------
(***************************************************************************)
(* Setting the credentials of a database or an account: a new Credential,  *)
(* wrapped for the keys active when they are read, in one transaction.     *)
(***************************************************************************)
\* Mutant: keys that are confirmed and wait for approval get a row too
SetCredentialsForConfirmed(w, c) ==
  /\ admins # {}
  /\ c \notin creds
  /\ \A v \in Workers : req[v].cred # c
  /\ Begin(w, [Idle EXCEPT !.pc = "set_credentials", !.cred = c,
                           !.keys = (created \cap confirmed) \ revoked])
  /\ UNCHANGED <<admins, keyVars, credVars, history>>

SetCredentialsReadKeys(w, c) ==
  /\ admins # {}
  /\ c \notin creds
  /\ \A v \in Workers : req[v].cred # c
  /\ Begin(w, [Idle EXCEPT !.pc = "set_credentials", !.cred = c, !.keys = ActiveKeys])
  /\ UNCHANGED <<admins, keyVars, credVars, history>>

SetCredentialsCommit(w) ==
  LET r == req[w] IN
  /\ r.pc = "set_credentials"
  /\ creds' = creds \cup {r.cred}
  /\ sym' = [sym EXCEPT ![r.cred] = 1]
  /\ wrap' = [wrap EXCEPT ![r.cred] = [k \in Keys |-> IF k \in r.keys THEN 1 ELSE 0]]
  /\ Return(w)
  /\ UNCHANGED <<admins, keyVars, history>>

\* A worker dies or loses its connection: what it has committed stays
Crash(w) ==
  /\ req[w].pc # "idle"
  /\ Return(w)
  /\ UNCHANGED <<admins, keyVars, credVars, history>>

Create(w) ==
  \/ \E k \in Keys : CreateAuthenticate(w, k)
  \/ CreateCountAdmins(w)
  \/ CreateInsert(w)

Confirm(w) ==
  \/ \E k \in Keys : ConfirmRead(w, k)
  \/ ConfirmRevokeOthers(w)
  \/ ConfirmSave(w)

Activate(w) ==
  \/ \E a \in Users, k \in Keys, p \in Keys \cup {NoKey} : ActivateRead(w, a, k, p)
  \/ ActivateFindAdminKey(w)
  \/ ActivateSave(w)
  \/ ActivateList(w)
  \/ \E c \in Creds : \/ ProvisionSkip(w, c)
                      \/ ProvisionShare(w, c)
                      \/ ProvisionReencrypt(w, c)
                      \/ ProvisionReject(w, c)
  \/ ProvisionRewrap(w)
  \/ ActivateReturn(w)

SetCredentials(w) == (\E c \in Creds : SetCredentialsReadKeys(w, c)) \/ SetCredentialsCommit(w)

Next ==
  \/ SetRole
  \/ \E k \in Keys : Revoke(k)
  \/ \E w \in Workers : Create(w) \/ Confirm(w) \/ Activate(w) \/ SetCredentials(w) \/ Crash(w)

Spec == Init /\ [][Next]_vars
-----------------------------------------------------------------------------
(***************************************************************************)
(* Properties                                                              *)
(***************************************************************************)
\* A credential is wrapped only for keys that were confirmed by their owner and
\* approved, whatever the requests in flight (utils.py _set_credentials_vault_mode
\* selects approved keys, activate_key approves before it provisions).
RowsOnlyForApproved ==
  \A c \in Creds, k \in Keys : wrap[c][k] # 0 => k \in approved \cap confirmed

\* Confirming a key retires the owner's other keys (confirm_key): two confirmed
\* keys of one user can be live together only when one of them was approved at
\* creation, for a solo admin, or was brought back by a late activation.
Live(k) == k \in confirmed /\ k \notin revoked

OneLiveKey ==
  \A k1, k2 \in Keys :
    Live(k1) /\ Live(k2) /\ Owner[k1] = Owner[k2] /\ k1 # k2
      => {k1, k2} \cap (soloBorn \cup resurrected) # {}

\* Trust starts at a solo admin: while no key was approved at creation, no key is
\* ever approved and nothing is wrapped (activate_key demands an approved key of
\* the admin), so a workspace that never has one admin alone never gets one.
TrustNeedsSoloAdmin ==
  soloBorn = {} /\ LegacyKeys = {} => approved = {} /\ \A c \in Creds, k \in Keys : wrap[c][k] = 0

\* Every row of a credential never stored in the old format wraps the symmetric
\* key the data is under, whichever chain of approvals the row came through
\* (_provision_credentials_for_key shares the key, it does not re-encrypt).
SharedSymmetricKey ==
  \A c \in Creds \ LegacyCreds, k \in Keys : wrap[c][k] \in {0, sym[c]}
-----------------------------------------------------------------------------
(***************************************************************************)
(* What the docstrings promise and the code does not keep                  *)
(***************************************************************************)
\* key_service.py:284: "Revoke a key. It can no longer be used for decryption."
RevokedStaysRevoked == [][revoked \subseteq revoked']_revoked

\* utils.py:477: "The credential data itself is not re-encrypted - we share the
\* same symmetric key": a provisioned key opens the credential.
ProvisionedKeysOpen ==
  \A c \in Creds, k \in Keys : wrap[c][k] # 0 => Opens(k, c)
=============================================================================
