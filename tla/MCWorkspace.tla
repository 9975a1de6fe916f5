----------------------------- MODULE MCWorkspace -----------------------------
(***************************************************************************)
(* The keys of a workspace's vault and its web app, for TLC.  A behaviour  *)
(* is one of the keys, of a query of the web app, of the session of a tab  *)
(* or of the gate of its vault.  They meet in what each takes as an input  *)
(* that may change at any time: a change of the rows is a step of the      *)
(* query, a token that ends one of the tab, a key that another admin       *)
(* approves or revokes one of the gate.                                    *)
(***************************************************************************)
EXTENDS MCVaultKeys, QueryCache, WebSession, VaultGate

VARIABLE slice

workspaceVars == <<slice, vars, cacheVars, sessionVars, vaultGateVars>>

WorkspaceInit ==
  /\ slice \in {"keys", "cache", "session", "gate"}
  /\ Init /\ CacheInit /\ SessionInit /\ VaultGateInit
  /\ slice # "cache" => query = "account-access" /\ running = [m \in {"grantAccess"} |-> 0]
  /\ slice # "session" => token = NoToken
  /\ slice # "gate" => managed

WorkspaceNext ==
  \/ slice = "keys" /\ Next /\ UNCHANGED <<slice, cacheVars, sessionVars, vaultGateVars>>
  \/ slice = "cache" /\ CacheNext /\ UNCHANGED <<slice, vars, sessionVars, vaultGateVars>>
  \/ slice = "session" /\ SessionNext /\ UNCHANGED <<slice, vars, cacheVars, vaultGateVars>>
  \/ slice = "gate" /\ VaultGateNext /\ UNCHANGED <<slice, vars, cacheVars, sessionVars>>

WorkspaceSpec == WorkspaceInit /\ [][WorkspaceNext]_workspaceVars

\* Of the tokens of two memberships either may come first
WorkspaceSymmetry == Permutations(Memberships)
-----------------------------------------------------------------------------
(* What is checked of the parts beside VaultKeys, which has properties of its own *)

\* The pages of the web app tell of every change they know to have been made, a tab shows what
\* belongs to its session and leaves nothing of an earlier one, and the vault's gate opens and
\* forgets as it should, but for what is named.
PagesTold ==
  /\ [](CacheTypeOK /\ ShowsForCause) /\ NeverBack
  /\ [](SessionTypeOK /\ RowsFit /\ NameFits /\ PassphraseFits /\ NothingLeft) /\ TokenKept
  /\ [](VaultGateTypeOK /\ OpenFits /\ OfferFits /\ RetiredForgotten) /\ ShownKept /\ RetiredForSaved
=============================================================================
