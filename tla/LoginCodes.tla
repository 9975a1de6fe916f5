------------------------------ MODULE LoginCodes ------------------------------
(***************************************************************************)
(* The codes one email address is sent, and logs in with.                  *)
(*   api/accounts/api_auth.py request_login_code, verify_login_code        *)
(*   api/accounts/models.py LoginCode                                      *)
(* A code lives as long as the window in which codes are counted: ten      *)
(* minutes.  Nothing is locked between reading and writing.                *)
(***************************************************************************)
EXTENDS Naturals, FiniteSets

CONSTANTS
  CodeIds,   \* codes that are made
  Digits,    \* what a code may be
  Ceiling,   \* codes of one address in ten minutes: 3
  Senders,   \* calls of request_login_code
  Verifiers  \* calls of verify_login_code

ASSUME CeilingAssumption == Ceiling \in Nat \ {0}

NoCode == "no code"

VARIABLES
  code,      \* LoginCode
  sending,   \* what each request has counted
  verifying, \* the code each verification has read
  logins     \* sessions that were made with a code

codeVars == <<code, sending, verifying, logins>>

Unsent == [made |-> FALSE, digits |-> NoCode, old |-> FALSE, verified |-> FALSE]
Sending == [pc |-> "free", beside |-> 0]
Verifying == [pc |-> "free", read |-> NoCode, beside |-> {}]

CodeTypeOK ==
  /\ code \in [CodeIds -> [made : BOOLEAN, digits : Digits \cup {NoCode}, old : BOOLEAN, verified : BOOLEAN]]
  /\ sending \in [Senders -> [pc : {"free", "counted", "sent", "refused"}, beside : Nat]]
  /\ verifying \in [Verifiers -> [pc : {"free", "read", "marked", "in", "unauthorized", "error"},
                                  read : CodeIds \cup {NoCode}, beside : SUBSET Verifiers]]
  /\ logins \in [CodeIds -> Nat]

CodeInit ==
  /\ code = [c \in CodeIds |-> Unsent]
  /\ sending = [s \in Senders |-> Sending]
  /\ verifying = [v \in Verifiers |-> Verifying]
  /\ logins = [c \in CodeIds |-> 0]
-----------------------------------------------------------------------------
\* Created in the last ten minutes, verified or not
Recent == {c \in CodeIds : code[c].made /\ ~code[c].old}
Usable == {c \in Recent : ~code[c].verified}
Counting == {s \in Senders : sending[s].pc = "counted"}

\* Mutant: codes that were used do not count
CountUsable(s) ==
  /\ sending[s].pc = "free"
  /\ sending' = [sending EXCEPT ![s] =
       [pc |-> IF Cardinality(Usable) >= Ceiling THEN "refused" ELSE "counted", beside |-> Cardinality(Counting)]]
  /\ UNCHANGED <<code, verifying, logins>>

\* request_login_code: the limit
Count(s) ==
  /\ sending[s].pc = "free"
  /\ sending' = [sending EXCEPT ![s] =
       [pc |-> IF Cardinality(Recent) >= Ceiling THEN "refused" ELSE "counted", beside |-> Cardinality(Counting)]]
  /\ UNCHANGED <<code, verifying, logins>>

\* generate_login_code: six random digits, which may be those of another code.  A mail that
\* cannot be sent changes nothing.
Send(s, c, digits) ==
  /\ sending[s].pc = "counted" /\ ~code[c].made
  /\ code' = [code EXCEPT ![c] = [Unsent EXCEPT !.made = TRUE, !.digits = digits]]
  /\ sending' = [sending EXCEPT ![s].pc = "sent"]
  /\ UNCHANGED <<verifying, logins>>

\* Ten minutes have passed: one by one, in the order they were made
Age(c) ==
  /\ c \in Recent /\ code' = [code EXCEPT ![c].old = TRUE]
  /\ UNCHANGED <<sending, verifying, logins>>

\* verify_login_code reads the code that is typed: .get() wants exactly one
Read(v, digits) ==
  LET found == {c \in Usable : code[c].digits = digits}
  IN  /\ verifying[v].pc = "free"
      /\ verifying' = [verifying EXCEPT ![v] =
           [pc |-> CASE found = {} -> "unauthorized" [] Cardinality(found) > 1 -> "error" [] OTHER -> "read",
            read |-> IF Cardinality(found) = 1 THEN CHOOSE c \in found : TRUE ELSE NoCode,
            beside |-> {w \in Verifiers : verifying[w].pc = "read"}]]
      /\ UNCHANGED <<code, sending, logins>>

\* Mutant: the session is made, and the code marked by nobody
MarkNothing(v) ==
  /\ verifying[v].pc = "read"
  /\ verifying' = [verifying EXCEPT ![v].pc = "marked"]
  /\ UNCHANGED <<code, sending, logins>>

\* mark_verified saves its column whatever it holds by now
Mark(v) ==
  /\ verifying[v].pc = "read"
  /\ code' = [code EXCEPT ![verifying[v].read].verified = TRUE]
  /\ verifying' = [verifying EXCEPT ![v].pc = "marked"]
  /\ UNCHANGED <<sending, logins>>

\* The identity, got or created, and its session; or the process dies before
LogIn(v) ==
  /\ verifying[v].pc = "marked"
  /\ \/ verifying' = [verifying EXCEPT ![v].pc = "in"] /\ logins' = [logins EXCEPT ![verifying[v].read] = @ + 1]
     \/ verifying' = [verifying EXCEPT ![v].pc = "error"] /\ UNCHANGED logins
  /\ UNCHANGED <<code, sending>>

CodeNext ==
  \/ \E s \in Senders : Count(s) \/ \E c \in CodeIds, digits \in Digits : Send(s, c, digits)
  \/ \E c \in CodeIds : Age(c)
  \/ \E v \in Verifiers : Mark(v) \/ LogIn(v) \/ \E digits \in Digits : Read(v, digits)

CodeSpec == CodeInit /\ [][CodeNext]_codeVars
-----------------------------------------------------------------------------
(* What may be expected of it *)

\* More codes than the limit live at once only by requests that counted before another's
\* code was made, one more for each of them.
RecentBounded == \E k \in 0 .. Cardinality({s \in Senders : sending[s].pc = "sent" /\ sending[s].beside > 0}) :
                   Cardinality(Recent) <= Ceiling + k

\* A code makes one session, unless verifications overlapped: both read it before either had
\* marked it.
OneLogin ==
  \A c \in CodeIds : logins[c] > 1 =>
    \E v, w \in Verifiers : verifying[v].read = c /\ verifying[w].read = c /\ w \in verifying[v].beside
=============================================================================
