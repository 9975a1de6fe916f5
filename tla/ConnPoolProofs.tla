--------------------------- MODULE ConnPoolProofs ---------------------------
(***************************************************************************)
(* Proofs about ConnPool, for any number of queries, keys and handles, and *)
(* about the pages where a database, its accounts and who may use them are *)
(* edited, for any number of them and of calls.                            *)
(***************************************************************************)
EXTENDS MCDatabases, TLAPS

\* The handles in use were opened, and a handle is kept under no key but the one it
\* was opened for
Sound ==
  /\ \A k \in Keys : pools[k] <= made
  /\ \A q \in Queries : call[q].pc # "idle" => call[q].key \in Keys
  /\ \A q \in Queries : call[q].db <= made
  /\ \A q \in Queries, k \in Keys :
       call[q].db # NoDB /\ pools[k] = call[q].db => k = call[q].key
  /\ \A k1, k2 \in Keys : pools[k1] = pools[k2] /\ pools[k1] # NoDB => k1 = k2

Inv == TypeOK /\ Sound /\ PooledIsOpen /\ OnlyDropLoses

LEMMA NumberTypes ==
  /\ NoDB \notin DBs /\ NoDB \in Nat
  /\ \A db \in DBs : db \in Nat /\ db # NoDB
BY BoundAssumption DEF DBs, NoDB

LEMMA IdleType == Idle \in Call /\ Idle.pc = "idle" /\ Idle.db = NoDB
BY DEF Idle, Call

LEMMA InitInv == Init => Inv
<1> SUFFICES ASSUME Init PROVE Inv OBVIOUS
<1>1. TypeOK BY BoundAssumption, IdleType DEF Init, TypeOK
<1>2. Sound /\ PooledIsOpen /\ OnlyDropLoses
  BY IdleType DEF Init, Sound, PooledIsOpen, OnlyDropLoses, NoDB
<1> QED BY <1>1, <1>2 DEF Inv

\* A query moves on, taking a handle that is kept under its key or leaving its own
Moves(q) ==
  /\ call' \in [Queries -> Call]
  /\ \A r \in Queries : r # q => call'[r] = call[r]
  /\ call'[q].pc # "idle" => call'[q].key \in Keys
  /\ call'[q].db # NoDB =>
       /\ call'[q].key \in Keys
       /\ \/ call'[q].db = call[q].db /\ call'[q].key = call[q].key
          \/ call'[q].db = pools[call'[q].key]
  /\ recent' \subseteq 1 .. made
  /\ UNCHANGED <<made, pools, open, lost>>

LEMMA MovesKeepsInv == ASSUME Inv, NEW q \in Queries, Moves(q) PROVE Inv'
<1> USE DEF Moves
<1>1. TypeOK' BY DEF Inv, TypeOK
<1>2. Sound'
  <2>1. \A r \in Queries : call'[r].pc # "idle" => call'[r].key \in Keys
    BY DEF Inv, Sound
  <2>2. \A r \in Queries : call'[r].db <= made
    <3> SUFFICES ASSUME NEW r \in Queries PROVE call'[r].db <= made OBVIOUS
    <3>1. CASE r # q BY <3>1 DEF Inv, Sound
    <3>2. CASE r = q
      <4>1. CASE call'[q].db = NoDB BY <3>2, <4>1, BoundAssumption DEF Inv, TypeOK, NoDB
      <4>2. CASE call'[q].db # NoDB BY <3>2, <4>2 DEF Inv, Sound
      <4> QED BY <4>1, <4>2
    <3> QED BY <3>1, <3>2
  <2>3. \A r \in Queries, k \in Keys :
          call'[r].db # NoDB /\ pools[k] = call'[r].db => k = call'[r].key
    <3> SUFFICES ASSUME NEW r \in Queries, NEW k \in Keys,
                        call'[r].db # NoDB, pools[k] = call'[r].db
                 PROVE  k = call'[r].key
      OBVIOUS
    <3>1. CASE r # q BY <3>1 DEF Inv, Sound
    <3>2. CASE r = q BY <3>2 DEF Inv, Sound
    <3> QED BY <3>1, <3>2
  <2> QED BY <2>1, <2>2, <2>3 DEF Inv, Sound
<1>3. PooledIsOpen' /\ OnlyDropLoses' BY DEF Inv, PooledIsOpen, OnlyDropLoses
<1> QED BY <1>1, <1>2, <1>3 DEF Inv
-----------------------------------------------------------------------------
LEMMA OpenKeepsInv == ASSUME Inv, NEW q \in Queries, Open(q) PROVE Inv'
<1> DEFINE n == made + 1  k == call[q].key
           r == [call[q] EXCEPT !.pc = "run", !.db = n]
<1>1. /\ n \in DBs /\ n > made /\ made \in Nat /\ n # NoDB /\ k \in Keys /\ pools[k] = NoDB
      /\ made' = n /\ open' = open \cup {n} /\ recent' = recent \cup {n} /\ lost' = lost
      /\ pools' = [pools EXCEPT ![k] = n]
  BY BoundAssumption DEF Open, Inv, TypeOK, Sound, DBs, NoDB
<1>2. r \in Call /\ r.pc = "run" /\ r.db = n /\ r.key = k
  <2>1. call[q] \in Call BY DEF Inv, TypeOK
  <2>2. ASSUME NEW x \in Call
        PROVE  /\ [x EXCEPT !.pc = "run", !.db = n] \in Call
               /\ [x EXCEPT !.pc = "run", !.db = n].pc = "run"
               /\ [x EXCEPT !.pc = "run", !.db = n].db = n
               /\ [x EXCEPT !.pc = "run", !.db = n].key = x.key
    BY <1>1 DEF Call
  <2> QED BY <2>1, <2>2
<1>3. call' = [call EXCEPT ![q] = r] BY DEF Open
<1> HIDE DEF r, k
<1>4. TypeOK'
  <2>1. made' \in 0 .. MaxDBs BY <1>1, BoundAssumption DEF DBs
  <2>2. 1 .. made \subseteq 1 .. n /\ n \in 1 .. n BY <1>1
  <2> HIDE DEF n
  <2> QED BY <1>1, <1>2, <1>3, <2>1, <2>2 DEF Inv, TypeOK
<1>5. \A j \in Keys : pools[j] # n /\ pools[j] <= n
  BY <1>1, BoundAssumption DEF Inv, TypeOK, Sound, DBs, NoDB
<1>6. \A p \in Queries : call[p].db # n /\ call[p].db <= n
  BY <1>1, BoundAssumption DEF Inv, TypeOK, Sound, DBs, NoDB, Call
<1>7. n <= n BY <1>1
<1> HIDE DEF n
<1>8. \A j \in Keys : pools'[j] = IF j = k THEN n ELSE pools[j]
  BY <1>1 DEF Inv, TypeOK
<1>9. \A p \in Queries : call'[p] = IF p = q THEN r ELSE call[p]
  BY <1>3 DEF Inv, TypeOK
<1>10. Sound'
  <2>1. \A j \in Keys : pools'[j] <= made' BY <1>1, <1>5, <1>7, <1>8
  <2>2. \A p \in Queries : call'[p].pc # "idle" => call'[p].key \in Keys
    BY <1>1, <1>2, <1>9 DEF Inv, Sound
  <2>3. \A p \in Queries : call'[p].db <= made' BY <1>1, <1>2, <1>6, <1>7, <1>9
  <2>4. \A p \in Queries, j \in Keys :
          call'[p].db # NoDB /\ pools'[j] = call'[p].db => j = call'[p].key
    BY <1>2, <1>5, <1>6, <1>8, <1>9 DEF Inv, Sound
  <2>5. \A k1, k2 \in Keys : pools'[k1] = pools'[k2] /\ pools'[k1] # NoDB => k1 = k2
    BY <1>5, <1>8 DEF Inv, Sound
  <2> QED BY <2>1, <2>2, <2>3, <2>4, <2>5 DEF Sound
<1>11. PooledIsOpen' BY <1>1, <1>8 DEF Inv, PooledIsOpen
<1>12. OnlyDropLoses'
  <2> SUFFICES ASSUME NEW db \in open', db \notin lost' PROVE \E j \in Keys : pools'[j] = db
    BY DEF OnlyDropLoses
  <2>1. CASE db = n BY <1>1, <1>8, <2>1
  <2>2. CASE db # n
    <3>1. PICK j \in Keys : pools[j] = db BY <1>1, <2>2 DEF Inv, OnlyDropLoses
    <3>2. db # NoDB BY <1>1, <2>2 DEF Inv, TypeOK, NoDB
    <3> QED BY <1>1, <1>8, <3>1, <3>2
  <2> QED BY <2>1, <2>2
<1> QED BY <1>4, <1>10, <1>11, <1>12 DEF Inv
-----------------------------------------------------------------------------
\* Keys are emptied and handles closed
Closing(K, D) ==
  /\ pools' = [k \in Keys |-> IF k \in K THEN NoDB ELSE pools[k]]
  /\ open' = open \ D
  /\ \A k \in Keys \ K : pools[k] \notin D
  /\ \A k \in K \cap Keys : pools[k] \in D \cup lost' \cup {NoDB}
  /\ lost \subseteq lost' /\ lost' \subseteq 1 .. made
  /\ call' \in [Queries -> Call]
  /\ \A q \in Queries : /\ call'[q].key = call[q].key /\ call'[q].db = call[q].db
                        /\ (call'[q].pc = "idle") = (call[q].pc = "idle")
  /\ UNCHANGED <<made, recent>>

LEMMA ClosingKeepsInv == ASSUME Inv, NEW K, NEW D, Closing(K, D) PROVE Inv'
<1>1. /\ pools' \in [Keys -> DBs \cup {NoDB}]
      /\ \A k \in Keys : pools'[k] = NoDB \/ (pools'[k] = pools[k] /\ k \notin K)
      /\ \A k \in Keys : k \notin K => pools'[k] = pools[k]
  BY DEF Closing, Inv, TypeOK
<1>2. TypeOK' BY <1>1 DEF Closing, Inv, TypeOK
<1>3. NoDB <= made BY BoundAssumption DEF Inv, TypeOK, NoDB
<1>4. Sound'
  <2>1. \A k \in Keys : pools'[k] <= made' BY <1>1, <1>3 DEF Closing, Inv, Sound
  <2>2. \A q \in Queries : /\ call'[q].pc # "idle" => call'[q].key \in Keys
                           /\ call'[q].db <= made'
    BY DEF Closing, Inv, Sound
  <2>3. \A q \in Queries, k \in Keys :
          call'[q].db # NoDB /\ pools'[k] = call'[q].db => k = call'[q].key
    BY <1>1 DEF Closing, Inv, Sound
  <2>4. \A k1, k2 \in Keys : pools'[k1] = pools'[k2] /\ pools'[k1] # NoDB => k1 = k2
    BY <1>1 DEF Inv, Sound
  <2> QED BY <2>1, <2>2, <2>3, <2>4 DEF Sound
<1>5. PooledIsOpen' BY <1>1 DEF Closing, Inv, PooledIsOpen
<1>6. OnlyDropLoses'
  <2> SUFFICES ASSUME NEW db \in open', db \notin lost' PROVE \E k \in Keys : pools'[k] = db
    BY DEF OnlyDropLoses
  <2>1. db \in open /\ db \notin D /\ db \notin lost BY DEF Closing
  <2>2. PICK k \in Keys : pools[k] = db BY <2>1 DEF Inv, OnlyDropLoses
  <2>3. db # NoDB BY <2>1 DEF Inv, TypeOK, NoDB
  <2>4. k \notin K BY <2>1, <2>2, <2>3 DEF Closing
  <2> QED BY <1>1, <2>2, <2>4
<1> QED BY <1>2, <1>4, <1>5, <1>6 DEF Inv

LEMMA DropKeepsInv == ASSUME Inv, NEW q \in Queries, Drop(q) PROVE Inv'
<1> DEFINE k == call[q].key
<1>1. k \in Keys BY DEF Drop, Goto, Inv, Sound
<1>2. /\ call \in [Queries -> Call] /\ call[q].pc = "drop"
      /\ call' = [call EXCEPT ![q].pc = "get"]
      /\ pools' = [pools EXCEPT ![k] = NoDB]
      /\ open' = open \ {call[q].db}
      /\ lost' = lost \cup ({pools[k]} \ {NoDB, call[q].db})
      /\ UNCHANGED <<made, recent>>
  BY DEF Drop, Goto, Inv, TypeOK
<1>3. pools' = [j \in Keys |-> IF j \in {k} THEN NoDB ELSE pools[j]]
  BY <1>2 DEF Inv, TypeOK
<1>4. lost \subseteq lost' /\ lost' \subseteq 1 .. made
  <2>1. pools[k] # NoDB => pools[k] \in 1 .. made
    BY <1>1 DEF Inv, TypeOK, PooledIsOpen
  <2> QED BY <1>2, <2>1 DEF Inv, TypeOK
<1>5. /\ call' \in [Queries -> Call]
      /\ \A r \in Queries : /\ call'[r].key = call[r].key /\ call'[r].db = call[r].db
                            /\ (call'[r].pc = "idle") = (call[r].pc = "idle")
  BY <1>2 DEF Call
<1>6. \A j \in Keys \ {k} : pools[j] \in open \cup {NoDB} /\ (pools[j] # NoDB => pools[j] # call[q].db)
  BY DEF Inv, Sound, PooledIsOpen
<1>7. open \ {call[q].db} = open \ ({call[q].db} \ {NoDB})
  BY BoundAssumption DEF Inv, TypeOK, NoDB
<1>8. Closing({k}, {call[q].db} \ {NoDB})
  BY <1>1, <1>2, <1>3, <1>4, <1>5, <1>6, <1>7 DEF Closing
<1> QED BY <1>8, ClosingKeepsInv

LEMMA CleanupKeepsInv == ASSUME Inv, CleanupStale PROVE Inv'
<1> DEFINE D == {pools[k] : k \in Keys} \ (recent \cup {NoDB})
           K == {k \in Keys : pools[k] \in D}
<1>1. /\ open' = open \ D /\ UNCHANGED <<made, recent, call, lost>>
      /\ pools' = [k \in Keys |-> IF pools[k] \in D THEN NoDB ELSE pools[k]]
  BY DEF CleanupStale
<1> HIDE DEF D
<1>2. pools' = [k \in Keys |-> IF k \in K THEN NoDB ELSE pools[k]] BY <1>1
<1>3. Closing(K, D) BY <1>1, <1>2 DEF Closing, Inv, TypeOK
<1> QED BY <1>3, ClosingKeepsInv
-----------------------------------------------------------------------------
\* The steps of Get and around it that leave the map and the handles alone
LEMMA GotoMoves ==
  ASSUME Inv, NEW q \in Queries, NEW from, NEW to, Goto(q, from, to), from # "idle",
         to \in {"idle", "get", "ping", "drop", "miss", "run"},
         UNCHANGED <<made, pools, open, recent, lost>>
  PROVE  Inv'
<1> DEFINE r == [call[q] EXCEPT !.pc = to]
<1>1. call' = [call EXCEPT ![q] = r] BY DEF Goto
<1>2. r \in Call /\ r.key = call[q].key /\ r.db = call[q].db
  BY DEF Inv, TypeOK, Call
<1>3. call[q].key \in Keys BY DEF Goto, Inv, Sound
<1> HIDE DEF r
<1>4. Moves(q) BY <1>1, <1>2, <1>3 DEF Moves, Inv, TypeOK
<1> QED BY <1>4, MovesKeepsInv

LEMMA HoldMoves ==
  ASSUME Inv, NEW q \in Queries, NEW to \in {"ping", "run"}, call[q].pc # "idle",
         pools[call[q].key] # NoDB,
         recent' = recent \cup {pools[call[q].key]},
         call' = [call EXCEPT ![q].pc = to, ![q].db = pools[call[q].key]],
         UNCHANGED <<made, pools, open, lost>>
  PROVE  Inv'
<1> DEFINE db == pools[call[q].key]  r == [call[q] EXCEPT !.pc = to, !.db = db]
<1>1. call[q].key \in Keys BY DEF Inv, Sound
<1>2. db \in DBs /\ db \in 1 .. made BY <1>1 DEF Inv, TypeOK, PooledIsOpen
<1>3. call' = [call EXCEPT ![q] = r] OBVIOUS
<1>4. r \in Call /\ r.key = call[q].key /\ r.db = db
  BY <1>2 DEF Inv, TypeOK, Call
<1> HIDE DEF r
<1>5. Moves(q) BY <1>1, <1>2, <1>3, <1>4 DEF Moves, Inv, TypeOK
<1> QED BY <1>5, MovesKeepsInv

LEMMA LeaveMoves ==
  ASSUME Inv, NEW q \in Queries, call' = [call EXCEPT ![q] = Idle],
         UNCHANGED <<made, pools, open, recent, lost>>
  PROVE  Inv'
<1>1. Moves(q) BY IdleType DEF Moves, Inv, TypeOK
<1> QED BY <1>1, MovesKeepsInv

LEMMA BeginKeepsInv == ASSUME Inv, NEW q \in Queries, NEW k \in Keys, Begin(q, k) PROVE Inv'
<1> DEFINE r == [pc |-> "get", key |-> k, db |-> NoDB]
<1>1. r \in Call /\ r.key = k /\ r.db = NoDB BY DEF Call
<1>2. call' = [call EXCEPT ![q] = r] /\ UNCHANGED <<made, pools, open, recent, lost>>
  BY DEF Begin
<1> HIDE DEF r
<1>3. Moves(q) BY <1>1, <1>2 DEF Moves, Inv, TypeOK
<1> QED BY <1>3, MovesKeepsInv

LEMMA QuietKeepsInv ==
  ASSUME Inv, recent' \subseteq recent, UNCHANGED <<made, pools, open, call, lost>> PROVE Inv'
<1>1. TypeOK' BY DEF Inv, TypeOK
<1>2. Sound' BY DEF Inv, Sound
<1>3. PooledIsOpen' /\ OnlyDropLoses' BY DEF Inv, PooledIsOpen, OnlyDropLoses
<1> QED BY <1>1, <1>2, <1>3 DEF Inv

LEMMA NextInv == Inv /\ [Next]_vars => Inv'
<1> SUFFICES ASSUME Inv, [Next]_vars PROVE Inv' OBVIOUS
<1>1. ASSUME NEW q \in Queries, NEW k \in Keys, Begin(q, k) PROVE Inv'
  BY <1>1, BeginKeepsInv
<1>2. ASSUME NEW q \in Queries, GetFast(q) PROVE Inv'
  BY <1>2, HoldMoves DEF GetFast
<1>3. ASSUME NEW q \in Queries, GetMiss(q) PROVE Inv'
  BY <1>3, GotoMoves DEF GetMiss
<1>4. ASSUME NEW q \in Queries, PingOk(q) PROVE Inv'
  BY <1>4, GotoMoves DEF PingOk
<1>5. ASSUME NEW q \in Queries, PingFail(q) PROVE Inv'
  BY <1>5, GotoMoves DEF PingFail
<1>6. ASSUME NEW q \in Queries, Drop(q) PROVE Inv'
  BY <1>6, DropKeepsInv
<1>7. ASSUME NEW q \in Queries, MissFound(q) PROVE Inv'
  BY <1>7, HoldMoves DEF MissFound
<1>8. ASSUME NEW q \in Queries, Open(q) PROVE Inv'
  BY <1>8, OpenKeepsInv
<1>9. ASSUME NEW q \in Queries, OpenFail(q) PROVE Inv'
  BY <1>9, LeaveMoves DEF OpenFail
<1>10. ASSUME NEW q \in Queries, Finish(q) PROVE Inv'
  BY <1>10, LeaveMoves DEF Finish
<1>11. ASSUME NEW db \in DBs, Idles(db) PROVE Inv'
  BY <1>11, QuietKeepsInv DEF Idles
<1>12. CASE CleanupStale BY <1>12, CleanupKeepsInv
<1>13. CASE UNCHANGED vars BY <1>13, QuietKeepsInv DEF vars
<1> QED BY <1>1, <1>2, <1>3, <1>4, <1>5, <1>6, <1>7, <1>8, <1>9, <1>10, <1>11, <1>12, <1>13
        DEF Next, Get

LEMMA InvHolds == Spec => []Inv
BY InitInv, NextInv, PTL DEF Spec

\* Every reachable state is type-correct.
THEOREM TypeCorrect == Spec => []TypeOK
BY InvHolds, PTL DEF Inv

\* The map never hands out a handle that somebody has closed.
THEOREM PooledIsOpenHolds == Spec => []PooledIsOpen
BY InvHolds, PTL DEF Inv

\* Only the drop after a failed ping of another handle loses an open handle.
THEOREM OnlyDropLosesHolds == Spec => []OnlyDropLoses
BY InvHolds, PTL DEF Inv
-----------------------------------------------------------------------------
\* No step closes a handle without a cause.
THEOREM ClosedForCauseHolds == Spec => ClosedForCause
<1>1. ASSUME Inv, [Next]_vars, NEW db \in open \ open'
      PROVE  db \notin recent \/ \E q \in Queries : call[q].pc = "drop" /\ call[q].db = db
  <2>1. open' # open BY <1>1
  <2>2. ASSUME NEW q \in Queries, Drop(q) PROVE call[q].pc = "drop" /\ call[q].db = db
    BY <1>1, <2>2 DEF Drop, Goto
  <2>3. CASE CleanupStale BY <1>1, <2>3 DEF CleanupStale
  <2>4. ASSUME NEW q \in Queries, Open(q) PROVE FALSE
    BY <1>1, <2>4 DEF Open
  <2>5. CASE open' = open BY <2>1, <2>5
  <2> QED BY <1>1, <2>2, <2>3, <2>4, <2>5
          DEF Next, Get, Begin, GetFast, GetMiss, PingOk, PingFail, MissFound, OpenFail, Finish,
              Idles, vars
<1>2. Inv /\ [Next]_vars =>
        [\A db \in open \ open' :
           db \notin recent \/ \E q \in Queries : call[q].pc = "drop" /\ call[q].db = db]_vars
  BY <1>1
<1> QED BY <1>2, InvHolds, PTL DEF Spec, ClosedForCause
-----------------------------------------------------------------------------
(* EditDialogs: what a dialog was filled from, what it sends and which call it watches *)

\* What may be open, form by form
Opened ==
  /\ subject = "new" => form \in {"account", "group", "request"}
  /\ subject = "none" => touched = {}
  /\ form = "workspace" => subject \in on
  /\ form = "request" => on = {}

\* What was not typed in is what the form shows of the row it was filled from
Filled ==
  subject \in on =>
    /\ seen \in Values
    /\ "name" \notin touched => fields.name = seen.name
    /\ "tag" \notin touched => fields.tag = FieldsOf(seen).tag
    /\ Live => seen = listed[subject]

\* The same holds of what was sent, and a call that is watched is that of the open dialog
SubmitFits(c) ==
  /\ c.of # "new" =>
       /\ c.of \in on
       /\ c.watched => subject = c.of
       /\ c.pc = "sent" =>
            /\ c.seen \in Values
            /\ "name" \notin c.touched => c.values.name = c.seen.name
            /\ "tag" \notin c.touched => c.values.tag = FieldsOf(c.seen).tag
  /\ c.of = "new" => form \in {"account", "group", "request"}
  /\ form = "request" => c.watched
SubmitsFit == \A c \in submits : SubmitFits(c)

\* What every step keeps
DialogInv == EditDialogTypeOK /\ Opened /\ Filled /\ SubmitsFit /\ OneWatched

\* No entry is taken for a new row or for none.
LEMMA EntriesAre == "new" \notin Entries /\ "none" \notin Entries /\ MaxEdits \in Nat
BY EditDialogAssumption

\* What the values are, and how a form shows them: the name as it is.
LEMMA ValuesAre ==
  /\ NoValues \in Values /\ NoValues.name = 1 /\ NoValues.tag = "none"
  /\ Blank0 \in [name : Names \cup {0}, tag : Tags] /\ Blank0.name = 0 /\ Blank0.tag = "none"
  /\ Values \subseteq [name : Names \cup {0}, tag : Tags]
BY DEF NoValues, Blank0, Values, Names, Tags

LEMMA ShownAs ==
  ASSUME NEW v \in Values
  PROVE  FieldsOf(v) \in Values /\ FieldsOf(v).name = v.name
<1>1. PICK t \in Tags : t = IF v.tag = "none" THEN "first" ELSE v.tag
  BY DEF Values, Tags
<1>2. PICK w \in Tags : w = IF v.tag = "none" THEN "none" ELSE "first"
  BY DEF Tags
<1>3. AccountFields(v) \in Values /\ AccountFields(v).name = v.name
  <2>1. [v EXCEPT !.tag = t] \in Values /\ [v EXCEPT !.tag = t].name = v.name
    BY DEF Values
  <2> QED BY <1>1, <2>1 DEF AccountFields
<1>4. WorkspaceFields(v) \in Values /\ WorkspaceFields(v).name = v.name
  <2>1. [v EXCEPT !.tag = w] \in Values /\ [v EXCEPT !.tag = w].name = v.name
    BY DEF Values
  <2> QED BY <1>2, <2>1 DEF WorkspaceFields
<1> QED BY <1>3, <1>4 DEF FieldsOf, DatabaseFields, GroupFields

\* The form being the same, so is how it shows a row.
LEMMA SameForm ==
  ASSUME form' = form
  PROVE  /\ \A v : FieldsOf(v)' = FieldsOf(v)
         /\ Live' <=> Live
         /\ Tagged' <=> Tagged
BY DEF FieldsOf, Live, Tagged

\* A dialog that is filled shows what its row is shown as.
LEMMA FilledIs ==
  ASSUME EditDialogTypeOK, form' = form, on' = on, listed' \in [Entries -> Values],
         NEW e \in on \cup {"new", "none"}, NEW v \in Values \cup {Blank0}, e \in on => v \in Values,
         FilledFrom(e, v), Live /\ e \in on => v = listed'[e]
  PROVE  /\ subject' = e /\ seen' = v /\ touched' = {}
         /\ subject' \in on' \cup {"new", "none"} /\ seen' \in Values \cup {Blank0}
         /\ fields' \in [name : Names \cup {0}, tag : Tags] /\ touched' \subseteq {"name", "tag"}
         /\ Filled'
<1>1. /\ subject' = e /\ seen' = v /\ touched' = {}
      /\ fields' = IF e = "new" THEN Blank0 ELSE FieldsOf(v)
  BY DEF FilledFrom
<1>2. "new" \notin on
  BY EntriesAre DEF EditDialogTypeOK
<1>3. e \in on => fields' = FieldsOf(v) /\ fields' \in Values /\ fields'.name = v.name
  BY <1>1, <1>2, ShownAs
<1>4. fields' \in [name : Names \cup {0}, tag : Tags]
  <2>1. CASE e = "new"
    BY <1>1, <2>1, ValuesAre
  <2>2. CASE e # "new"
    <3>1. CASE v \in Values
      BY <1>1, <2>2, <3>1, ShownAs, ValuesAre
    <3>2. CASE v = Blank0
      <4>1. fields' = FieldsOf(Blank0)
        BY <1>1, <2>2, <3>2
      <4>2. PICK b : b = Blank0 /\ b \in [name : Names \cup {0}, tag : Tags] /\ b.name = 0 /\ b.tag = "none"
        BY ValuesAre
      <4>3. [b EXCEPT !.tag = "none"] \in [name : Names \cup {0}, tag : Tags]
        BY <4>2 DEF Tags
      <4>4. [b EXCEPT !.tag = "first"] \in [name : Names \cup {0}, tag : Tags]
        BY <4>2 DEF Tags
      <4>5. AccountFields(b) = [b EXCEPT !.tag = "first"] /\ WorkspaceFields(b) = [b EXCEPT !.tag = "none"]
        BY <4>2 DEF AccountFields, WorkspaceFields
      <4>6. FieldsOf(b) \in [name : Names \cup {0}, tag : Tags]
        BY <4>2, <4>3, <4>4, <4>5 DEF FieldsOf, DatabaseFields, GroupFields
      <4> QED BY <4>1, <4>2, <4>6
    <3> QED BY <3>1, <3>2
  <2> QED BY <2>1, <2>2
<1>5. Filled'
  <2>1. SUFFICES ASSUME e \in on
                 PROVE  /\ seen' \in Values /\ fields'.name = seen'.name
                        /\ fields'.tag = FieldsOf(seen').tag
                        /\ Live => seen' = listed'[e]
    <3>1. subject' \in on' <=> e \in on
      BY <1>1
    <3>2. FieldsOf(seen)' = FieldsOf(seen') /\ (Live' <=> Live)
      BY DEF FieldsOf, Live
    <3> QED BY <1>1, <3>1, <3>2 DEF Filled
  <2> QED BY <1>1, <1>3, <2>1
<1> QED BY <1>1, <1>4, <1>5

\* Fewer calls, and the same dialog open or one where there was none.
LEMMA CallsFewer ==
  ASSUME DialogInv, form' = form, on' = on, submits' \subseteq submits, subject' = subject \/ subject = "none"
  PROVE  SubmitsFit' /\ OneWatched' /\ submits' \subseteq Submission
<1>1. SubmitsFit'
  <2> SUFFICES ASSUME NEW c \in submits'
               PROVE  SubmitFits(c)'
    BY DEF SubmitsFit
  <2>1. SubmitFits(c) /\ c \in submits
    BY DEF DialogInv, SubmitsFit
  <2>2. FieldsOf(c.seen)' = FieldsOf(c.seen)
    BY DEF FieldsOf
  <2>3. c.of # "new" /\ c.watched => subject' = c.of
    BY <2>1, EntriesAre DEF SubmitFits, DialogInv, EditDialogTypeOK
  <2> QED BY <2>1, <2>2, <2>3 DEF SubmitFits
<1>2. OneWatched'
  BY DEF DialogInv, OneWatched, Same
<1> QED BY <1>1, <1>2 DEF DialogInv, EditDialogTypeOK

\* A dialog is opened.
LEMMA OpenStep ==
  ASSUME DialogInv, OpenDialog \/ OpenNew
  PROVE  DialogInv'
<1>1. UNCHANGED <<form, on, entry, listed, submits, edits, created>> /\ subject = "none"
  BY DEF OpenDialog, OpenNew
<1>2. EditDialogTypeOK
  BY DEF DialogInv
<1>3. listed' \in [Entries -> Values] /\ on \subseteq Entries
  BY <1>1, <1>2 DEF EditDialogTypeOK
<1>4. PICK e \in on \cup {"new", "none"}, v \in Values \cup {Blank0} :
        /\ FilledFrom(e, v) /\ e # "none" /\ (e \in on => v = listed[e])
        /\ (e = "new" => form \in {"account", "group", "request"})
  <2>1. CASE OpenDialog
    <3>1. PICK e \in on : FilledFrom(e, listed[e])
      BY <2>1 DEF OpenDialog
    <3>2. listed[e] \in Values /\ e # "none" /\ e # "new"
      BY <1>1, <1>3, <3>1, EntriesAre
    <3> QED BY <3>1, <3>2
  <2>2. CASE OpenNew
    BY <1>3, <2>2, EntriesAre DEF OpenNew
  <2> QED BY <2>1, <2>2
<1>5. e \in on => v \in Values /\ v = listed'[e]
  BY <1>1, <1>3, <1>4
<1>6. /\ subject' = e /\ seen' = v /\ touched' = {}
      /\ subject' \in on' \cup {"new", "none"} /\ seen' \in Values \cup {Blank0}
      /\ fields' \in [name : Names \cup {0}, tag : Tags] /\ touched' \subseteq {"name", "tag"}
      /\ Filled'
  BY <1>1, <1>2, <1>3, <1>4, <1>5, FilledIs
<1>7. SubmitsFit' /\ OneWatched' /\ submits' \subseteq Submission
  BY <1>1, CallsFewer
<1>8. EditDialogTypeOK'
  BY <1>1, <1>2, <1>6, <1>7 DEF EditDialogTypeOK
<1>9. Opened'
  BY <1>1, <1>3, <1>4, <1>6, EntriesAre DEF DialogInv, Opened
<1> QED BY <1>6, <1>7, <1>8, <1>9 DEF DialogInv

\* A field is typed in.
LEMMA TypeStep ==
  ASSUME DialogInv, Types
  PROVE  DialogInv'
<1>1. UNCHANGED <<form, on, entry, listed, subject, seen, submits, edits, created>> /\ subject # "none"
  BY DEF Types, TypeName, ChooseTag
<1>2. fields \in [name : Names \cup {0}, tag : Tags] /\ touched \subseteq {"name", "tag"}
  BY DEF DialogInv, EditDialogTypeOK
<1>3. /\ fields' \in [name : Names \cup {0}, tag : Tags] /\ touched' \subseteq {"name", "tag"}
      /\ touched \subseteq touched'
      /\ "name" \notin touched' => fields'.name = fields.name
      /\ "tag" \notin touched' => fields'.tag = fields.tag
  <2>1. CASE TypeName
    <3>1. PICK n \in Names : fields' = [fields EXCEPT !.name = n]
      BY <2>1 DEF TypeName
    <3> QED BY <1>2, <2>1, <3>1 DEF TypeName
  <2>2. CASE ChooseTag
    <3>1. PICK t \in Tags : fields' = [fields EXCEPT !.tag = t]
      BY <2>2 DEF ChooseTag
    <3> QED BY <1>2, <2>2, <3>1 DEF ChooseTag
  <2> QED BY <2>1, <2>2 DEF Types
<1>4. Filled'
  <2>1. FieldsOf(seen)' = FieldsOf(seen) /\ (Live' <=> Live)
    BY <1>1 DEF FieldsOf, Live
  <2> QED BY <1>1, <1>3, <2>1 DEF DialogInv, Filled
<1>5. SubmitsFit' /\ OneWatched' /\ submits' \subseteq Submission
  BY <1>1, CallsFewer
<1>6. EditDialogTypeOK'
  BY <1>1, <1>3 DEF DialogInv, EditDialogTypeOK
<1>7. Opened'
  BY <1>1 DEF DialogInv, Opened
<1> QED BY <1>4, <1>5, <1>6, <1>7 DEF DialogInv

\* The rows in the cache become l, and the form follows them or not.
LEMMA RefilledIs ==
  ASSUME DialogInv, NEW l \in [Entries -> Values], Refilled(l), UNCHANGED <<form, on>>
  PROVE  /\ listed' = l /\ subject' = subject
         /\ seen' \in Values \cup {Blank0} /\ fields' \in [name : Names \cup {0}, tag : Tags]
         /\ touched' \subseteq {"name", "tag"} /\ (touched = {} => touched' = {})
         /\ Filled'
<1>1. listed' = l /\ EditDialogTypeOK
  BY DEF Refilled, DialogInv
<1>2. CASE Live /\ subject \in on /\ l[subject] # seen
  <2>1. FilledFrom(subject, l[subject])
    BY <1>2 DEF Refilled
  <2>2. PICK e \in on : e = subject
    BY <1>2
  <2>3. PICK v \in Values : v = l[e]
    BY <1>1 DEF EditDialogTypeOK
  <2>4. FilledFrom(e, v)
    BY <2>1, <2>2, <2>3
  <2>5. e \in on \cup {"new", "none"} /\ v \in Values \cup {Blank0} /\ listed' \in [Entries -> Values] /\ v = listed'[e]
    BY <1>1, <2>3
  <2>6. /\ subject' = e /\ seen' = v /\ touched' = {}
        /\ seen' \in Values \cup {Blank0}
        /\ fields' \in [name : Names \cup {0}, tag : Tags] /\ touched' \subseteq {"name", "tag"}
        /\ Filled'
    BY <1>1, <2>4, <2>5, FilledIs
  <2> QED BY <1>1, <2>2, <2>6
<1>3. CASE ~(Live /\ subject \in on /\ l[subject] # seen)
  <2>1. UNCHANGED <<subject, seen, fields, touched>>
    BY <1>3 DEF Refilled
  <2>2. FieldsOf(seen)' = FieldsOf(seen) /\ (Live' <=> Live)
    BY <2>1 DEF FieldsOf, Live
  <2>3. Filled'
    BY <1>1, <1>3, <2>1, <2>2 DEF DialogInv, Filled
  <2> QED BY <1>1, <2>1, <2>3 DEF EditDialogTypeOK
<1> QED BY <1>2, <1>3

\* The query of the page is fetched again.
LEMMA RefetchStep ==
  ASSUME DialogInv, Refetched
  PROVE  DialogInv'
<1>1. Refilled(entry) /\ UNCHANGED <<form, on, entry, submits, edits, created>>
  BY DEF Refetched
<1>2. PICK l \in [Entries -> Values] : l = entry
  BY DEF DialogInv, EditDialogTypeOK
<1>3. Refilled(l)
  BY <1>1, <1>2
<1>4. /\ listed' = l /\ subject' = subject
      /\ seen' \in Values \cup {Blank0} /\ fields' \in [name : Names \cup {0}, tag : Tags]
      /\ touched' \subseteq {"name", "tag"} /\ (touched = {} => touched' = {})
      /\ Filled'
  BY <1>1, <1>3, RefilledIs
<1>5. SubmitsFit' /\ OneWatched' /\ submits' \subseteq Submission
  BY <1>1, <1>4, CallsFewer
<1>6. EditDialogTypeOK'
  BY <1>1, <1>2, <1>4 DEF DialogInv, EditDialogTypeOK
<1>7. Opened'
  BY <1>1, <1>4 DEF DialogInv, Opened
<1> QED BY <1>4, <1>5, <1>6, <1>7 DEF DialogInv

\* Another admin edits a row.
LEMMA OtherStep ==
  ASSUME DialogInv, OtherAdmin
  PROVE  DialogInv'
<1>1. UNCHANGED <<form, on, listed, subject, seen, fields, touched, submits, created>>
  BY DEF OtherAdmin
<1>2. edits' \in 0..MaxEdits
  <2>1. edits \in Nat /\ edits < MaxEdits /\ edits' = edits + 1
    BY EntriesAre DEF OtherAdmin, DialogInv, EditDialogTypeOK
  <2> QED BY <2>1, EntriesAre
<1>3. entry' \in [Entries -> Values]
  <2>1. PICK e \in on : \/ entry' = [entry EXCEPT ![e].name = 2]
                        \/ entry' = [entry EXCEPT ![e].tag = "other"]
    BY DEF OtherAdmin
  <2>2. entry \in [Entries -> Values] /\ e \in Entries /\ entry[e] \in Values
    BY <2>1 DEF DialogInv, EditDialogTypeOK
  <2>3. [entry[e] EXCEPT !.name = 2] \in Values
    BY <2>2 DEF Values, Names
  <2>4. [entry[e] EXCEPT !.tag = "other"] \in Values
    BY <2>2 DEF Values, Tags
  <2>5. CASE entry' = [entry EXCEPT ![e].name = 2]
    BY <2>2, <2>3, <2>5
  <2>6. CASE entry' = [entry EXCEPT ![e].tag = "other"]
    BY <2>2, <2>4, <2>6
  <2> QED BY <2>1, <2>5, <2>6
<1>4. SubmitsFit' /\ OneWatched' /\ submits' \subseteq Submission
  BY <1>1, CallsFewer
<1>5. EditDialogTypeOK'
  BY <1>1, <1>2, <1>3 DEF DialogInv, EditDialogTypeOK
<1>6. Filled'
  <2>1. FieldsOf(seen)' = FieldsOf(seen) /\ (Live' <=> Live)
    BY <1>1 DEF FieldsOf, Live
  <2> QED BY <1>1, <2>1 DEF DialogInv, Filled
<1>7. Opened'
  BY <1>1 DEF DialogInv, Opened
<1> QED BY <1>4, <1>5, <1>6, <1>7 DEF DialogInv

\* The calls a dialog forgets go on, unwatched.
LEMMA ForgottenAre ==
  ASSUME DialogInv, NEW cs \in SUBSET submits, NEW s, NEW d \in Forgotten(cs, s)
  PROVE  \E c \in cs :
           /\ d \in Submission /\ d.of = c.of /\ d.values = c.values /\ d.touched = c.touched
           /\ d.seen = c.seen /\ d.pc = c.pc
           /\ IF Same(c, s) THEN d.watched = FALSE ELSE d = c
<1>1. PICK c \in cs : d = IF Same(c, s) THEN [c EXCEPT !.watched = FALSE] ELSE c
  BY DEF Forgotten
<1>2. c \in Submission
  BY DEF DialogInv, EditDialogTypeOK
<1>3. PICK n \in BOOLEAN : n = FALSE
  OBVIOUS
<1>4. PICK w : w = [c EXCEPT !.watched = n]
  OBVIOUS
<1>5. /\ w \in Submission /\ w.of = c.of /\ w.values = c.values /\ w.touched = c.touched
      /\ w.seen = c.seen /\ w.pc = c.pc /\ w.watched = n
  BY <1>2, <1>4 DEF Submission
<1>6. CASE Same(c, s)
  <2>1. d = w
    BY <1>1, <1>3, <1>4, <1>6
  <2> QED BY <1>3, <1>5, <1>6, <2>1
<1>7. CASE ~Same(c, s)
  BY <1>1, <1>2, <1>7
<1> QED BY <1>6, <1>7

\* Once the calls of a dialog are forgotten, those watched are of the dialog that is open, if any.
LEMMA ForgottenFit ==
  ASSUME DialogInv, form' = form, on' = on, NEW cs \in SUBSET submits, NEW s \in on \cup {"new"},
         submits' = Forgotten(cs, s), form # "request" \/ cs = {},
         subject' = subject \/ Same([of |-> s], subject)
  PROVE  SubmitsFit' /\ OneWatched' /\ submits' \subseteq Submission
<1>0. "new" \notin on /\ EditDialogTypeOK
  BY EntriesAre DEF DialogInv, EditDialogTypeOK
<1>1. SubmitsFit'
  <2> SUFFICES ASSUME NEW d \in submits'
               PROVE  SubmitFits(d)'
    BY DEF SubmitsFit
  <2>1. PICK c \in cs :
          /\ d \in Submission /\ d.of = c.of /\ d.values = c.values /\ d.touched = c.touched
          /\ d.seen = c.seen /\ d.pc = c.pc
          /\ IF Same(c, s) THEN d.watched = FALSE ELSE d = c
    BY ForgottenAre
  <2>2. SubmitFits(c)
    BY DEF DialogInv, SubmitsFit
  <2>3. FieldsOf(d.seen)' = FieldsOf(d.seen)
    BY DEF FieldsOf
  <2>4. d.of # "new" /\ d.watched => subject' = d.of
    <3>1. SUFFICES ASSUME d.of # "new", d.watched PROVE subject' = d.of
      OBVIOUS
    <3>2. d = c /\ ~Same(c, s)
      BY <2>1, <3>1
    <3>3. subject = c.of
      BY <2>2, <3>1, <3>2 DEF SubmitFits
    <3>4. s = "new" /\ subject # "new"
      BY <3>1, <3>2, <3>3 DEF Same
    <3> QED BY <3>2, <3>3, <3>4 DEF Same
  <2>5. form # "request"
    BY <2>1
  <2> QED BY <2>1, <2>2, <2>3, <2>4, <2>5 DEF SubmitFits
<1>2. OneWatched'
  <2> SUFFICES ASSUME NEW c1 \in submits', NEW d1 \in submits', c1 # d1, Same(c1, d1.of)'
               PROVE  form # "request" /\ ~(c1.watched /\ d1.watched)
    BY DEF OneWatched
  <2>1. PICK c \in cs :
          /\ c1.of = c.of
          /\ IF Same(c, s) THEN c1.watched = FALSE ELSE c1 = c
    BY ForgottenAre
  <2>2. PICK d \in cs :
          /\ d1.of = d.of
          /\ IF Same(d, s) THEN d1.watched = FALSE ELSE d1 = d
    BY ForgottenAre
  <2>3. CASE Same(c, s) \/ Same(d, s)
    BY <2>1, <2>2, <2>3
  <2>4. CASE ~Same(c, s) /\ ~Same(d, s)
    <3>1. c1 = c /\ d1 = d /\ Same(c, d.of)
      BY <2>1, <2>2, <2>4 DEF Same
    <3> QED BY <3>1 DEF DialogInv, OneWatched
  <2> QED BY <2>1, <2>3, <2>4
<1>3. submits' \subseteq Submission
  BY ForgottenAre
<1> QED BY <1>1, <1>2, <1>3

\* A dialog is closed, by its user or by an answer.
LEMMA ClosedIs ==
  ASSUME DialogInv, FilledFrom("none", Blank0), UNCHANGED <<form, on, listed>>, form # "workspace"
  PROVE  /\ subject' = "none" /\ touched' = {} /\ seen' \in Values \cup {Blank0}
         /\ subject' \in on' \cup {"new", "none"}
         /\ fields' \in [name : Names \cup {0}, tag : Tags] /\ touched' \subseteq {"name", "tag"}
         /\ Filled' /\ Opened'
<1>1. EditDialogTypeOK /\ listed' \in [Entries -> Values] /\ "none" \notin on
  BY EntriesAre DEF DialogInv, EditDialogTypeOK
<1>2. PICK e \in on \cup {"new", "none"} : e = "none"
  OBVIOUS
<1>3. PICK v \in Values \cup {Blank0} : v = Blank0
  OBVIOUS
<1>4. FilledFrom(e, v) /\ e \notin on
  BY <1>1, <1>2, <1>3
<1>5. /\ subject' = e /\ seen' = v /\ touched' = {}
      /\ subject' \in on' \cup {"new", "none"} /\ seen' \in Values \cup {Blank0}
      /\ fields' \in [name : Names \cup {0}, tag : Tags] /\ touched' \subseteq {"name", "tag"}
      /\ Filled'
  BY <1>1, <1>4, FilledIs
<1>6. Opened'
  BY <1>2, <1>5 DEF DialogInv, Opened
<1> QED BY <1>2, <1>5, <1>6

\* Cancel or Escape.
LEMMA CloseStep ==
  ASSUME DialogInv, Close
  PROVE  DialogInv'
<1>1. /\ UNCHANGED <<form, on, entry, listed, edits, created>> /\ subject # "none" /\ form # "workspace"
      /\ FilledFrom("none", Blank0)
      /\ submits' = IF form = "request" THEN submits ELSE Forgotten(submits, subject)
  BY DEF Close
<1>2. /\ subject' = "none" /\ touched' = {} /\ seen' \in Values \cup {Blank0}
      /\ subject' \in on' \cup {"new", "none"}
      /\ fields' \in [name : Names \cup {0}, tag : Tags] /\ touched' \subseteq {"name", "tag"}
      /\ Filled' /\ Opened'
  BY <1>1, ClosedIs
<1>3. SubmitsFit' /\ OneWatched' /\ submits' \subseteq Submission
  <2>1. CASE form = "request"
    <3>1. submits' = submits /\ \A c \in submits : c.of = "new"
      BY <1>1, <2>1 DEF DialogInv, SubmitsFit, SubmitFits, Opened
    <3>2. \A c \in submits : FieldsOf(c.seen)' = FieldsOf(c.seen)
      BY <1>1 DEF FieldsOf
    <3> QED BY <1>1, <3>1, <3>2 DEF DialogInv, EditDialogTypeOK, SubmitsFit, SubmitFits, OneWatched, Same
  <2>2. CASE form # "request"
    <3>1. PICK s \in on \cup {"new"} : s = subject
      BY <1>1 DEF DialogInv, EditDialogTypeOK
    <3>2. PICK cs \in SUBSET submits : cs = submits
      OBVIOUS
    <3>3. submits' = Forgotten(cs, s) /\ Same([of |-> s], subject)
      BY <1>1, <2>2, <3>1, <3>2 DEF Same
    <3> QED BY <1>1, <2>2, <3>3, ForgottenFit
  <2> QED BY <2>1, <2>2
<1>4. EditDialogTypeOK'
  BY <1>1, <1>2, <1>3 DEF DialogInv, EditDialogTypeOK
<1> QED BY <1>2, <1>3, <1>4 DEF DialogInv

\* What is shown is sent.
LEMMA SubmitStep ==
  ASSUME DialogInv, Submit
  PROVE  DialogInv'
<1>1. /\ UNCHANGED <<form, on, entry, listed, subject, seen, fields, touched, edits, created>>
      /\ submits' = submits \cup {Sent} /\ ~Watching(subject) /\ subject # "none" /\ fields.name # 0
  BY DEF Submit
<1>0. EditDialogTypeOK /\ "new" \notin on
  BY EntriesAre DEF DialogInv, EditDialogTypeOK
<1>2. /\ Sent \in Submission /\ Sent.of = subject /\ Sent.watched = TRUE
      /\ subject # "new" => Sent.values = fields /\ Sent.touched = touched /\ Sent.seen = seen
  <2>1. CASE subject = "new"
    <3>1. PICK v \in Values : v = NoValues
      BY ValuesAre
    <3>2. PICK b \in Values \cup {Blank0} : b = Blank0
      OBVIOUS
    <3>3. PICK t \in BOOLEAN : t = TRUE
      OBVIOUS
    <3>4. PICK r : r = [of |-> "new", values |-> v, touched |-> {}, seen |-> b, watched |-> t, pc |-> "sent"]
      OBVIOUS
    <3>5. r \in Submission /\ r.of = "new" /\ r.watched = t
      BY <3>4 DEF Submission
    <3>6. r = Sent
      BY <2>1, <3>1, <3>2, <3>3, <3>4 DEF Sent
    <3> QED BY <2>1, <3>3, <3>5, <3>6
  <2>2. CASE subject # "new"
    <3>1. subject \in Entries /\ fields \in Values
      BY <1>0, <1>1, <2>2 DEF EditDialogTypeOK, Values
    <3>2. PICK t \in BOOLEAN : t = TRUE
      OBVIOUS
    <3>3. PICK r : r = [of |-> subject, values |-> fields, touched |-> touched, seen |-> seen, watched |-> t, pc |-> "sent"]
      OBVIOUS
    <3>4. /\ r \in Submission /\ r.of = subject /\ r.watched = t
          /\ r.values = fields /\ r.touched = touched /\ r.seen = seen
      BY <1>0, <3>1, <3>3 DEF Submission, EditDialogTypeOK
    <3>5. r = Sent
      BY <2>2, <3>2, <3>3 DEF Sent
    <3> QED BY <3>2, <3>4, <3>5
  <2> QED BY <2>1, <2>2
<1>3. PICK r \in Submission : r = Sent
  BY <1>2
<1>4. submits' \subseteq Submission
  BY <1>0, <1>1, <1>3 DEF EditDialogTypeOK
<1>5. SubmitsFit'
  <2> SUFFICES ASSUME NEW c \in submits'
               PROVE  SubmitFits(c)'
    BY DEF SubmitsFit
  <2>1. FieldsOf(c.seen)' = FieldsOf(c.seen)
    BY <1>1 DEF FieldsOf
  <2>2. CASE c \in submits
    BY <1>1, <2>1, <2>2 DEF DialogInv, SubmitsFit, SubmitFits
  <2>3. CASE c = r
    <3>1. r.of = subject /\ (subject # "new" => subject \in on /\ r.values = fields /\ r.touched = touched /\ r.seen = seen)
      BY <1>0, <1>1, <1>2, <1>3 DEF EditDialogTypeOK
    <3>2. r.watched
      BY <1>2, <1>3
    <3>3. subject \in on =>
            /\ seen \in Values
            /\ "name" \notin touched => fields.name = seen.name
            /\ "tag" \notin touched => fields.tag = FieldsOf(seen).tag
      BY DEF DialogInv, Filled
    <3>4. subject = "new" => form \in {"account", "group", "request"}
      BY DEF DialogInv, Opened
    <3> QED BY <1>1, <2>1, <2>3, <3>1, <3>2, <3>3, <3>4 DEF SubmitFits
  <2> QED BY <1>1, <1>3, <2>2, <2>3
<1>6. OneWatched'
  <2> SUFFICES ASSUME NEW c \in submits', NEW d \in submits', c # d, Same(c, d.of)'
               PROVE  form # "request" /\ ~(c.watched /\ d.watched)
    BY <1>1 DEF OneWatched
  <2>1. Same(c, d.of)
    BY DEF Same
  <2>2. CASE c \in submits /\ d \in submits
    BY <2>1, <2>2 DEF DialogInv, OneWatched
  <2>3. ASSUME NEW o \in submits, Same(o, r.of) PROVE form # "request" /\ ~o.watched
    <3>1. ~o.watched
      BY <1>1, <1>2, <1>3, <2>3 DEF Watching
    <3> QED BY <3>1 DEF DialogInv, SubmitsFit, SubmitFits
  <2>4. CASE c = r /\ d \in submits
    BY <2>1, <2>3, <2>4 DEF Same
  <2>5. CASE c \in submits /\ d = r
    BY <2>1, <2>3, <2>5
  <2> QED BY <1>1, <1>3, <2>2, <2>4, <2>5
<1>7. Filled'
  <2>1. FieldsOf(seen)' = FieldsOf(seen) /\ (Live' <=> Live)
    BY <1>1 DEF FieldsOf, Live
  <2> QED BY <1>1, <2>1 DEF DialogInv, Filled
<1>8. EditDialogTypeOK' /\ Opened'
  BY <1>0, <1>1, <1>4 DEF DialogInv, EditDialogTypeOK, Opened
<1> QED BY <1>5, <1>6, <1>7, <1>8 DEF DialogInv

\* The API saves what was sent.
LEMMA ServeStep ==
  ASSUME DialogInv, NEW c \in submits, Serve(c)
  PROVE  DialogInv'
<1>1. UNCHANGED <<form, on, listed, subject, seen, fields, touched, edits>> /\ c.pc = "sent"
  BY DEF Serve
<1>2. EditDialogTypeOK /\ "new" \notin on /\ c \in Submission /\ SubmitFits(c)
  BY EntriesAre DEF DialogInv, EditDialogTypeOK, SubmitsFit
<1>3. created' \in 0..MaxEdits /\ entry' \in [Entries -> Values]
  <2>1. CASE c.of = "new"
    <3>1. created < MaxEdits /\ created' = created + 1 /\ entry' = entry
      BY <2>1 DEF Serve
    <3>2. created \in Nat /\ created + 1 \in 0..MaxEdits
      BY <1>2, <3>1, EntriesAre DEF EditDialogTypeOK
    <3> QED BY <1>2, <3>1, <3>2 DEF EditDialogTypeOK
  <2>2. CASE c.of # "new"
    <3>1. entry' = [entry EXCEPT ![c.of] = Applied(@, c.values)] /\ created' = created
      BY <2>2 DEF Serve
    <3>2. c.of \in Entries /\ entry \in [Entries -> Values] /\ c.values \in Values
      BY <1>2, <2>2 DEF Submission, EditDialogTypeOK
    <3>3. PICK o \in Entries : o = c.of
      BY <3>2
    <3>4. PICK v \in Values : v = entry[o]
      BY <3>2
    <3>5. PICK w \in Values : w = c.values
      BY <3>2
    <3>6. Applied(v, w) \in Values
      BY <3>4, <3>5 DEF Applied, Values
    <3>7. entry' = [entry EXCEPT ![o] = Applied(v, w)]
      BY <3>1, <3>3, <3>4, <3>5
    <3> QED BY <1>2, <3>1, <3>2, <3>6, <3>7 DEF EditDialogTypeOK
  <2> QED BY <2>1, <2>2
<1>4. PICK x : x = IF form = "workspace" THEN entry'[c.of] ELSE NoValues
  OBVIOUS
<1>5. x \in Values
  <2>1. CASE form = "workspace"
    <3>1. c.of \in Entries
      BY <1>2, <2>1 DEF SubmitFits, Submission
    <3> QED BY <1>3, <1>4, <2>1, <3>1
  <2> QED BY <1>4, <2>1, ValuesAre
<1>6. PICK b : b \in Values \cup {Blank0} /\ b = Blank0
  OBVIOUS
<1>7. PICK n : n = [c EXCEPT !.pc = "done", !.touched = {}, !.seen = b, !.values = x]
  OBVIOUS
<1>8. n \in Submission /\ n.of = c.of /\ n.watched = c.watched /\ n.pc = "done"
  BY <1>2, <1>5, <1>6, <1>7 DEF Submission
<1>9. submits' = (submits \ {c}) \cup {n}
  BY <1>4, <1>6, <1>7 DEF Serve
<1>10. submits' \subseteq Submission
  BY <1>2, <1>8, <1>9 DEF EditDialogTypeOK
<1>11. SubmitsFit'
  <2> SUFFICES ASSUME NEW d \in submits'
               PROVE  SubmitFits(d)'
    BY DEF SubmitsFit
  <2>1. FieldsOf(d.seen)' = FieldsOf(d.seen)
    BY <1>1 DEF FieldsOf
  <2>2. CASE d \in submits
    BY <1>1, <2>1, <2>2 DEF DialogInv, SubmitsFit, SubmitFits
  <2>3. CASE d = n
    BY <1>1, <1>2, <1>8, <2>3 DEF SubmitFits
  <2> QED BY <1>9, <2>2, <2>3
<1>12. OneWatched'
  <2> SUFFICES ASSUME NEW c1 \in submits', NEW d1 \in submits', c1 # d1, Same(c1, d1.of)'
               PROVE  form # "request" /\ ~(c1.watched /\ d1.watched)
    BY <1>1 DEF OneWatched
  <2>1. Same(c1, d1.of)
    BY DEF Same
  <2>2. CASE c1 # n /\ d1 # n
    BY <1>9, <2>1, <2>2 DEF DialogInv, OneWatched
  <2>3. CASE c1 = n
    <3>1. d1 \in submits /\ d1 # c /\ Same(c, d1.of)
      BY <1>8, <1>9, <2>1, <2>3 DEF Same
    <3> QED BY <1>8, <2>3, <3>1 DEF DialogInv, OneWatched
  <2>4. CASE d1 = n
    <3>1. c1 \in submits /\ c1 # c /\ Same(c1, c.of)
      BY <1>8, <1>9, <2>1, <2>4 DEF Same
    <3> QED BY <1>8, <2>4, <3>1 DEF DialogInv, OneWatched
  <2> QED BY <2>2, <2>3, <2>4
<1>13. Filled'
  <2>1. FieldsOf(seen)' = FieldsOf(seen) /\ (Live' <=> Live)
    BY <1>1 DEF FieldsOf, Live
  <2> QED BY <1>1, <2>1 DEF DialogInv, Filled
<1>14. EditDialogTypeOK' /\ Opened'
  BY <1>1, <1>2, <1>3, <1>10 DEF DialogInv, EditDialogTypeOK, Opened
<1> QED BY <1>11, <1>12, <1>13, <1>14 DEF DialogInv

\* A call of a dialog is answered.
LEMMA AnswerDialogStep ==
  ASSUME DialogInv, NEW c \in submits, AnswerDialog(c)
  PROVE  DialogInv'
<1>1. /\ UNCHANGED <<form, on, entry, listed, edits, created>> /\ form # "workspace"
      /\ submits' = Forgotten(submits \ {c}, c.of)
  BY DEF AnswerDialog
<1>2. EditDialogTypeOK /\ c \in Submission /\ SubmitFits(c)
  BY DEF DialogInv, EditDialogTypeOK, SubmitsFit
<1>3. /\ subject' \in on' \cup {"new", "none"} /\ seen' \in Values \cup {Blank0}
      /\ fields' \in [name : Names \cup {0}, tag : Tags] /\ touched' \subseteq {"name", "tag"}
      /\ Filled' /\ Opened' /\ (subject' = subject \/ Same(c, subject))
  <2>1. CASE subject # "none" /\ Same(c, subject)
    <3>1. FilledFrom("none", Blank0)
      BY <2>1 DEF AnswerDialog
    <3> QED BY <1>1, <2>1, <3>1, ClosedIs
  <2>2. CASE ~(subject # "none" /\ Same(c, subject))
    <3>1. UNCHANGED <<subject, seen, fields, touched>>
      BY <2>2 DEF AnswerDialog
    <3>2. FieldsOf(seen)' = FieldsOf(seen) /\ (Live' <=> Live)
      BY <1>1, <3>1 DEF FieldsOf, Live
    <3>3. Filled' /\ Opened'
      BY <1>1, <3>1, <3>2 DEF DialogInv, Filled, Opened
    <3> QED BY <1>1, <1>2, <3>1, <3>3 DEF EditDialogTypeOK
  <2> QED BY <2>1, <2>2
<1>4. PICK s \in on \cup {"new"} : s = c.of
  BY <1>2 DEF SubmitFits
<1>5. PICK cs \in SUBSET submits : cs = submits \ {c}
  OBVIOUS
<1>6. form # "request" \/ cs = {}
  <2> SUFFICES ASSUME form = "request", NEW d \in cs PROVE FALSE
    OBVIOUS
  <2>1. c # d /\ Same(c, d.of)
    BY <1>5 DEF DialogInv, SubmitsFit, SubmitFits, Opened, Same
  <2> QED BY <1>5, <2>1 DEF DialogInv, OneWatched
<1>7. submits' = Forgotten(cs, s) /\ (subject' = subject \/ Same([of |-> s], subject))
  BY <1>1, <1>3, <1>4, <1>5 DEF Same
<1>8. SubmitsFit' /\ OneWatched' /\ submits' \subseteq Submission
  BY <1>1, <1>6, <1>7, ForgottenFit
<1>9. EditDialogTypeOK'
  BY <1>1, <1>2, <1>3, <1>8 DEF EditDialogTypeOK
<1> QED BY <1>3, <1>8, <1>9 DEF DialogInv

\* A call of the form of the workspace is answered, or a call fails.
LEMMA AnswerFormStep ==
  ASSUME DialogInv, NEW c \in submits, AnswerForm(c)
  PROVE  DialogInv'
<1>1. /\ UNCHANGED <<form, on, entry, edits, created>> /\ form = "workspace"
      /\ Refilled([listed EXCEPT ![c.of] = c.values]) /\ submits' = submits \ {c}
  BY DEF AnswerForm
<1>2. EditDialogTypeOK /\ c \in Submission
  BY DEF DialogInv, EditDialogTypeOK
<1>3. PICK l \in [Entries -> Values] : l = [listed EXCEPT ![c.of] = c.values]
  BY <1>2 DEF EditDialogTypeOK, Submission
<1>4. Refilled(l)
  BY <1>1, <1>3
<1>5. /\ listed' = l /\ subject' = subject
      /\ seen' \in Values \cup {Blank0} /\ fields' \in [name : Names \cup {0}, tag : Tags]
      /\ touched' \subseteq {"name", "tag"} /\ (touched = {} => touched' = {})
      /\ Filled'
  BY <1>1, <1>4, RefilledIs
<1>6. SubmitsFit' /\ OneWatched' /\ submits' \subseteq Submission
  BY <1>1, <1>5, CallsFewer
<1>7. EditDialogTypeOK'
  BY <1>1, <1>2, <1>5, <1>6 DEF EditDialogTypeOK
<1>8. Opened'
  BY <1>1, <1>5 DEF DialogInv, Opened
<1> QED BY <1>5, <1>6, <1>7, <1>8 DEF DialogInv

LEMMA FailSubmitStep ==
  ASSUME DialogInv, NEW c \in submits, FailSubmit(c)
  PROVE  DialogInv'
<1>1. /\ UNCHANGED <<form, on, entry, listed, subject, seen, fields, touched, edits, created>>
      /\ submits' = submits \ {c}
  BY DEF FailSubmit
<1>2. SubmitsFit' /\ OneWatched' /\ submits' \subseteq Submission
  BY <1>1, CallsFewer
<1>3. Filled'
  <2>1. FieldsOf(seen)' = FieldsOf(seen) /\ (Live' <=> Live)
    BY <1>1 DEF FieldsOf, Live
  <2> QED BY <1>1, <2>1 DEF DialogInv, Filled
<1>4. EditDialogTypeOK' /\ Opened'
  BY <1>1, <1>2 DEF DialogInv, EditDialogTypeOK, Opened
<1> QED BY <1>2, <1>3, <1>4 DEF DialogInv

LEMMA DialogStutter ==
  ASSUME DialogInv, UNCHANGED editDialogVars
  PROVE  DialogInv'
<1>1. UNCHANGED <<form, on, entry, listed, subject, seen, fields, touched, submits, edits, created>>
  BY DEF editDialogVars
<1>2. SubmitsFit' /\ OneWatched' /\ submits' \subseteq Submission
  BY <1>1, CallsFewer
<1>3. Filled'
  <2>1. FieldsOf(seen)' = FieldsOf(seen) /\ (Live' <=> Live)
    BY <1>1 DEF FieldsOf, Live
  <2> QED BY <1>1, <2>1 DEF DialogInv, Filled
<1>4. EditDialogTypeOK' /\ Opened'
  BY <1>1, <1>2 DEF DialogInv, EditDialogTypeOK, Opened
<1> QED BY <1>2, <1>3, <1>4 DEF DialogInv

\* Every step of the dialogs keeps what holds of them.
LEMMA DialogSteps == DialogInv /\ [EditDialogNext]_editDialogVars => DialogInv'
<1> SUFFICES ASSUME DialogInv, [EditDialogNext]_editDialogVars
             PROVE  DialogInv'
  OBVIOUS
<1>1. CASE OpenDialog \/ OpenNew
  BY <1>1, OpenStep
<1>2. CASE Types
  BY <1>2, TypeStep
<1>3. CASE Close
  BY <1>3, CloseStep
<1>4. CASE Submit
  BY <1>4, SubmitStep
<1>5. ASSUME NEW c \in submits, Serve(c) \/ AnswerDialog(c) \/ AnswerForm(c) \/ FailSubmit(c)
      PROVE  DialogInv'
  <2>1. CASE Serve(c)
    BY <2>1, ServeStep
  <2>2. CASE AnswerDialog(c)
    BY <2>2, AnswerDialogStep
  <2>3. CASE AnswerForm(c)
    BY <2>3, AnswerFormStep
  <2>4. CASE FailSubmit(c)
    BY <2>4, FailSubmitStep
  <2> QED BY <1>5, <2>1, <2>2, <2>3, <2>4
<1>6. CASE Refetched
  BY <1>6, RefetchStep
<1>7. CASE OtherAdmin
  BY <1>7, OtherStep
<1>8. CASE UNCHANGED editDialogVars
  BY <1>8, DialogStutter
<1> QED BY <1>1, <1>2, <1>3, <1>4, <1>5, <1>6, <1>7, <1>8 DEF EditDialogNext

\* It holds when the page opens.
LEMMA DialogStarts == EditDialogInit => DialogInv
<1> SUFFICES ASSUME EditDialogInit PROVE DialogInv
  OBVIOUS
<1>1. /\ form \in Forms /\ listed = entry /\ touched = {} /\ submits = {} /\ edits = 0 /\ created = 0
      /\ subject \in IF form = "workspace" THEN on ELSE {"none"}
      /\ seen = IF form = "workspace" THEN listed[subject] ELSE Blank0
      /\ fields = IF form = "workspace" THEN WorkspaceFields(seen) ELSE Blank0
  BY DEF EditDialogInit
<1>2. on \subseteq Entries /\ (form = "request" => on = {})
  <2>1. on \in CASE form = "group" -> {Entries}
              [] form = "request" -> {{}}
              [] OTHER -> {{e} : e \in Entries}
    BY DEF EditDialogInit
  <2>2. CASE form = "group"
    BY <2>1, <2>2
  <2>3. CASE form = "request"
    BY <2>1, <2>3
  <2>4. CASE form # "group" /\ form # "request"
    BY <2>1, <2>4
  <2> QED BY <2>2, <2>3, <2>4
<1>3. entry \in [Entries -> Values]
  <2>1. \A t \in FirstTags : [name |-> 1, tag |-> t] \in Values
    BY DEF FirstTags, Values, Names, Tags
  <2> QED BY <2>1 DEF EditDialogInit
<1>4. subject \in on \cup {"new", "none"} /\ (form = "workspace" => subject \in on) /\ subject # "new"
  BY <1>1, <1>2, EntriesAre
<1>5. CASE form = "workspace"
  <2>1. PICK v \in Values : v = listed[subject]
    BY <1>1, <1>2, <1>3, <1>4, <1>5
  <2>2. seen = v /\ fields = FieldsOf(v)
    BY <1>1, <1>5, <2>1 DEF FieldsOf
  <2>3. fields \in Values /\ fields.name = v.name
    BY <2>2, ShownAs
  <2>4. EditDialogTypeOK
    BY <1>1, <1>2, <1>3, <1>4, <2>2, <2>3, ValuesAre, EntriesAre DEF EditDialogTypeOK
  <2>5. Filled
    BY <2>1, <2>2, <2>3 DEF Filled
  <2> QED BY <1>1, <1>2, <1>4, <1>5, <2>4, <2>5 DEF DialogInv, Opened, SubmitsFit, OneWatched
<1>6. CASE form # "workspace"
  <2>1. subject = "none" /\ seen = Blank0 /\ fields = Blank0 /\ "none" \notin on
    BY <1>1, <1>2, <1>6, EntriesAre
  <2>2. EditDialogTypeOK
    BY <1>1, <1>2, <1>3, <1>4, <2>1, ValuesAre, EntriesAre DEF EditDialogTypeOK
  <2> QED BY <1>1, <1>2, <1>6, <2>1, <2>2 DEF DialogInv, Opened, Filled, SubmitsFit, OneWatched
<1> QED BY <1>5, <1>6

\* A save changes what was typed, what is no longer as it was, or what the form shows otherwise.
LEMMA UntouchedStep ==
  ASSUME DialogInv, [EditDialogNext]_editDialogVars, NEW e \in on, NEW f \in {"name", "tag"},
         entry'[e][f] # entry[e][f], edits' = edits
  PROVE  \E c \in submits :
           /\ c.of = e /\ c.pc = "sent"
           /\ \/ f \in c.touched \/ c.seen[f] # entry[e][f]
              \/ f = "tag" /\ FieldsOf(c.seen).tag # c.seen.tag
<1>1. PICK c \in submits : Serve(c)
  <2>1. entry' # entry
    OBVIOUS
  <2>2. OtherAdmin => edits' = edits + 1 /\ edits \in Nat
    BY EntriesAre DEF OtherAdmin, DialogInv, EditDialogTypeOK
  <2>3. ~OtherAdmin
    BY <2>2
  <2>4. ~(Types \/ OpenDialog \/ OpenNew \/ Close \/ Submit \/ Refetched)
    BY <2>1 DEF Types, TypeName, ChooseTag, OpenDialog, OpenNew, Close, Submit, Refetched
  <2>5. \A c \in submits : ~AnswerDialog(c) /\ ~AnswerForm(c) /\ ~FailSubmit(c)
    BY <2>1 DEF AnswerDialog, AnswerForm, FailSubmit
  <2> QED BY <2>1, <2>3, <2>4, <2>5 DEF EditDialogNext, editDialogVars
<1>2. c.pc = "sent" /\ c.of # "new" /\ entry' = [entry EXCEPT ![c.of] = Applied(@, c.values)]
  BY <1>1 DEF Serve
<1>3. entry \in [Entries -> Values] /\ c \in Submission /\ SubmitFits(c) /\ on \subseteq Entries
  BY DEF DialogInv, EditDialogTypeOK, SubmitsFit
<1>4. c.of = e /\ entry'[e] = Applied(entry[e], c.values)
  BY <1>2, <1>3 DEF SubmitFits
<1>5. /\ "name" \notin c.touched => c.values.name = c.seen.name
      /\ "tag" \notin c.touched => c.values.tag = FieldsOf(c.seen).tag
  BY <1>2, <1>3 DEF SubmitFits
<1>6. /\ Applied(entry[e], c.values).name = c.values.name
      /\ Applied(entry[e], c.values).tag = entry[e].tag \/ Applied(entry[e], c.values).tag = c.values.tag
  BY DEF Applied
<1>7. CASE f = "name"
  BY <1>2, <1>4, <1>5, <1>6, <1>7
<1>8. CASE f = "tag"
  BY <1>2, <1>4, <1>5, <1>6, <1>8
<1> QED BY <1>7, <1>8

\* A dialog closes by its user, its success, or that of a call it no longer watches.
LEMMA ClosedStep ==
  ASSUME DialogInv, [EditDialogNext]_editDialogVars, subject # "none", subject' = "none"
  PROVE  Close \/ \E c \in submits : Same(c, subject) /\ c.pc = "done" /\ (c.of = subject \/ ~c.watched)
<1>1. "none" \notin on /\ EditDialogTypeOK
  BY EntriesAre DEF DialogInv, EditDialogTypeOK
<1>2. ~OpenDialog /\ ~OpenNew
  BY DEF OpenDialog, OpenNew
<1>3. \A l : Refilled(l) => subject' = subject
  BY DEF Refilled, FilledFrom
<1>4. ~(Types \/ Submit \/ OtherAdmin \/ Refetched)
  BY <1>3 DEF Types, TypeName, ChooseTag, Submit, OtherAdmin, Refetched
<1>5. \A c \in submits : ~Serve(c) /\ ~FailSubmit(c) /\ ~AnswerForm(c)
  BY <1>3 DEF Serve, FailSubmit, AnswerForm
<1>6. ASSUME NEW c \in submits, AnswerDialog(c)
      PROVE  Same(c, subject) /\ c.pc = "done" /\ (c.of = subject \/ ~c.watched)
  <2>1. Same(c, subject) /\ c.pc = "done"
    BY <1>6 DEF AnswerDialog
  <2>2. SubmitFits(c)
    BY DEF DialogInv, SubmitsFit
  <2> QED BY <2>1, <2>2 DEF SubmitFits, Same
<1> QED BY <1>2, <1>4, <1>5, <1>6 DEF EditDialogNext, editDialogVars

\* What is typed stays, but where the form follows what the cache holds.
LEMMA TypedStep ==
  ASSUME DialogInv, [EditDialogNext]_editDialogVars, touched # {}, subject' = subject, fields' # fields
  PROVE  Types \/ (Live /\ listed' # listed)
<1>1. subject # "none"
  BY DEF DialogInv, Opened
<1>2. ASSUME NEW l, Refilled(l)
      PROVE  Live /\ listed' # listed
  <2>1. Live /\ subject \in on /\ l[subject] # seen /\ listed' = l
    BY <1>2 DEF Refilled
  <2>2. seen = listed[subject]
    BY <2>1 DEF DialogInv, Filled
  <2> QED BY <2>1, <2>2
<1>3. ~(OpenDialog \/ OpenNew \/ Submit \/ OtherAdmin)
  BY <1>1 DEF OpenDialog, OpenNew, Submit, OtherAdmin
<1>4. ~Close
  BY <1>1 DEF Close, FilledFrom
<1>5. \A c \in submits : ~Serve(c) /\ ~FailSubmit(c) /\ ~AnswerDialog(c)
  BY <1>1 DEF Serve, FailSubmit, AnswerDialog, FilledFrom
<1>6. Refetched => Live /\ listed' # listed
  BY <1>2 DEF Refetched
<1>7. \A c \in submits : AnswerForm(c) => Live /\ listed' # listed
  BY <1>2 DEF AnswerForm
<1> QED BY <1>3, <1>4, <1>5, <1>6, <1>7 DEF EditDialogNext, editDialogVars

\* In every state the types hold and a dialog watches one call, and every step keeps what was
\* not typed, closes a dialog for a cause and leaves what is typed.
THEOREM DialogsHold ==
  EditDialogSpec => [](EditDialogTypeOK /\ OneWatched) /\ UntouchedKept /\ DialogClosedForCause /\ TypedKept
<1>1. DialogInv /\ [EditDialogNext]_editDialogVars =>
        [\A e \in on, f \in {"name", "tag"} :
           entry'[e][f] # entry[e][f] /\ edits' = edits =>
             \E c \in submits :
               /\ c.of = e /\ c.pc = "sent"
               /\ \/ f \in c.touched \/ c.seen[f] # entry[e][f]
                  \/ f = "tag" /\ FieldsOf(c.seen).tag # c.seen.tag]_editDialogVars
  BY UntouchedStep
<1>2. DialogInv /\ [EditDialogNext]_editDialogVars =>
        [subject # "none" /\ subject' = "none" =>
           Close \/ \E c \in submits : Same(c, subject) /\ c.pc = "done" /\ (c.of = subject \/ ~c.watched)]_editDialogVars
  BY ClosedStep
<1>3. DialogInv /\ [EditDialogNext]_editDialogVars =>
        [touched # {} /\ subject' = subject /\ fields' # fields => Types \/ (Live /\ listed' # listed)]_editDialogVars
  BY TypedStep
<1>4. DialogInv => EditDialogTypeOK /\ OneWatched
  BY DEF DialogInv
<1> QED BY <1>1, <1>2, <1>3, <1>4, DialogStarts, DialogSteps, PTL
     DEF EditDialogSpec, UntouchedKept, DialogClosedForCause, TypedKept
-----------------------------------------------------------------------------
(* AddDatabase: which string a user and a password are of, and which calls are watched *)

\* The user is of the last string that names one, the password of the last that has one
ImportsFit ==
  /\ draft.user \in 0..Len(imported) \cup {Typed} /\ draft.password \in 0..Len(imported) \cup {Typed}
  /\ draft.user \in 1..Len(imported) =>
       /\ imported[draft.user].has # "nobody"
       /\ \A i \in 1..Len(imported) : draft.user < i => imported[i].has = "nobody"
  /\ draft.password \in 1..Len(imported) =>
       /\ imported[draft.password].has = "both"
       /\ \A i \in 1..Len(imported) : draft.password < i => imported[i].has # "both"

\* One call is watched, and what was made is over for the tab or the watched call has made it
CallsTold ==
  /\ \A c, d \in attempts : c.watched /\ d.watched => c = d
  /\ \A c \in attempts : ~c.watched => c.title \in over
  /\ \A t \in mine : t \in over \/ \E c \in attempts : c.watched /\ c.title = t /\ c.pc = "made"

\* What every step keeps; the timer that would hide the notice is never left running
AddInv == AddTypeOK /\ ImportsFit /\ PortFits /\ CallsTold /\ timer = FALSE

LEMMA BoundsAre == MaxImports \in Nat /\ MaxAttempts \in Nat /\ Typed = MaxImports + 1 /\ Typed \notin 1..MaxImports
BY AddAssumption DEF Typed

\* An empty form names no string.
LEMMA EmptyIs ==
  /\ EmptyDraft \in Draft /\ EmptyDraft.user = 0 /\ EmptyDraft.password = 0
  /\ EmptyDraft.port = EmptyDraft.type /\ "own" \notin Adapters
<1>1. PICK b \in BOOLEAN : b = FALSE
  OBVIOUS
<1>2. PICK e : e = [title |-> NoTitle, type |-> "postgres", port |-> "postgres", user |-> 0, password |-> 0, rest |-> b]
  OBVIOUS
<1>3. 0 \in Sources /\ NoTitle \in Titles \cup {NoTitle}
  BY BoundsAre DEF Sources
<1>4. "postgres" \in Adapters /\ "own" \notin Adapters
  BY DEF Adapters
<1>5. e \in Draft /\ e.user = 0 /\ e.password = 0 /\ e.port = e.type
  BY <1>2, <1>3, <1>4 DEF Draft
<1>6. e = EmptyDraft
  BY <1>1, <1>2 DEF EmptyDraft
<1> QED BY <1>4, <1>5, <1>6

\* The form is as it was, or empty with no string imported.
LEMMA FormKept ==
  ASSUME AddInv, \/ draft' = draft /\ imported' = imported
                 \/ draft' = EmptyDraft /\ imported' = <<>>
  PROVE  /\ draft' \in Draft /\ imported' \in Seq(ConnectionStrings) /\ Len(imported') <= MaxImports
         /\ ImportsFit' /\ PortFits'
<1>1. CASE draft' = draft /\ imported' = imported
  BY <1>1 DEF AddInv, AddTypeOK, ImportsFit, PortFits
<1>2. CASE draft' = EmptyDraft /\ imported' = <<>>
  <2>1. /\ draft' \in Draft /\ draft'.user = 0 /\ draft'.password = 0 /\ draft'.port = draft'.type
        /\ Len(imported') = 0 /\ imported' \in Seq(ConnectionStrings)
    BY <1>2, EmptyIs
  <2> QED BY <1>2, <2>1, BoundsAre DEF ImportsFit, PortFits
<1> QED BY <1>1, <1>2

\* The calls are as they were.
LEMMA CallsKept ==
  ASSUME AddInv, UNCHANGED <<attempts, tries, failure, named, mine, over>>
  PROVE  /\ CallsTold' /\ attempts' \subseteq Attempt /\ tries' \in 0..MaxAttempts
         /\ mine' \subseteq named' /\ named' \subseteq Titles /\ over' \subseteq Titles
         /\ failure' \in {"none", "exists", "refused", "lost"}
BY DEF AddInv, AddTypeOK, CallsTold

\* A field is typed in or chosen.
LEMMA EditedStep ==
  ASSUME AddInv, NEW d \in Draft, Edited(d),
         d.user = draft.user \/ d.user = Typed, d.password = draft.password \/ d.password = Typed,
         \/ d.port = draft.port /\ d.type = draft.type
         \/ d.port \notin Adapters \ {d.type}
  PROVE  AddInv'
<1>1. /\ draft' = d
      /\ UNCHANGED <<where, imported, attempts, tries, failure, named, mine, flagged, notice, timer, over>>
  BY DEF Edited
<1>2. /\ CallsTold' /\ attempts' \subseteq Attempt /\ tries' \in 0..MaxAttempts
      /\ mine' \subseteq named' /\ named' \subseteq Titles /\ over' \subseteq Titles
      /\ failure' \in {"none", "exists", "refused", "lost"}
  BY <1>1, CallsKept
<1>3. AddTypeOK'
  BY <1>1, <1>2 DEF AddInv, AddTypeOK
<1>4. ImportsFit'
  <2>1. Len(imported) \in Nat /\ Len(imported) <= MaxImports
    BY DEF AddInv, AddTypeOK
  <2>2. Typed \notin 1..Len(imported)
    BY <2>1, BoundsAre
  <2> QED BY <1>1, <2>2 DEF AddInv, ImportsFit
<1>5. PortFits'
  BY <1>1 DEF AddInv, PortFits
<1> QED BY <1>1, <1>2, <1>3, <1>4, <1>5 DEF AddInv

LEMMA TypeFieldStep ==
  ASSUME AddInv, TypeField \/ ChooseType \/ ChooseTunnel
  PROVE  AddInv'
<1>1. draft \in Draft /\ Typed \in Sources /\ "own" \notin Adapters
  BY BoundsAre DEF AddInv, AddTypeOK, Sources, Adapters
<1>2. CASE TypeField
  <2>1. ASSUME NEW t \in Titles, Edited([draft EXCEPT !.title = t]) PROVE AddInv'
    <3>1. PICK d : d = [draft EXCEPT !.title = t]
      OBVIOUS
    <3>2. d \in Draft /\ d.user = draft.user /\ d.password = draft.password /\ d.port = draft.port /\ d.type = draft.type
      BY <1>1, <3>1 DEF Draft
    <3>3. Edited(d)
      BY <2>1, <3>1
    <3> QED BY <3>2, <3>3, EditedStep
  <2>2. ASSUME Edited([draft EXCEPT !.user = Typed]) PROVE AddInv'
    <3>1. PICK d : d = [draft EXCEPT !.user = Typed]
      OBVIOUS
    <3>2. d \in Draft /\ d.user = Typed /\ d.password = draft.password /\ d.port = draft.port /\ d.type = draft.type
      BY <1>1, <3>1 DEF Draft
    <3>3. Edited(d)
      BY <2>2, <3>1
    <3> QED BY <3>2, <3>3, EditedStep
  <2>3. ASSUME Edited([draft EXCEPT !.password = Typed]) PROVE AddInv'
    <3>1. PICK d : d = [draft EXCEPT !.password = Typed]
      OBVIOUS
    <3>2. d \in Draft /\ d.user = draft.user /\ d.password = Typed /\ d.port = draft.port /\ d.type = draft.type
      BY <1>1, <3>1 DEF Draft
    <3>3. Edited(d)
      BY <2>3, <3>1
    <3> QED BY <3>2, <3>3, EditedStep
  <2>4. ASSUME Edited([draft EXCEPT !.port = "own"]) PROVE AddInv'
    <3>1. PICK d : d = [draft EXCEPT !.port = "own"]
      OBVIOUS
    <3>2. d \in Draft /\ d.user = draft.user /\ d.password = draft.password /\ d.port = "own"
      BY <1>1, <3>1 DEF Draft
    <3>3. Edited(d)
      BY <2>4, <3>1
    <3> QED BY <1>1, <3>2, <3>3, EditedStep
  <2>5. ASSUME Edited([draft EXCEPT !.rest = TRUE]) PROVE AddInv'
    <3>1. PICK b \in BOOLEAN : b = TRUE
      OBVIOUS
    <3>2. PICK d : d = [draft EXCEPT !.rest = b]
      OBVIOUS
    <3>3. d \in Draft /\ d.user = draft.user /\ d.password = draft.password /\ d.port = draft.port /\ d.type = draft.type
      BY <1>1, <3>2 DEF Draft
    <3>4. Edited(d)
      BY <2>5, <3>1, <3>2
    <3> QED BY <3>3, <3>4, EditedStep
  <2> QED BY <1>2, <2>1, <2>2, <2>3, <2>4, <2>5 DEF TypeField
<1>3. CASE ChooseType
  <2>1. PICK t \in Adapters : Edited([draft EXCEPT !.type = t, !.port = t, !.rest = @ /\ t = "postgres"])
    BY <1>3 DEF ChooseType
  <2>2. PICK b \in BOOLEAN : b = (draft.rest /\ t = "postgres")
    OBVIOUS
  <2>3. PICK d : d = [draft EXCEPT !.type = t, !.port = t, !.rest = b]
    OBVIOUS
  <2>4. d \in Draft /\ d.user = draft.user /\ d.password = draft.password /\ d.port = t /\ d.type = t
    BY <1>1, <2>3 DEF Draft
  <2>5. Edited(d)
    BY <2>1, <2>2, <2>3
  <2> QED BY <2>4, <2>5, EditedStep
<1>4. CASE ChooseTunnel
  <2>1. PICK b \in BOOLEAN : b = FALSE
    OBVIOUS
  <2>2. PICK d : d = [draft EXCEPT !.rest = b]
    OBVIOUS
  <2>3. d \in Draft /\ d.user = draft.user /\ d.password = draft.password /\ d.port = draft.port /\ d.type = draft.type
    BY <1>1, <2>2 DEF Draft
  <2>4. Edited(d)
    BY <1>4, <2>1, <2>2 DEF ChooseTunnel
  <2> QED BY <2>3, <2>4, EditedStep
<1> QED BY <1>2, <1>3, <1>4

\* A string is imported: the user and the password are of the last that has one.
LEMMA ImportStep ==
  ASSUME AddInv, ImportString
  PROVE  AddInv'
<1>0. PICK s \in ConnectionStrings, r \in {draft.rest, TRUE} :
        \E n \in {"own", s.protocol} :
          /\ imported' = Append(imported, s)
          /\ draft' = [draft EXCEPT !.port = n, !.rest = r,
                         !.user = IF s.has = "nobody" THEN @ ELSE Len(imported'),
                         !.password = IF s.has = "both" THEN Len(imported') ELSE @]
  BY DEF ImportString
<1>1. PICK n \in {"own", s.protocol} :
        /\ Len(imported) < MaxImports /\ imported' = Append(imported, s)
        /\ draft' = [draft EXCEPT !.port = n, !.rest = r,
                       !.user = IF s.has = "nobody" THEN @ ELSE Len(imported'),
                       !.password = IF s.has = "both" THEN Len(imported') ELSE @]
        /\ UNCHANGED <<where, attempts, tries, failure, named, mine, flagged, notice, timer, over>>
  BY <1>0 DEF ImportString
<1>2. /\ imported \in Seq(ConnectionStrings) /\ draft \in Draft /\ s \in ConnectionStrings
      /\ "own" \notin Adapters /\ draft.rest \in BOOLEAN
  BY DEF AddInv, AddTypeOK, Adapters, Draft
<1>3. PICK k \in Nat : k = Len(imported)
  BY <1>2
<1>4. PICK l : l = k + 1
  OBVIOUS
<1>5. /\ imported' \in Seq(ConnectionStrings) /\ Len(imported') = l /\ imported'[l] = s
      /\ \A i \in 1..k : imported'[i] = imported[i]
  BY <1>1, <1>2, <1>3, <1>4
<1>6. l \in 1..MaxImports /\ l \in Sources /\ k < l
  BY <1>1, <1>3, <1>4, BoundsAre DEF Sources
<1>7. PICK u : u = IF s.has = "nobody" THEN draft.user ELSE l
  OBVIOUS
<1>8. PICK p : p = IF s.has = "both" THEN l ELSE draft.password
  OBVIOUS
<1>9. PICK d : d = [draft EXCEPT !.port = n, !.rest = r, !.user = u, !.password = p]
  OBVIOUS
<1>10. n \in Adapters \cup {"own"} /\ (n \in Adapters => n = s.protocol) /\ r \in BOOLEAN
  BY <1>1, <1>2 DEF ConnectionStrings
<1>11. u \in Sources /\ p \in Sources
  BY <1>2, <1>6, <1>7, <1>8 DEF Draft
<1>12. d \in Draft /\ d.user = u /\ d.password = p /\ d.port = n
  BY <1>2, <1>9, <1>10, <1>11 DEF Draft
<1>13. draft' = d
  BY <1>1, <1>5, <1>7, <1>8, <1>9
<1>14. ImportsFit'
  <2>1. Typed \notin 1..l
    BY <1>6, BoundsAre
  <2>2. /\ draft.user \in 0..k \cup {Typed} /\ draft.password \in 0..k \cup {Typed}
        /\ draft.user \in 1..k =>
             imported[draft.user].has # "nobody" /\ \A i \in 1..k : draft.user < i => imported[i].has = "nobody"
        /\ draft.password \in 1..k =>
             imported[draft.password].has = "both" /\ \A i \in 1..k : draft.password < i => imported[i].has # "both"
    BY <1>3 DEF AddInv, ImportsFit
  <2>3. 1..l = 1..k \cup {l} /\ 0..l = 0..k \cup {l}
    BY <1>4
  <2>4. u \in 0..l \cup {Typed} /\ p \in 0..l \cup {Typed}
    BY <1>7, <1>8, <2>2, <2>3
  <2>5. u \in 1..l => imported'[u].has # "nobody" /\ \A i \in 1..l : u < i => imported'[i].has = "nobody"
    <3>1. CASE s.has = "nobody"
      <4>1. u = draft.user
        BY <1>7, <3>1
      <4>2. u \in 1..l => u \in 1..k
        BY <1>3, <1>4, <2>1, <2>2, <4>1
      <4>3. SUFFICES ASSUME u \in 1..k
                     PROVE  imported'[u].has # "nobody" /\ \A i \in 1..l : u < i => imported'[i].has = "nobody"
        BY <4>2
      <4> QED BY <1>5, <2>2, <2>3, <3>1, <4>1, <4>3
    <3>2. CASE s.has # "nobody"
      <4>1. u = l /\ \A i \in 1..l : ~(u < i)
        BY <1>4, <1>7, <3>2
      <4> QED BY <1>5, <3>2, <4>1
    <3> QED BY <3>1, <3>2
  <2>6. p \in 1..l => imported'[p].has = "both" /\ \A i \in 1..l : p < i => imported'[i].has # "both"
    <3>1. CASE s.has # "both"
      <4>1. p = draft.password
        BY <1>8, <3>1
      <4>2. p \in 1..l => p \in 1..k
        BY <1>3, <1>4, <2>1, <2>2, <4>1
      <4>3. SUFFICES ASSUME p \in 1..k
                     PROVE  imported'[p].has = "both" /\ \A i \in 1..l : p < i => imported'[i].has # "both"
        BY <4>2
      <4> QED BY <1>5, <2>2, <2>3, <3>1, <4>1, <4>3
    <3>2. CASE s.has = "both"
      <4>1. p = l /\ \A i \in 1..l : ~(p < i)
        BY <1>4, <1>8, <3>2
      <4> QED BY <1>5, <3>2, <4>1
    <3> QED BY <3>1, <3>2
  <2> QED BY <1>5, <1>12, <1>13, <2>4, <2>5, <2>6 DEF ImportsFit
<1>15. PortFits'
  <2>1. imported' # <<>>
    BY <1>3, <1>4, <1>5
  <2> QED BY <1>5, <1>10, <1>12, <1>13, <2>1 DEF PortFits
<1>16. /\ CallsTold' /\ attempts' \subseteq Attempt /\ tries' \in 0..MaxAttempts
       /\ mine' \subseteq named' /\ named' \subseteq Titles /\ over' \subseteq Titles
       /\ failure' \in {"none", "exists", "refused", "lost"}
  BY <1>1, CallsKept
<1>17. AddTypeOK'
  BY <1>1, <1>5, <1>6, <1>12, <1>13, <1>16 DEF AddInv, AddTypeOK
<1> QED BY <1>1, <1>14, <1>15, <1>16, <1>17 DEF AddInv

\* The API goes on with a call.
LEMMA ProceedsFit ==
  ASSUME AddInv, NEW c \in attempts, c.pc \in {"sent", "trying"},
         NEW pc \in {"trying", "made", "exists", "refused"}, Proceeds(c, pc), over' = over,
         mine' = mine \/ (pc = "made" /\ mine' = mine \cup {c.title})
  PROVE  CallsTold' /\ attempts' \subseteq Attempt
<1>1. PICK n : n = [c EXCEPT !.pc = pc]
  OBVIOUS
<1>2. c \in Attempt /\ attempts' = (attempts \ {c}) \cup {n}
  BY <1>1 DEF AddInv, AddTypeOK, Proceeds
<1>3. n \in Attempt /\ n.title = c.title /\ n.watched = c.watched /\ n.pc = pc
  BY <1>1, <1>2 DEF Attempt
<1>4. attempts' \subseteq Attempt
  BY <1>2, <1>3 DEF AddInv, AddTypeOK
<1>5. \A d, e \in attempts' : d.watched /\ e.watched => d = e
  BY <1>2, <1>3 DEF AddInv, CallsTold
<1>6. \A d \in attempts' : ~d.watched => d.title \in over'
  BY <1>2, <1>3 DEF AddInv, CallsTold
<1>7. ASSUME NEW t \in mine' PROVE t \in over' \/ \E d \in attempts' : d.watched /\ d.title = t /\ d.pc = "made"
  <2>1. CASE t \in mine
    <3>1. t \in over \/ \E d \in attempts : d.watched /\ d.title = t /\ d.pc = "made"
      BY <2>1 DEF AddInv, CallsTold
    <3>2. \A d \in attempts : d.pc = "made" => d \in attempts'
      BY <1>2
    <3> QED BY <3>1, <3>2
  <2>2. CASE t \notin mine
    <3>1. pc = "made" /\ t = c.title /\ n \in attempts'
      BY <1>2, <1>7, <2>2
    <3>2. CASE c.watched
      BY <1>3, <3>1, <3>2
    <3>3. CASE ~c.watched
      BY <3>1, <3>3 DEF AddInv, CallsTold
    <3> QED BY <3>2, <3>3
  <2> QED BY <2>1, <2>2
<1> QED BY <1>4, <1>5, <1>6, <1>7 DEF CallsTold

\* The name is looked for, or the database is made.
LEMMA ApiStep ==
  ASSUME AddInv, NEW c \in attempts, CheckDuplicate(c) \/ CreateDatabase(c)
  PROVE  AddInv'
<1>1. /\ UNCHANGED <<where, draft, imported, tries, failure, flagged, notice, timer, over>>
      /\ c.pc \in {"sent", "trying"}
  BY DEF CheckDuplicate, CreateDatabase
<1>2. c.title \in Titles
  BY DEF AddInv, AddTypeOK, Attempt
<1>3. PICK pc \in {"trying", "made", "exists", "refused"} :
        /\ Proceeds(c, pc)
        /\ \/ UNCHANGED <<named, mine>>
           \/ pc = "made" /\ named' = named \cup {c.title} /\ mine' = mine \cup {c.title}
  <2>1. CASE CheckDuplicate(c)
    <3>1. PICK pc \in {"trying", "refused", "exists"} : Proceeds(c, pc)
      BY <2>1 DEF CheckDuplicate
    <3> QED BY <2>1, <3>1 DEF CheckDuplicate
  <2>2. CASE CreateDatabase(c)
    BY <2>2 DEF CreateDatabase
  <2> QED BY <2>1, <2>2
<1>4. CallsTold' /\ attempts' \subseteq Attempt
  BY <1>1, <1>3, ProceedsFit
<1>5. /\ draft' \in Draft /\ imported' \in Seq(ConnectionStrings) /\ Len(imported') <= MaxImports
      /\ ImportsFit' /\ PortFits'
  BY <1>1, FormKept
<1>6. mine' \subseteq named' /\ named' \subseteq Titles
  BY <1>2, <1>3 DEF AddInv, AddTypeOK
<1>7. AddTypeOK'
  BY <1>1, <1>4, <1>5, <1>6 DEF AddInv, AddTypeOK
<1> QED BY <1>1, <1>4, <1>5, <1>7 DEF AddInv

\* What is shown is sent, if no call is waited for.
LEMMA SubmitDatabaseStep ==
  ASSUME AddInv, SubmitDatabase
  PROVE  AddInv'
<1>1. /\ UNCHANGED <<where, draft, imported, named, mine, flagged, notice, timer, over>>
      /\ draft.title # NoTitle /\ ~IsPending /\ tries < MaxAttempts /\ tries' = tries + 1 /\ failure' = "none"
      /\ attempts' = attempts \cup {[title |-> draft.title, watched |-> TRUE, pc |-> "sent"]}
  BY DEF SubmitDatabase, Complete
<1>2. PICK b \in BOOLEAN : b = TRUE
  OBVIOUS
<1>3. PICK n : n = [title |-> draft.title, watched |-> b, pc |-> "sent"]
  OBVIOUS
<1>4. draft.title \in Titles
  BY <1>1 DEF AddInv, AddTypeOK, Draft
<1>5. n \in Attempt /\ n.watched = b
  BY <1>3, <1>4 DEF Attempt
<1>6. attempts' = attempts \cup {n}
  BY <1>1, <1>2, <1>3
<1>7. \A c \in attempts : ~c.watched
  BY <1>1 DEF IsPending
<1>8. CallsTold'
  BY <1>1, <1>2, <1>5, <1>6, <1>7 DEF AddInv, CallsTold
<1>9. tries' \in 0..MaxAttempts
  <2>1. tries \in Nat
    BY BoundsAre DEF AddInv, AddTypeOK
  <2> QED BY <1>1, <2>1, BoundsAre
<1>10. attempts' \subseteq Attempt
  BY <1>5, <1>6 DEF AddInv, AddTypeOK
<1>11. /\ draft' \in Draft /\ imported' \in Seq(ConnectionStrings) /\ Len(imported') <= MaxImports
       /\ ImportsFit' /\ PortFits'
  BY <1>1, FormKept
<1>12. AddTypeOK'
  BY <1>1, <1>9, <1>10, <1>11 DEF AddInv, AddTypeOK
<1> QED BY <1>1, <1>8, <1>11, <1>12 DEF AddInv

\* The calls of a page that is left are of names that are over for it.
LEMMA UnwatchedFit ==
  ASSUME AddInv, NEW cs \in SUBSET attempts, attempts' = Unwatched(cs), mine' = mine,
         over' = over \cup {d.title : d \in attempts}
  PROVE  CallsTold' /\ attempts' \subseteq Attempt /\ over' \subseteq Titles
<1>1. ASSUME NEW w \in attempts'
      PROVE  w \in Attempt /\ w.watched = FALSE /\ w.title \in over'
  <2>1. PICK c \in cs : w = [c EXCEPT !.watched = FALSE]
    BY DEF Unwatched
  <2>2. PICK b \in BOOLEAN : b = FALSE
    OBVIOUS
  <2>3. c \in Attempt /\ c.title \in over' /\ w = [c EXCEPT !.watched = b]
    BY <2>1, <2>2 DEF AddInv, AddTypeOK
  <2>4. w \in Attempt /\ w.watched = b /\ w.title = c.title
    BY <2>3 DEF Attempt
  <2> QED BY <2>2, <2>3, <2>4
<1>2. \A d \in attempts : d.title \in Titles
  BY DEF AddInv, AddTypeOK, Attempt
<1>3. over' \subseteq Titles
  BY <1>2 DEF AddInv, AddTypeOK
<1>4. \A t \in mine' : t \in over'
  BY DEF AddInv, CallsTold
<1>5. \A d \in attempts' : d.watched = FALSE /\ d.title \in over'
  BY <1>1
<1>6. CallsTold'
  BY <1>4, <1>5 DEF CallsTold
<1> QED BY <1>1, <1>3, <1>6

\* The page of what was made opens, or the user follows a link.
LEMMA LeaveStep ==
  ASSUME AddInv, FollowLink \/ \E c \in attempts : AnswerCreated(c)
  PROVE  AddInv'
<1>1. PICK pg \in {"form", "elsewhere"} \cup DatabasePages, cs \in SUBSET attempts :
        /\ Opens(pg) /\ attempts' = Unwatched(cs)
        /\ over' = over \cup {d.title : d \in attempts}
        /\ flagged' \in BOOLEAN /\ failure' = "none"
        /\ UNCHANGED <<tries, named, mine>>
  <2>1. CASE FollowLink
    <3>1. PICK pg \in {"form", "elsewhere", "older"} \cup named : Opens(pg)
      BY <2>1 DEF FollowLink
    <3>2. pg \in {"form", "elsewhere"} \cup DatabasePages
      BY <3>1 DEF AddInv, AddTypeOK, DatabasePages
    <3>3. PICK b \in BOOLEAN : b = FALSE
      OBVIOUS
    <3>4. flagged' = b
      BY <2>1, <3>3 DEF FollowLink
    <3>5. PICK cs \in SUBSET attempts : cs = attempts
      OBVIOUS
    <3> QED BY <2>1, <3>1, <3>2, <3>4, <3>5 DEF FollowLink
  <2>2. ASSUME NEW c \in attempts, AnswerCreated(c)
        PROVE  \E pg \in {"form", "elsewhere"} \cup DatabasePages, cs \in SUBSET attempts :
                 /\ Opens(pg) /\ attempts' = Unwatched(cs)
                 /\ over' = over \cup {d.title : d \in attempts}
                 /\ flagged' \in BOOLEAN /\ failure' = "none"
                 /\ UNCHANGED <<tries, named, mine>>
    <3>1. c.title \in {"form", "elsewhere"} \cup DatabasePages
      BY DEF AddInv, AddTypeOK, Attempt, DatabasePages
    <3>2. PICK cs \in SUBSET attempts : cs = attempts \ {c}
      OBVIOUS
    <3>3. PICK b \in BOOLEAN : b = TRUE
      OBVIOUS
    <3>4. flagged' = b
      BY <2>2, <3>3 DEF AnswerCreated
    <3> QED BY <2>2, <3>1, <3>2, <3>4 DEF AnswerCreated
  <2> QED BY <2>1, <2>2
<1>2. CallsTold' /\ attempts' \subseteq Attempt /\ over' \subseteq Titles
  BY <1>1, UnwatchedFit
<1>3. where' = pg /\ draft' = EmptyDraft /\ imported' = <<>>
  BY <1>1 DEF Opens
<1>4. timer' = FALSE /\ notice' \in BOOLEAN
  <2>1. CASE {where, pg} \subseteq DatabasePages
    BY <1>1, <2>1 DEF Opens, AddInv, AddTypeOK
  <2>2. CASE ~({where, pg} \subseteq DatabasePages)
    <3>1. PICK b \in BOOLEAN : b = FALSE
      OBVIOUS
    <3>2. notice' = b /\ timer' = FALSE
      BY <1>1, <2>2, <3>1 DEF Opens
    <3> QED BY <3>2
  <2> QED BY <2>1, <2>2
<1>5. /\ draft' \in Draft /\ imported' \in Seq(ConnectionStrings) /\ Len(imported') <= MaxImports
      /\ ImportsFit' /\ PortFits'
  BY <1>3, FormKept
<1>6. timer' \in BOOLEAN
  BY <1>4
<1>7. AddTypeOK'
  BY <1>1, <1>2, <1>3, <1>4, <1>5, <1>6 DEF AddInv, AddTypeOK
<1> QED BY <1>2, <1>4, <1>5, <1>7 DEF AddInv

\* A call is refused.
LEMMA RefusedStep ==
  ASSUME AddInv, NEW c \in attempts, AnswerRefused(c)
  PROVE  AddInv'
<1>1. /\ UNCHANGED <<where, draft, imported, tries, named, mine, flagged, notice, timer>>
      /\ c.pc \in {"exists", "refused"} /\ attempts' = attempts \ {c} /\ over' = over \cup {c.title}
  BY DEF AnswerRefused
<1>2. failure' \in {"none", "exists", "refused", "lost"}
  BY <1>1 DEF AnswerRefused, AddInv, AddTypeOK
<1>3. c.title \in Titles
  BY DEF AddInv, AddTypeOK, Attempt
<1>4. CallsTold'
  <2>1. \A d, e \in attempts' : d.watched /\ e.watched => d = e
    BY <1>1 DEF AddInv, CallsTold
  <2>2. \A d \in attempts' : ~d.watched => d.title \in over'
    BY <1>1 DEF AddInv, CallsTold
  <2>3. ASSUME NEW t \in mine' PROVE t \in over' \/ \E d \in attempts' : d.watched /\ d.title = t /\ d.pc = "made"
    <3>1. t \in over \/ \E d \in attempts : d.watched /\ d.title = t /\ d.pc = "made"
      BY <1>1 DEF AddInv, CallsTold
    <3>2. \A d \in attempts : d.pc = "made" => d \in attempts'
      BY <1>1
    <3> QED BY <1>1, <3>1, <3>2
  <2> QED BY <2>1, <2>2, <2>3 DEF CallsTold
<1>5. /\ draft' \in Draft /\ imported' \in Seq(ConnectionStrings) /\ Len(imported') <= MaxImports
      /\ ImportsFit' /\ PortFits'
  BY <1>1, FormKept
<1>6. AddTypeOK'
  BY <1>1, <1>2, <1>3, <1>5 DEF AddInv, AddTypeOK
<1> QED BY <1>1, <1>4, <1>5, <1>6 DEF AddInv

\* The answer is lost; the call may go on unheard.
LEMMA LoseStep ==
  ASSUME AddInv, NEW c \in attempts, LoseAnswer(c)
  PROVE  AddInv'
<1>1. /\ UNCHANGED <<where, draft, imported, tries, named, mine, flagged, notice, timer>>
      /\ over' = over \cup {c.title} /\ failure' = "lost"
  BY DEF LoseAnswer
<1>2. PICK b \in BOOLEAN : b = FALSE
  OBVIOUS
<1>3. PICK n : n = [c EXCEPT !.watched = b]
  OBVIOUS
<1>4. c \in Attempt
  BY DEF AddInv, AddTypeOK
<1>5. n \in Attempt /\ n.title = c.title /\ n.watched = b
  BY <1>3, <1>4 DEF Attempt
<1>6. attempts' = attempts \ {c} \/ attempts' = (attempts \ {c}) \cup {n}
  BY <1>2, <1>3 DEF LoseAnswer
<1>7. c.title \in Titles /\ attempts' \subseteq Attempt
  BY <1>4, <1>5, <1>6 DEF AddInv, AddTypeOK, Attempt
<1>8. CallsTold'
  <2>1. \A d, e \in attempts' : d.watched /\ e.watched => d = e
    BY <1>2, <1>5, <1>6 DEF AddInv, CallsTold
  <2>2. \A d \in attempts' : ~d.watched => d.title \in over'
    BY <1>1, <1>5, <1>6 DEF AddInv, CallsTold
  <2>3. ASSUME NEW t \in mine' PROVE t \in over' \/ \E d \in attempts' : d.watched /\ d.title = t /\ d.pc = "made"
    <3>1. t \in over \/ \E d \in attempts : d.watched /\ d.title = t /\ d.pc = "made"
      BY <1>1 DEF AddInv, CallsTold
    <3>2. \A d \in attempts : d # c => d \in attempts'
      BY <1>6
    <3> QED BY <1>1, <3>1, <3>2
  <2> QED BY <2>1, <2>2, <2>3 DEF CallsTold
<1>9. /\ draft' \in Draft /\ imported' \in Seq(ConnectionStrings) /\ Len(imported') <= MaxImports
      /\ ImportsFit' /\ PortFits'
  BY <1>1, FormKept
<1>10. AddTypeOK'
  BY <1>1, <1>7, <1>9 DEF AddInv, AddTypeOK
<1> QED BY <1>1, <1>8, <1>9, <1>10 DEF AddInv

\* The notice is shown; nothing hides it, and a step that changes nothing keeps all.
LEMMA NoticeStep ==
  ASSUME AddInv, ShowNotice \/ UNCHANGED addVars
  PROVE  AddInv'
<1>1. UNCHANGED <<where, draft, imported, attempts, tries, failure, named, mine, over>>
  BY DEF ShowNotice, addVars
<1>2. {notice', flagged'} \subseteq BOOLEAN /\ timer' = FALSE
  <2>1. CASE ShowNotice
    <3>1. PICK b \in BOOLEAN : b = TRUE
      OBVIOUS
    <3>2. PICK e \in BOOLEAN : e = FALSE
      OBVIOUS
    <3>3. notice' = b /\ flagged' = e /\ timer' = e
      BY <2>1, <3>1, <3>2 DEF ShowNotice
    <3> QED BY <3>2, <3>3
  <2>2. CASE UNCHANGED addVars
    BY <2>2 DEF addVars, AddInv, AddTypeOK
  <2> QED BY <2>1, <2>2
<1>3. timer' \in BOOLEAN
  BY <1>2
<1>4. /\ CallsTold' /\ attempts' \subseteq Attempt /\ tries' \in 0..MaxAttempts
      /\ mine' \subseteq named' /\ named' \subseteq Titles /\ over' \subseteq Titles
      /\ failure' \in {"none", "exists", "refused", "lost"}
  BY <1>1, CallsKept
<1>5. /\ draft' \in Draft /\ imported' \in Seq(ConnectionStrings) /\ Len(imported') <= MaxImports
      /\ ImportsFit' /\ PortFits'
  BY <1>1, FormKept
<1>6. AddTypeOK'
  BY <1>1, <1>2, <1>3, <1>4, <1>5 DEF AddInv, AddTypeOK
<1> QED BY <1>2, <1>4, <1>5, <1>6 DEF AddInv

\* Every step of the page that adds a database keeps what holds of it.
LEMMA AddSteps == AddInv /\ [AddNext]_addVars => AddInv'
<1> SUFFICES ASSUME AddInv, [AddNext]_addVars
             PROVE  AddInv'
  OBVIOUS
<1>1. CASE TypeField \/ ChooseType \/ ChooseTunnel
  BY <1>1, TypeFieldStep
<1>2. CASE ImportString
  BY <1>2, ImportStep
<1>3. CASE SubmitDatabase
  BY <1>3, SubmitDatabaseStep
<1>4. ASSUME NEW c \in attempts,
             CheckDuplicate(c) \/ CreateDatabase(c) \/ AnswerCreated(c) \/ AnswerRefused(c) \/ LoseAnswer(c)
      PROVE  AddInv'
  <2>1. CASE CheckDuplicate(c) \/ CreateDatabase(c)
    BY <2>1, ApiStep
  <2>2. CASE AnswerCreated(c)
    BY <2>2, LeaveStep
  <2>3. CASE AnswerRefused(c)
    BY <2>3, RefusedStep
  <2>4. CASE LoseAnswer(c)
    BY <2>4, LoseStep
  <2> QED BY <1>4, <2>1, <2>2, <2>3, <2>4
<1>5. CASE FollowLink
  BY <1>5, LeaveStep
<1>6. CASE ShowNotice \/ UNCHANGED addVars
  BY <1>6, NoticeStep
<1>7. ~HideNotice
  BY DEF HideNotice, AddInv
<1> QED BY <1>1, <1>2, <1>3, <1>4, <1>5, <1>6, <1>7 DEF AddNext

\* It holds when the page is opened first.
LEMMA AddStarts == AddInit => AddInv
<1> SUFFICES ASSUME AddInit PROVE AddInv
  OBVIOUS
<1>1. /\ where = "form" /\ draft = EmptyDraft /\ imported = <<>> /\ attempts = {} /\ tries = 0
      /\ failure = "none" /\ named \subseteq Titles /\ mine = {} /\ over = {}
      /\ flagged = FALSE /\ notice = FALSE /\ timer = FALSE
  BY DEF AddInit
<1>2. PICK b \in BOOLEAN : b = FALSE
  OBVIOUS
<1>3. {flagged, notice, timer} \subseteq BOOLEAN
  <2>1. flagged = b /\ notice = b /\ timer = b
    BY <1>1, <1>2
  <2> QED BY <2>1
<1>4. /\ draft \in Draft /\ draft.user = 0 /\ draft.password = 0 /\ draft.port = draft.type
      /\ Len(imported) = 0 /\ imported \in Seq(ConnectionStrings)
  BY <1>1, EmptyIs
<1>5. tries \in 0..MaxAttempts /\ Len(imported) <= MaxImports
  BY <1>1, <1>4, BoundsAre
<1>6. AddTypeOK
  BY <1>1, <1>3, <1>4, <1>5 DEF AddTypeOK
<1>7. ImportsFit /\ PortFits
  BY <1>4 DEF ImportsFit, PortFits
<1> QED BY <1>1, <1>6, <1>7 DEF AddInv, CallsTold

\* A user and a password of two strings: the later names a user only.
LEMMA PairIs == AddInv => PairFits
<1> SUFFICES ASSUME AddInv, draft.user \in 1..MaxImports, draft.password \in 1..MaxImports,
                    draft.user # draft.password
             PROVE  draft.password < draft.user /\ imported[draft.user].has = "user"
  BY DEF PairFits
<1>1. draft.user \in 1..Len(imported) /\ draft.password \in 1..Len(imported) /\ Len(imported) \in Nat
  BY BoundsAre DEF AddInv, AddTypeOK, ImportsFit
<1>2. imported[draft.user].has \in {"nobody", "user", "both"}
  <2>1. imported[draft.user] \in ConnectionStrings
    BY <1>1 DEF AddInv, AddTypeOK
  <2> QED BY <2>1 DEF ConnectionStrings
<1>3. /\ imported[draft.user].has # "nobody" /\ imported[draft.password].has = "both"
      /\ draft.user < draft.password => imported[draft.password].has = "nobody"
      /\ draft.password < draft.user => imported[draft.user].has # "both"
  BY <1>1 DEF AddInv, ImportsFit
<1> QED BY <1>1, <1>2, <1>3

\* A name that this tab gave is refused only when what gave it is over.
LEMMA RefusedIs == AddInv => RefusedForCause
BY DEF AddInv, CallsTold, RefusedForCause

\* In every state a user and a password fit, a port is explained and a refusal is.
THEOREM AddHolds == AddSpec => [](AddTypeOK /\ PairFits /\ PortFits /\ RefusedForCause)
<1>1. AddInv => AddTypeOK /\ PairFits /\ PortFits /\ RefusedForCause
  BY PairIs, RefusedIs DEF AddInv
<1> QED BY <1>1, AddStarts, AddSteps, PTL DEF AddSpec
-----------------------------------------------------------------------------
(* AccessPages: what a list shows of the rows, what a call was offered for and what it made *)

\* Nobody waits who has access, and only groups have members
RowsFit(r) ==
  /\ page # "group" => "member" \notin r
  /\ "pending" \in r => r \cap {"lasting", "timed"} = {}

\* The ends of access are those others gave
EndsFit(u) == RowsFit(rows[u].has) /\ rows[u].term <= others /\ list[u].term <= others

\* A list is that of the rows, unless it is to be read again or an answer is still to say so
KnownOf(u) ==
  u \notin excused /\ ~stale /\ (\A c \in sent : c.who = u => c.answer # "done") => list[u] = rows[u]

\* The list of an account differs from what it says only where the time has run out
JudgedOf(u) == (u \in assigned) # (u \in ActiveAccess(list)) => u \in Overdue

\* A call was offered for what the list said then
CallFits(c) ==
  /\ c.id <= clicks
  /\ \A d \in sent : c.id = d.id => c = d
  /\ c.what = "grant" =>
       page = "account" /\ "lasting" \notin c.saw.has /\ ("timed" \in c.saw.has => <<c.who, c.saw.term>> \in lapsed)
  /\ c.what \in {"approve", "deny"} => "pending" \in c.saw.has
  /\ c.what = "remove" => "member" \in c.saw.has
  /\ c.what \in {"add", "remove"} <=> page = "group"

\* A wish is the only call's about its person; once it is served, and after it, it is done
WishOf(u) ==
  wish[u] # "nothing" =>
    /\ \A c \in sent : c.who = u =>
         /\ c.what = wish[u] /\ (c.answer = "done" => Done(wish[u], rows[u].has))
         /\ \A d \in sent : d.who = u => c = d
    /\ (\A c \in sent : c.who # u) => Done(wish[u], rows[u].has)

\* What every step keeps
AccessInv ==
  /\ AccessPagesTypeOK
  /\ \A u \in People : EndsFit(u) /\ KnownOf(u) /\ JudgedOf(u) /\ WishOf(u)
  /\ \A c \in sent : CallFits(c)

LEMMA ClicksAre == MaxClicks \in Nat /\ MaxOthers \in Nat
BY AccessPagesAssumption

\* What a call may find and what it makes of it, one by one.
LEMMA AllowedIs ==
  ASSUME NEW r
  PROVE  /\ RowsAllow("grant", r) <=> r \subseteq {"revoked"}
         /\ RowsAllow("approve", r) <=> "pending" \in r
         /\ RowsAllow("deny", r) <=> "pending" \in r
         /\ RowsAllow("add", r)
         /\ RowsAllow("remove", r) <=> "member" \in r
BY DEF RowsAllow

LEMMA AfterIs ==
  ASSUME NEW r
  PROVE  /\ RowsAfter("grant", r) = r \cup {"lasting"}
         /\ RowsAfter("approve", r) = (r \ {"pending"}) \cup {IF page = "keys" THEN "lasting" ELSE "timed"}
         /\ RowsAfter("deny", r) = (r \ {"pending"}) \cup {"denied"}
         /\ RowsAfter("add", r) = {"member"}
         /\ RowsAfter("remove", r) = {}
BY DEF RowsAfter

LEMMA DoneIs ==
  ASSUME NEW r
  PROVE  /\ Done("grant", r) <=> r \cap {"lasting", "timed"} # {}
         /\ Done("approve", r) <=> r \cap {"lasting", "timed"} # {}
         /\ Done("deny", r) <=> ("denied" \in r /\ r \cap InTheWay = {})
         /\ Done("add", r) <=> r = {"member"}
         /\ Done("remove", r) <=> r = {}
BY DEF Done

\* What an allowed call makes of rows that fit: they fit, and it is done.
LEMMA AfterFits ==
  ASSUME NEW r \in SUBSET Statuses, RowsFit(r), NEW w \in Asks, RowsAllow(w, r),
         w \in {"add", "remove"} => page = "group"
  PROVE  RowsAfter(w, r) \in SUBSET Statuses /\ RowsFit(RowsAfter(w, r)) /\ Done(w, RowsAfter(w, r))
<1>1. CASE w = "grant"
  BY <1>1, AllowedIs, AfterIs, DoneIs DEF RowsFit, Statuses
<1>2. CASE w = "approve"
  <2>1. PICK g \in {"lasting", "timed"} : g = IF page = "keys" THEN "lasting" ELSE "timed"
    OBVIOUS
  <2>2. RowsAfter(w, r) = (r \ {"pending"}) \cup {g}
    BY <1>2, <2>1, AfterIs
  <2> QED BY <1>2, <2>1, <2>2, DoneIs DEF RowsFit, Statuses
<1>3. CASE w = "deny"
  <2>1. r \cap {"lasting", "timed"} = {}
    BY <1>3, AllowedIs DEF RowsFit
  <2>2. RowsAfter(w, r) = (r \ {"pending"}) \cup {"denied"}
    BY <1>3, AfterIs
  <2>3. RowsAfter(w, r) \in SUBSET Statuses /\ RowsFit(RowsAfter(w, r))
    BY <2>2 DEF RowsFit, Statuses
  <2>4. "denied" \in RowsAfter(w, r) /\ RowsAfter(w, r) \cap InTheWay = {}
    BY <2>1, <2>2 DEF InTheWay
  <2> QED BY <1>3, <2>3, <2>4, DoneIs
<1>4. CASE w = "add"
  <2>1. RowsAfter(w, r) = {"member"}
    BY <1>4, AfterIs
  <2> QED BY <1>4, <2>1, DoneIs DEF RowsFit, Statuses
<1>5. CASE w = "remove"
  <2>1. RowsAfter(w, r) = {}
    BY <1>5, AfterIs
  <2> QED BY <1>5, <2>1, DoneIs DEF RowsFit
<1> QED BY <1>1, <1>2, <1>3, <1>4, <1>5 DEF Asks

\* What others make of rows that fit fits.
LEMMA OthersFit ==
  ASSUME NEW r \in SUBSET Statuses, RowsFit(r), NEW s \in OthersMake(r), page \in Pages
  PROVE  s \in SUBSET Statuses /\ RowsFit(s)
<1>1. CASE page = "group"
  <2>1. s \in {{"member"}, {}}
    BY <1>1 DEF OthersMake
  <2> QED BY <1>1, <2>1 DEF RowsFit, Statuses
<1>2. CASE page = "keys"
  <2>1. s \in {{"lasting"}, {"revoked"}, {"pending"}}
    BY <1>2 DEF OthersMake
  <2> QED BY <2>1 DEF RowsFit, Statuses
<1>3. CASE page # "group" /\ page # "keys"
  <2>1. s \in {RowsAfter(what, r) : what \in {w \in {"grant", "approve", "deny"} : RowsAllow(w, r)}}
              \cup (IF r \subseteq {"revoked"} THEN {r \cup {"timed"}} ELSE {})
              \cup (IF r \cap InTheWay = {} THEN {r \cup {"pending"}} ELSE {})
              \cup {(r \ {t}) \cup {"revoked"} : t \in r \ {"revoked"}}
    BY <1>3 DEF OthersMake
  <2>2. CASE s \in {RowsAfter(what, r) : what \in {w \in {"grant", "approve", "deny"} : RowsAllow(w, r)}}
    <3>1. PICK w \in {"grant", "approve", "deny"} : RowsAllow(w, r) /\ s = RowsAfter(w, r)
      BY <2>2
    <3>2. w \in Asks /\ w \notin {"add", "remove"}
      BY DEF Asks
    <3> QED BY <3>1, <3>2, AfterFits
  <2>3. CASE r \subseteq {"revoked"} /\ s = r \cup {"timed"}
    BY <2>3 DEF RowsFit, Statuses
  <2>4. CASE r \cap InTheWay = {} /\ s = r \cup {"pending"}
    BY <2>4 DEF RowsFit, Statuses, InTheWay
  <2>5. CASE s \in {(r \ {t}) \cup {"revoked"} : t \in r \ {"revoked"}}
    <3>1. PICK t \in r : s = (r \ {t}) \cup {"revoked"}
      BY <2>5
    <3> QED BY <3>1 DEF RowsFit, Statuses
  <2> QED BY <2>1, <2>2, <2>3, <2>4, <2>5
<1> QED BY <1>1, <1>2, <1>3 DEF Pages

\* The page being the same, what fits does.
LEMMA SamePage ==
  ASSUME page' = page
  PROVE  \A r : (RowsFit(r)' <=> RowsFit(r))
BY DEF RowsFit

\* What the list says being the same, what it was judged by is.
LEMMA SameList ==
  ASSUME UNCHANGED <<list, assigned, lapsed>>, \A u \in People : JudgedOf(u)
  PROVE  \A u \in People : JudgedOf(u)'
<1>1. ActiveAccess(list)' = ActiveAccess(list) /\ Overdue' = Overdue
  BY DEF ActiveAccess, Overdue, Lapsed
<1> QED BY <1>1 DEF JudgedOf

LEMMA AccessTypes ==
  ASSUME AccessPagesTypeOK
  PROVE  /\ page \in Pages /\ rows \in [People -> Rows] /\ list \in [People -> Rows]
         /\ clicks \in Nat /\ others \in Nat /\ clicks <= MaxClicks /\ others <= MaxOthers
         /\ \A u \in People : /\ rows[u] \in Rows /\ rows[u].has \in SUBSET Statuses /\ rows[u].term \in Nat
                              /\ list[u] \in Rows /\ list[u].has \in SUBSET Statuses /\ list[u].term \in Nat
<1>1. rows \in [People -> Rows] /\ list \in [People -> Rows]
  BY DEF AccessPagesTypeOK
<1>2. \A t \in 0..MaxOthers : t \in Nat
  BY ClicksAre
<1>3. \A r \in Rows : r.has \in SUBSET Statuses /\ r.term \in Nat
  BY <1>2 DEF Rows
<1> QED BY <1>1, <1>3, ClicksAre DEF AccessPagesTypeOK

\* A menu or a button is clicked: what it offers is what the list allows.
LEMMA OfferedIs ==
  ASSUME AccessInv, NEW u \in People, NEW what \in Asks, what \in Offered(u)
  PROVE  /\ what = "grant" =>
              /\ page = "account" /\ "lasting" \notin list[u].has
              /\ "timed" \in list[u].has => <<u, list[u].term>> \in lapsed
         /\ what \in {"approve", "deny"} => "pending" \in list[u].has
         /\ what = "remove" => "member" \in list[u].has
         /\ what \in {"add", "remove"} <=> page = "group"
         /\ page # "group" => \A c \in sent : c.who = u => ~c.here
<1>1. page \in Pages
  BY DEF AccessInv, AccessPagesTypeOK
<1>2. CASE page = "account"
  <2>1. what = "grant" /\ u \notin assigned /\ \A c \in sent : ~c.here
    BY <1>2 DEF Offered, OfferedGrants
  <2>2. u \notin ActiveAccess(list)
    BY <2>1 DEF AccessInv, JudgedOf, Overdue
  <2> QED BY <1>2, <2>1, <2>2 DEF ActiveAccess, Lapsed
<1>3. CASE page = "inbox"
  <2>1. what \in {"approve", "deny"} /\ u \in Waiting /\ Pending(u) = {}
    BY <1>3 DEF Offered, OfferedVerdicts
  <2> QED BY <1>3, <2>1 DEF Waiting, Pending
<1>4. CASE page = "keys"
  <2>1. what = "approve" /\ u \in Waiting /\ Pending(u) = {}
    BY <1>4 DEF Offered, OfferedKeys
  <2> QED BY <1>4, <2>1 DEF Waiting, Pending
<1>5. CASE page = "group"
  <2>1. what \in OfferedMembers(u)
    BY <1>5 DEF Offered
  <2>2. what = "add" \/ (what = "remove" /\ "member" \in list[u].has)
    BY <2>1 DEF OfferedMembers
  <2> QED BY <1>5, <2>2
<1> QED BY <1>1, <1>2, <1>3, <1>4, <1>5 DEF Pages

LEMMA ClickStep ==
  ASSUME AccessInv, NEW u \in People, NEW what \in Asks, Click(u, what)
  PROVE  AccessInv'
<1>1. /\ what \in Offered(u) /\ clicks < MaxClicks /\ clicks' = clicks + 1
      /\ wish' = [wish EXCEPT ![u] = IF Crossed(u) THEN "nothing" ELSE what]
      /\ UNCHANGED <<page, rows, lapsed, list, assigned, stale, others, excused>>
  BY DEF Click
<1>2. AccessPagesTypeOK
  BY DEF AccessInv
<1>3. PICK i \in 1..MaxClicks : i = clicks'
  BY <1>1, <1>2, AccessTypes, ClicksAre
<1>4. PICK b \in BOOLEAN : b = TRUE
  OBVIOUS
<1>5. PICK n : n = [id |-> i, who |-> u, what |-> what, saw |-> list[u], here |-> b, answer |-> "none"]
  OBVIOUS
<1>6. /\ n \in AskSent /\ n.id = i /\ n.who = u /\ n.what = what /\ n.saw = list[u] /\ n.answer = "none"
  BY <1>2, <1>5, AccessTypes DEF AskSent
<1>7. sent' = sent \cup {n}
  BY <1>3, <1>4, <1>5 DEF Click
<1>8. AccessPagesTypeOK'
  <2>1. wish' \in [People -> Asks \cup {"nothing"}]
    BY <1>1, <1>2 DEF AccessPagesTypeOK
  <2>2. clicks' \in 0..MaxClicks
    BY <1>3, ClicksAre
  <2>3. sent' \subseteq AskSent
    BY <1>2, <1>6, <1>7 DEF AccessPagesTypeOK
  <2> QED BY <1>1, <1>2, <2>1, <2>2, <2>3 DEF AccessPagesTypeOK
<1>9. \A v \in People : EndsFit(v)'
  BY <1>1 DEF AccessInv, EndsFit, RowsFit
<1>10. \A v \in People : KnownOf(v)'
  BY <1>1, <1>7 DEF AccessInv, KnownOf
<1>11. \A v \in People : JudgedOf(v)'
  BY <1>1, SameList DEF AccessInv
<1>12. \A c \in sent' : CallFits(c)'
  <2> SUFFICES ASSUME NEW c \in sent' PROVE CallFits(c)'
    OBVIOUS
  <2>1. clicks \in Nat /\ clicks < i /\ i = clicks + 1
    BY <1>1, <1>2, <1>3, AccessTypes
  <2>2. \A d \in sent : CallFits(d) /\ d.id \in Nat /\ d.id <= clicks /\ d.id # i
    <3>1. \A d \in sent : CallFits(d) /\ d.id <= clicks
      BY DEF AccessInv, CallFits
    <3>2. \A d \in sent : d.id \in 1..MaxClicks
      BY <1>2 DEF AccessPagesTypeOK, AskSent
    <3> QED BY <2>1, <3>1, <3>2, ClicksAre
  <2>3. CASE c \in sent
    <3>1. c.id <= clicks'
      BY <2>1, <2>2, <2>3, <1>3
    <3>2. \A d \in sent' : c.id = d.id => c = d
      BY <1>6, <1>7, <2>2, <2>3 DEF CallFits
    <3> QED BY <1>1, <2>2, <2>3, <3>1, <3>2 DEF CallFits
  <2>4. CASE c = n
    <3>1. c.id <= clicks' /\ \A d \in sent' : c.id = d.id => c = d
      BY <1>3, <1>6, <1>7, <2>2, <2>4
    <3>2. /\ what = "grant" =>
               /\ page = "account" /\ "lasting" \notin list[u].has
               /\ "timed" \in list[u].has => <<u, list[u].term>> \in lapsed
          /\ what \in {"approve", "deny"} => "pending" \in list[u].has
          /\ what = "remove" => "member" \in list[u].has
          /\ what \in {"add", "remove"} <=> page = "group"
      BY <1>1, OfferedIs
    <3> QED BY <1>1, <1>6, <2>4, <3>1, <3>2 DEF CallFits
  <2> QED BY <1>7, <2>3, <2>4
<1>13. \A v \in People : WishOf(v)'
  <2> SUFFICES ASSUME NEW v \in People PROVE WishOf(v)'
    OBVIOUS
  <2>1. wish \in [People -> Asks \cup {"nothing"}] /\ WishOf(v)
    BY <1>2 DEF AccessInv, AccessPagesTypeOK
  <2>2. CASE v # u
    <3>1. wish'[v] = wish[v]
      BY <1>1, <2>1, <2>2
    <3>2. \A w : Done(w, rows[v].has)' <=> Done(w, rows[v].has)
      BY <1>1 DEF Done
    <3>3. \A c \in sent' : c.who = v => c \in sent
      BY <1>6, <1>7, <2>2
    <3>4. (\A c \in sent' : c.who # v) => \A c \in sent : c.who # v
      BY <1>7
    <3> QED BY <1>1, <2>1, <3>1, <3>2, <3>3, <3>4 DEF WishOf
  <2>3. CASE v = u /\ Crossed(u)
    BY <1>1, <2>1, <2>3 DEF WishOf
  <2>4. CASE v = u /\ ~Crossed(u)
    <3>1. wish'[v] = what
      BY <1>1, <2>1, <2>4
    <3>2. \A c \in sent : c.who # u
      BY <1>1, <2>4, OfferedIs DEF Crossed
    <3>3. \A c \in sent' : c.who = u => c = n
      BY <1>7, <3>2
    <3>4. n \in sent'
      BY <1>7
    <3> QED BY <1>6, <2>4, <3>1, <3>3, <3>4 DEF WishOf
  <2> QED BY <2>2, <2>3, <2>4
<1> QED BY <1>8, <1>9, <1>10, <1>11, <1>12, <1>13 DEF AccessInv

\* Fewer calls, and no fewer ends that have passed.
LEMMA CallsFewerFit ==
  ASSUME AccessInv, sent' \subseteq sent, lapsed \subseteq lapsed', UNCHANGED <<page, clicks>>
  PROVE  sent' \subseteq AskSent /\ \A c \in sent' : CallFits(c)'
<1>1. sent' \subseteq AskSent
  BY DEF AccessInv, AccessPagesTypeOK
<1>2. ASSUME NEW c \in sent' PROVE CallFits(c)'
  <2>1. c \in sent /\ CallFits(c)
    BY DEF AccessInv
  <2> QED BY <2>1 DEF CallFits
<1> QED BY <1>1, <1>2

\* The API serves a call or refuses it.
LEMMA ServeAskStep ==
  ASSUME AccessInv, NEW c \in sent, ServeAsk(c)
  PROVE  AccessInv'
<1>1. UNCHANGED <<page, lapsed, list, assigned, stale, clicks, others, wish, excused>> /\ c.answer = "none"
  BY DEF ServeAsk, counts
<1>2. AccessPagesTypeOK /\ c \in AskSent /\ CallFits(c)
  BY DEF AccessInv, AccessPagesTypeOK
<1>3. PICK u \in People : u = c.who
  BY <1>2 DEF AskSent
<1>4. PICK w \in Asks : w = c.what
  BY <1>2 DEF AskSent
<1>5. PICK r \in SUBSET Statuses : r = rows[u].has
  BY <1>2, AccessTypes
<1>6. RowsFit(r) /\ (w \in {"add", "remove"} => page = "group")
  BY <1>2, <1>4, <1>5 DEF AccessInv, EndsFit, CallFits
<1>7. PICK a \in {"done", "refused"} : a = IF RowsAllow(w, r) THEN "done" ELSE "refused"
  OBVIOUS
<1>8. PICK n : n = [c EXCEPT !.answer = a]
  OBVIOUS
<1>9. /\ n \in AskSent /\ n.id = c.id /\ n.who = u /\ n.what = w /\ n.saw = c.saw /\ n.answer = a
  BY <1>2, <1>3, <1>4, <1>8 DEF AskSent
<1>10. sent' = (sent \ {c}) \cup {n}
  BY <1>3, <1>4, <1>5, <1>7, <1>8 DEF ServeAsk
<1>11. /\ rows' \in [People -> Rows] /\ \A v \in People : v # u => rows'[v] = rows[v]
       /\ rows'[u].term = rows[u].term /\ rows'[u].has \in SUBSET Statuses
       /\ a = "refused" => rows' = rows
       /\ RowsFit(rows'[u].has) /\ (a = "done" => Done(w, rows'[u].has))
  <2>1. CASE RowsAllow(w, r)
    <3>1. PICK s \in SUBSET Statuses : s = RowsAfter(w, r)
      BY <1>6, <2>1, AfterFits
    <3>2. RowsFit(s) /\ Done(w, s)
      BY <1>6, <2>1, <3>1, AfterFits
    <3>3. rows' = [rows EXCEPT ![c.who].has = RowsAfter(c.what, @)]
      BY <1>3, <1>4, <1>5, <2>1 DEF ServeAsk
    <3>4. rows' = [rows EXCEPT ![u] = [rows[u] EXCEPT !.has = s]]
      BY <1>3, <1>4, <1>5, <3>1, <3>3
    <3>5. PICK o \in Rows : o = rows[u]
      BY <1>2, AccessTypes
    <3>6. [o EXCEPT !.has = s] \in Rows /\ [o EXCEPT !.has = s].has = s /\ [o EXCEPT !.has = s].term = o.term
      BY DEF Rows
    <3>7. rows \in [People -> Rows]
      BY <1>2, AccessTypes
    <3>8. rows' = [rows EXCEPT ![u] = [o EXCEPT !.has = s]]
      BY <3>4, <3>5
    <3>9. PICK q : q = [o EXCEPT !.has = s]
      OBVIOUS
    <3>10. q \in Rows /\ q.has = s /\ q.term = o.term /\ rows' = [rows EXCEPT ![u] = q]
      BY <3>6, <3>8, <3>9
    <3>11. rows' \in [People -> Rows] /\ rows'[u] = q /\ \A v \in People : v # u => rows'[v] = rows[v]
      BY <3>7, <3>10
    <3> QED BY <1>7, <2>1, <3>2, <3>5, <3>10, <3>11
  <2>2. CASE ~RowsAllow(w, r)
    <3>1. rows' = rows /\ a = "refused"
      BY <1>3, <1>4, <1>5, <1>7, <2>2 DEF ServeAsk
    <3> QED BY <1>2, <1>5, <1>6, <3>1, AccessTypes
  <2> QED BY <2>1, <2>2
<1>12. AccessPagesTypeOK'
  <2>1. sent' \subseteq AskSent
    BY <1>2, <1>9, <1>10 DEF AccessPagesTypeOK
  <2> QED BY <1>1, <1>2, <1>11, <2>1 DEF AccessPagesTypeOK
<1>13. \A v \in People : EndsFit(v)'
  <2> SUFFICES ASSUME NEW v \in People PROVE EndsFit(v)'
    OBVIOUS
  <2>1. EndsFit(v) /\ EndsFit(u)
    BY DEF AccessInv
  <2>2. RowsFit(rows[v].has)' <=> RowsFit(rows'[v].has)
    BY <1>1 DEF RowsFit
  <2>3. RowsFit(rows'[v].has) /\ rows'[v].term = rows[v].term
    BY <1>11, <2>1 DEF EndsFit
  <2> QED BY <1>1, <2>1, <2>2, <2>3 DEF EndsFit
<1>14. \A v \in People : KnownOf(v)'
  <2> SUFFICES ASSUME NEW v \in People PROVE KnownOf(v)'
    OBVIOUS
  <2>1. KnownOf(v)
    BY DEF AccessInv
  <2>2. CASE v = u /\ a = "done"
    <3>1. n \in sent' /\ n.who = v /\ n.answer = "done"
      BY <1>9, <1>10, <2>2
    <3> QED BY <3>1 DEF KnownOf
  <2>3. CASE v # u \/ a = "refused"
    <3>1. rows'[v] = rows[v]
      BY <1>11, <2>3
    <3>2. (\A d \in sent' : d.who = v => d.answer # "done") => \A d \in sent : d.who = v => d.answer # "done"
      BY <1>1, <1>10
    <3> QED BY <1>1, <2>1, <3>1, <3>2 DEF KnownOf
  <2> QED BY <2>2, <2>3
<1>15. \A v \in People : JudgedOf(v)'
  BY <1>1, SameList DEF AccessInv
<1>16. \A d \in sent' : CallFits(d)'
  <2> SUFFICES ASSUME NEW d \in sent' PROVE CallFits(d)'
    OBVIOUS
  <2>1. \A e \in sent : CallFits(e)
    BY DEF AccessInv
  <2>2. \A e \in sent' : d.id = e.id => d = e
    BY <1>9, <1>10, <2>1 DEF CallFits
  <2>3. CASE d \in sent
    BY <1>1, <2>1, <2>2, <2>3 DEF CallFits
  <2>4. CASE d = n
    BY <1>1, <1>2, <1>3, <1>4, <1>9, <2>2, <2>4 DEF CallFits
  <2> QED BY <1>10, <2>3, <2>4
<1>17. \A v \in People : WishOf(v)'
  <2> SUFFICES ASSUME NEW v \in People, wish[v] # "nothing"
               PROVE  /\ \A d \in sent' : d.who = v =>
                           /\ d.what = wish[v] /\ (d.answer = "done" => Done(wish[v], rows'[v].has))
                           /\ \A e \in sent' : e.who = v => d = e
                      /\ (\A d \in sent' : d.who # v) => Done(wish[v], rows'[v].has)
    <3>1. \A v \in People : wish'[v] = wish[v] /\ (Done(wish[v], rows[v].has)' <=> Done(wish[v], rows'[v].has))
      BY <1>1 DEF Done
    <3> QED BY <3>1 DEF WishOf
  <2>1. WishOf(v) /\ n \in sent'
    BY <1>10 DEF AccessInv
  <2>2. CASE v # u
    <3>1. rows'[v] = rows[v]
      BY <1>11, <2>2
    <3>2. \A d : d.who = v => (d \in sent' <=> d \in sent)
      BY <1>3, <1>9, <1>10, <2>2
    <3> QED BY <2>1, <3>1, <3>2 DEF WishOf
  <2>3. CASE v = u
    <3>1. \A d \in sent : d.who = u => d = c
      BY <1>3, <2>1, <2>3 DEF WishOf
    <3>2. \A d \in sent' : d.who = u => d = n
      BY <1>10, <3>1
    <3>3. w = wish[v]
      BY <1>3, <1>4, <2>1, <2>3 DEF WishOf
    <3> QED BY <1>9, <1>11, <2>1, <2>3, <3>2, <3>3
  <2> QED BY <2>2, <2>3
<1> QED BY <1>12, <1>13, <1>14, <1>15, <1>16, <1>17 DEF AccessInv

\* The rows being the same, what was done is.
LEMMA SameDone ==
  ASSUME rows' = rows, NEW v \in People
  PROVE  \A x : Done(x, rows[v].has)' <=> Done(x, rows[v].has)
BY DEF Done

\* A person whom no call is about any more, or only the calls that were, has what was wished.
LEMMA WishFewer ==
  ASSUME AccessInv, NEW v \in People, rows' = rows, sent' \subseteq sent, wish'[v] = wish[v],
         \A c \in sent \ sent' : c.who = v /\ wish[v] # "nothing" => c.answer = "done"
  PROVE  WishOf(v)'
<1>1. WishOf(v)
  BY DEF AccessInv
<1>2. SUFFICES ASSUME wish[v] # "nothing"
               PROVE  /\ \A d \in sent' : d.who = v =>
                           /\ d.what = wish[v] /\ (d.answer = "done" => Done(wish[v], rows[v].has))
                           /\ \A e \in sent' : e.who = v => d = e
                      /\ (\A d \in sent' : d.who # v) => Done(wish[v], rows[v].has)
  <2>1. Done(wish[v], rows[v].has)' <=> Done(wish[v], rows[v].has)
    BY DEF Done
  <2> QED BY <2>1 DEF WishOf
<1>3. (\A d \in sent' : d.who # v) => Done(wish[v], rows[v].has)
  <2>1. CASE \A d \in sent : d.who # v
    BY <1>1, <1>2, <2>1 DEF WishOf
  <2>2. CASE \E d \in sent : d.who = v /\ d \notin sent'
    BY <1>1, <1>2, <2>2 DEF WishOf
  <2> QED BY <2>1, <2>2
<1> QED BY <1>1, <1>2, <1>3 DEF WishOf

\* A call is answered, or its answer is lost.
LEMMA AnswerStep ==
  ASSUME AccessInv, NEW c \in sent, AnswerClick(c) \/ LoseClick(c)
  PROVE  AccessInv'
<1>1. /\ UNCHANGED <<page, rows, lapsed, list, assigned, clicks, others>> /\ sent' = sent \ {c}
      /\ wish' = [wish EXCEPT ![c.who] = "nothing"] \/ (wish' = wish /\ c.answer = "done")
  <2>1. CASE AnswerClick(c)
    <3>1. c.answer \in {"none", "done", "refused"}
      BY DEF AccessInv, AccessPagesTypeOK, AskSent
    <3> QED BY <2>1, <3>1 DEF AnswerClick, counts
  <2>2. CASE LoseClick(c)
    BY <2>2 DEF LoseClick, counts
  <2> QED BY <2>1, <2>2
<1>2. AccessPagesTypeOK /\ c \in AskSent
  BY DEF AccessInv, AccessPagesTypeOK
<1>3. PICK u \in People : u = c.who
  BY <1>2 DEF AskSent
<1>4. stale' \in BOOLEAN /\ excused' \subseteq People /\ excused \subseteq excused' /\ (stale => stale')
  <2>1. CASE AnswerClick(c)
    <3>1. PICK b \in BOOLEAN : b = (stale \/ c.answer = "done")
      OBVIOUS
    <3>2. stale' = b /\ excused' = excused
      BY <2>1, <3>1 DEF AnswerClick
    <3> QED BY <1>2, <3>1, <3>2 DEF AccessPagesTypeOK
  <2>2. CASE LoseClick(c)
    BY <1>2, <1>3, <2>2 DEF LoseClick, AccessPagesTypeOK
  <2> QED BY <2>1, <2>2
<1>5. wish' \in [People -> Asks \cup {"nothing"}]
  BY <1>1, <1>2, <1>3 DEF AccessPagesTypeOK
<1>6. sent' \subseteq AskSent /\ \A d \in sent' : CallFits(d)'
  BY <1>1, CallsFewerFit
<1>7. AccessPagesTypeOK'
  BY <1>1, <1>2, <1>4, <1>5, <1>6 DEF AccessPagesTypeOK
<1>8. \A v \in People : EndsFit(v)'
  BY <1>1 DEF AccessInv, EndsFit, RowsFit
<1>9. \A v \in People : JudgedOf(v)'
  BY <1>1, SameList DEF AccessInv
<1>10. \A v \in People : KnownOf(v)'
  <2> SUFFICES ASSUME NEW v \in People, v \notin excused', ~stale', \A d \in sent' : d.who = v => d.answer # "done"
               PROVE  list[v] = rows[v]
    BY <1>1 DEF KnownOf
  <2>1. KnownOf(v) /\ v \notin excused /\ ~stale
    BY <1>4 DEF AccessInv
  <2>2. c.who = v => c.answer # "done"
    <3>1. CASE AnswerClick(c)
      BY <3>1 DEF AnswerClick
    <3>2. CASE LoseClick(c)
      BY <3>2 DEF LoseClick
    <3> QED BY <3>1, <3>2
  <2> QED BY <1>1, <2>1, <2>2 DEF KnownOf
<1>11. \A v \in People : WishOf(v)'
  <2> SUFFICES ASSUME NEW v \in People PROVE WishOf(v)'
    OBVIOUS
  <2>1. CASE v = u /\ wish' = [wish EXCEPT ![c.who] = "nothing"]
    <3>1. wish'[v] = "nothing"
      BY <1>2, <1>3, <2>1 DEF AccessPagesTypeOK
    <3> QED BY <3>1 DEF WishOf
  <2>2. CASE v # u
    <3>1. wish'[v] = wish[v]
      BY <1>1, <1>2, <1>3, <2>2 DEF AccessPagesTypeOK
    <3>2. \A d \in sent \ sent' : d.who # v
      BY <1>1, <1>3, <2>2
    <3> QED BY <1>1, <3>1, <3>2, WishFewer
  <2>3. CASE wish' = wish /\ c.answer = "done"
    <3>1. \A d \in sent \ sent' : d.answer = "done"
      BY <1>1, <2>3
    <3> QED BY <1>1, <2>3, <3>1, WishFewer
  <2> QED BY <1>1, <2>1, <2>2, <2>3
<1> QED BY <1>6, <1>7, <1>8, <1>9, <1>10, <1>11 DEF AccessInv

\* The list is read again.
LEMMA ReadAgainStep ==
  ASSUME AccessInv, ReadAgain
  PROVE  AccessInv'
<1>1. /\ UNCHANGED <<page, rows, lapsed, sent, clicks, others, wish>> /\ stale' = FALSE /\ list' = rows
      /\ assigned' = IF rows = list THEN assigned ELSE ActiveAccess(rows)
      /\ excused' = {c.who : c \in sent} \cap excused
  BY DEF ReadAgain, counts
<1>2. AccessPagesTypeOK
  BY DEF AccessInv
<1>3. AccessPagesTypeOK'
  <2>1. PICK b \in BOOLEAN : b = FALSE
    OBVIOUS
  <2>2. stale' = b
    BY <1>1, <2>1
  <2>3. assigned' \subseteq People
    BY <1>1, <1>2 DEF AccessPagesTypeOK, ActiveAccess
  <2> QED BY <1>1, <1>2, <2>2, <2>3 DEF AccessPagesTypeOK
<1>4. \A v \in People : EndsFit(v)'
  BY <1>1 DEF AccessInv, EndsFit, RowsFit
<1>5. \A v \in People : KnownOf(v)'
  BY <1>1 DEF KnownOf
<1>6. \A v \in People : JudgedOf(v)'
  <2>1. CASE rows = list
    BY <1>1, <2>1, SameList DEF AccessInv
  <2>2. CASE rows # list
    <3>1. ActiveAccess(list)' = ActiveAccess(rows)
      BY <1>1 DEF ActiveAccess, Lapsed
    <3> QED BY <1>1, <2>2, <3>1 DEF JudgedOf
  <2> QED BY <2>1, <2>2
<1>7. sent' \subseteq AskSent /\ \A d \in sent' : CallFits(d)'
  BY <1>1, CallsFewerFit
<1>8. \A v \in People : WishOf(v)'
  BY <1>1, WishFewer
<1> QED BY <1>3, <1>4, <1>5, <1>6, <1>7, <1>8 DEF AccessInv

\* The page is left and opened again; the calls of before go on without it.
LEMMA VisitAgainStep ==
  ASSUME AccessInv, VisitAgain
  PROVE  AccessInv'
<1>1. /\ UNCHANGED <<page, rows, lapsed, list, clicks, others, wish, excused>>
      /\ assigned' = ActiveAccess(list) /\ stale' \in {stale, TRUE}
      /\ sent' = {[c EXCEPT !.here = FALSE] : c \in sent}
  BY DEF VisitAgain, counts
<1>2. AccessPagesTypeOK
  BY DEF AccessInv
<1>3. ASSUME NEW c \in sent
      PROVE  \E d \in sent' : /\ d \in AskSent /\ d = [c EXCEPT !.here = FALSE]
                              /\ d.id = c.id /\ d.who = c.who /\ d.what = c.what
                              /\ d.saw = c.saw /\ d.answer = c.answer
  <2>1. PICK b \in BOOLEAN : b = FALSE
    OBVIOUS
  <2>2. PICK d : d = [c EXCEPT !.here = b]
    OBVIOUS
  <2>3. c \in AskSent
    BY <1>2 DEF AccessPagesTypeOK
  <2>4. /\ d \in AskSent /\ d.id = c.id /\ d.who = c.who /\ d.what = c.what /\ d.saw = c.saw
        /\ d.answer = c.answer
    BY <2>2, <2>3 DEF AskSent
  <2>5. d = [c EXCEPT !.here = FALSE]
    BY <2>1, <2>2
  <2> QED BY <1>1, <2>4, <2>5
<1>4. ASSUME NEW d \in sent'
      PROVE  \E c \in sent : /\ d \in AskSent /\ d = [c EXCEPT !.here = FALSE]
                             /\ d.id = c.id /\ d.who = c.who /\ d.what = c.what
                             /\ d.saw = c.saw /\ d.answer = c.answer
  <2>1. PICK c \in sent : d = [c EXCEPT !.here = FALSE]
    BY <1>1
  <2> QED BY <1>3, <2>1
<1>5. AccessPagesTypeOK'
  <2>1. PICK b \in BOOLEAN : b = TRUE
    OBVIOUS
  <2>2. stale' \in BOOLEAN
    BY <1>1, <1>2, <2>1 DEF AccessPagesTypeOK
  <2>3. assigned' \subseteq People
    BY <1>1 DEF ActiveAccess
  <2>4. sent' \subseteq AskSent
    BY <1>4
  <2> QED BY <1>1, <1>2, <2>2, <2>3, <2>4 DEF AccessPagesTypeOK
<1>6. \A v \in People : EndsFit(v)'
  BY <1>1 DEF AccessInv, EndsFit, RowsFit
<1>7. \A v \in People : KnownOf(v)'
  <2> SUFFICES ASSUME NEW v \in People, v \notin excused, ~stale', \A d \in sent' : d.who = v => d.answer # "done"
               PROVE  list[v] = rows[v]
    BY <1>1 DEF KnownOf
  <2>1. ~stale
    BY <1>1
  <2>2. \A c \in sent : c.who = v => c.answer # "done"
    BY <1>3
  <2> QED BY <2>1, <2>2 DEF AccessInv, KnownOf
<1>8. \A v \in People : JudgedOf(v)'
  <2>1. ActiveAccess(list)' = ActiveAccess(list)
    BY <1>1 DEF ActiveAccess, Lapsed
  <2> QED BY <1>1, <2>1 DEF JudgedOf
<1>9. \A d \in sent' : CallFits(d)'
  <2> SUFFICES ASSUME NEW d \in sent' PROVE CallFits(d)'
    OBVIOUS
  <2>1. PICK c \in sent : /\ d = [c EXCEPT !.here = FALSE] /\ d.id = c.id /\ d.who = c.who /\ d.what = c.what
                          /\ d.saw = c.saw
    BY <1>4
  <2>2. CallFits(c)
    BY DEF AccessInv
  <2>3. ASSUME NEW e \in sent', d.id = e.id PROVE d = e
    <3>1. PICK f \in sent : e = [f EXCEPT !.here = FALSE] /\ e.id = f.id
      BY <1>4
    <3>2. c = f
      BY <2>1, <2>2, <2>3, <3>1 DEF CallFits
    <3> QED BY <2>1, <3>1, <3>2
  <2> QED BY <1>1, <2>1, <2>2, <2>3 DEF CallFits
<1>10. \A v \in People : WishOf(v)'
  <2> SUFFICES ASSUME NEW v \in People, wish[v] # "nothing"
               PROVE  /\ \A d \in sent' : d.who = v =>
                           /\ d.what = wish[v] /\ (d.answer = "done" => Done(wish[v], rows[v].has))
                           /\ \A e \in sent' : e.who = v => d = e
                      /\ (\A d \in sent' : d.who # v) => Done(wish[v], rows[v].has)
    <3>1. \A v \in People : wish'[v] = wish[v] /\ (Done(wish[v], rows[v].has)' <=> Done(wish[v], rows[v].has))
      BY <1>1 DEF Done
    <3> QED BY <3>1 DEF WishOf
  <2>1. WishOf(v)
    BY DEF AccessInv
  <2>2. (\A d \in sent' : d.who # v) => \A c \in sent : c.who # v
    BY <1>3
  <2>3. ASSUME NEW d \in sent', d.who = v
        PROVE  /\ d.what = wish[v] /\ (d.answer = "done" => Done(wish[v], rows[v].has))
               /\ \A e \in sent' : e.who = v => d = e
    <3>1. PICK c \in sent : /\ d = [c EXCEPT !.here = FALSE] /\ d.who = c.who /\ d.what = c.what
                            /\ d.answer = c.answer
      BY <1>4
    <3>2. ASSUME NEW e \in sent', e.who = v PROVE d = e
      <4>1. PICK f \in sent : e = [f EXCEPT !.here = FALSE] /\ e.who = f.who
        BY <1>4
      <4>2. c = f
        BY <2>1, <2>3, <3>1, <3>2, <4>1 DEF WishOf
      <4> QED BY <3>1, <4>1, <4>2
    <3> QED BY <2>1, <2>3, <3>1, <3>2 DEF WishOf
  <2> QED BY <2>1, <2>2, <2>3 DEF WishOf
<1> QED BY <1>5, <1>6, <1>7, <1>8, <1>9, <1>10 DEF AccessInv

\* Another changes the rows of a person.
LEMMA OthersChangeStep ==
  ASSUME AccessInv, NEW u \in People, OthersChange(u)
  PROVE  AccessInv'
<1>1. /\ UNCHANGED <<page, lapsed, list, assigned, sent, stale, clicks>>
      /\ others < MaxOthers /\ others' = others + 1
      /\ wish' = [wish EXCEPT ![u] = "nothing"] /\ excused' = excused \cup {u}
  BY DEF OthersChange
<1>2. AccessPagesTypeOK
  BY DEF AccessInv
<1>3. PICK r \in OthersMake(rows[u].has) :
        rows' = [rows EXCEPT ![u] =
                   [has |-> r, term |-> IF r \cap {"pending", "timed"} # {} /\ @.has \cap {"pending", "timed"} = {}
                                        THEN @.term + 1 ELSE @.term]]
  BY DEF OthersChange
<1>4. PICK h \in SUBSET Statuses : h = rows[u].has
  BY <1>2, AccessTypes
<1>5. r \in SUBSET Statuses /\ RowsFit(r)
  <2>1. RowsFit(h) /\ page \in Pages /\ r \in OthersMake(h)
    BY <1>2, <1>3, <1>4, AccessTypes DEF AccessInv, EndsFit
  <2> QED BY <2>1, OthersFit
<1>6. PICK t : t = IF r \cap {"pending", "timed"} # {} /\ h \cap {"pending", "timed"} = {}
                   THEN rows[u].term + 1 ELSE rows[u].term
  OBVIOUS
<1>7. others' \in 0..MaxOthers /\ others <= others' /\ t \in 0..MaxOthers /\ t <= others'
  <2>1. others \in Nat /\ rows[u].term \in Nat /\ rows[u].term <= others
    BY <1>2, AccessTypes DEF AccessInv, EndsFit
  <2> QED BY <1>1, <1>6, <2>1, ClicksAre
<1>8. PICK n : n = [has |-> r, term |-> t]
  OBVIOUS
<1>9. n \in Rows /\ n.has = r /\ n.term = t
  BY <1>5, <1>7, <1>8 DEF Rows
<1>10. rows' = [rows EXCEPT ![u] = n]
  BY <1>2, <1>3, <1>4, <1>6, <1>8, AccessTypes
<1>11. rows' \in [People -> Rows] /\ rows'[u] = n /\ \A v \in People : v # u => rows'[v] = rows[v]
  BY <1>2, <1>9, <1>10, AccessTypes
<1>12. AccessPagesTypeOK'
  BY <1>1, <1>2, <1>7, <1>11 DEF AccessPagesTypeOK
<1>13. \A v \in People : EndsFit(v)'
  <2> SUFFICES ASSUME NEW v \in People PROVE EndsFit(v)'
    OBVIOUS
  <2>1. EndsFit(v)
    BY DEF AccessInv
  <2>2. RowsFit(rows[v].has)' <=> RowsFit(rows'[v].has)
    BY <1>1 DEF RowsFit
  <2>3. /\ rows[v].term \in Nat /\ list[v].term \in Nat /\ others \in Nat
        /\ rows[v].term <= others /\ list[v].term <= others /\ others' = others + 1
    BY <1>1, <1>2, <2>1, AccessTypes DEF EndsFit
  <2>4. rows'[v].term <= others' /\ list'[v].term <= others'
    <3>1. list'[v] = list[v] /\ list[v].term <= others + 1 /\ rows[v].term <= others + 1
      BY <1>1, <2>3
    <3> QED BY <1>7, <1>9, <1>11, <2>3, <3>1
  <2>5. RowsFit(rows'[v].has)
    BY <1>5, <1>9, <1>11, <2>1 DEF EndsFit
  <2> QED BY <2>2, <2>4, <2>5 DEF EndsFit
<1>14. \A v \in People : KnownOf(v)'
  <2> SUFFICES ASSUME NEW v \in People PROVE KnownOf(v)'
    OBVIOUS
  <2>1. KnownOf(v) /\ (v # u => rows'[v] = rows[v])
    BY <1>11 DEF AccessInv
  <2> QED BY <1>1, <2>1 DEF KnownOf
<1>15. \A v \in People : JudgedOf(v)'
  BY <1>1, SameList DEF AccessInv
<1>16. sent' \subseteq AskSent /\ \A d \in sent' : CallFits(d)'
  BY <1>1, CallsFewerFit
<1>17. \A v \in People : WishOf(v)'
  <2> SUFFICES ASSUME NEW v \in People PROVE WishOf(v)'
    OBVIOUS
  <2>1. wish \in [People -> Asks \cup {"nothing"}] /\ WishOf(v)
    BY <1>2 DEF AccessInv, AccessPagesTypeOK
  <2>2. CASE v = u
    BY <1>1, <2>1, <2>2 DEF WishOf
  <2>3. CASE v # u
    <3>1. wish'[v] = wish[v] /\ rows'[v] = rows[v]
      BY <1>1, <1>11, <2>1, <2>3
    <3>2. Done(wish[v], rows[v].has)' <=> Done(wish[v], rows[v].has)
      BY <3>1 DEF Done
    <3> QED BY <1>1, <2>1, <3>1, <3>2 DEF WishOf
  <2> QED BY <2>2, <2>3
<1> QED BY <1>12, <1>13, <1>14, <1>15, <1>16, <1>17 DEF AccessInv

\* The end of an access passes.
LEMMA LapseStep ==
  ASSUME AccessInv, NEW u \in People, Lapse(u)
  PROVE  AccessInv'
<1>1. /\ UNCHANGED <<page, rows, list, assigned, sent, stale, clicks, others, wish, excused>>
      /\ lapsed' = lapsed \cup {<<u, rows[u].term>>}
  BY DEF Lapse, counts
<1>2. AccessPagesTypeOK
  BY DEF AccessInv
<1>3. lapsed' \subseteq People \X (0..MaxOthers)
  <2>1. rows[u] \in Rows
    BY <1>2, AccessTypes
  <2>2. rows[u].term \in 0..MaxOthers
    BY <2>1 DEF Rows
  <2> QED BY <1>1, <1>2, <2>2 DEF AccessPagesTypeOK
<1>4. AccessPagesTypeOK'
  BY <1>1, <1>2, <1>3 DEF AccessPagesTypeOK
<1>5. \A v \in People : EndsFit(v)'
  BY <1>1 DEF AccessInv, EndsFit, RowsFit
<1>6. \A v \in People : KnownOf(v)'
  BY <1>1 DEF AccessInv, KnownOf
<1>7. \A v \in People : JudgedOf(v)'
  <2> SUFFICES ASSUME NEW v \in People PROVE JudgedOf(v)'
    OBVIOUS
  <2>1. Lapsed(list, v) => Lapsed(list, v)'
    BY <1>1 DEF Lapsed
  <2>2. JudgedOf(v)
    BY DEF AccessInv
  <2>3. v \in ActiveAccess(list) <=> ("lasting" \in list[v].has \/ ("timed" \in list[v].has /\ ~Lapsed(list, v)))
    BY DEF ActiveAccess
  <2>4. v \in ActiveAccess(list)' <=> ("lasting" \in list[v].has \/ ("timed" \in list[v].has /\ ~Lapsed(list, v)'))
    BY <1>1 DEF ActiveAccess, Lapsed
  <2>5. v \in Overdue <=> (v \in assigned /\ "timed" \in list[v].has /\ Lapsed(list, v))
    BY DEF Overdue
  <2>6. v \in Overdue' <=> (v \in assigned /\ "timed" \in list[v].has /\ Lapsed(list, v)')
    BY <1>1 DEF Overdue, Lapsed
  <2>7. (v \in assigned)' <=> v \in assigned
    BY <1>1
  <2> QED BY <2>1, <2>2, <2>3, <2>4, <2>5, <2>6, <2>7 DEF JudgedOf
<1>8. sent' \subseteq AskSent /\ \A d \in sent' : CallFits(d)'
  BY <1>1, CallsFewerFit
<1>9. \A v \in People : WishOf(v)'
  BY <1>1, WishFewer
<1> QED BY <1>4, <1>5, <1>6, <1>7, <1>8, <1>9 DEF AccessInv

LEMMA AccessStutter ==
  ASSUME AccessInv, UNCHANGED accessPageVars
  PROVE  AccessInv'
<1>1. UNCHANGED <<page, rows, lapsed, list, assigned, sent, stale, clicks, others, wish, excused>>
  BY DEF accessPageVars
<1>2. AccessPagesTypeOK'
  BY <1>1 DEF AccessInv, AccessPagesTypeOK
<1>3. \A v \in People : EndsFit(v)' /\ KnownOf(v)'
  BY <1>1 DEF AccessInv, EndsFit, RowsFit, KnownOf
<1>4. \A v \in People : JudgedOf(v)'
  BY <1>1, SameList DEF AccessInv
<1>5. sent' \subseteq AskSent /\ \A d \in sent' : CallFits(d)'
  BY <1>1, CallsFewerFit
<1>6. \A v \in People : WishOf(v)'
  BY <1>1, WishFewer
<1> QED BY <1>2, <1>3, <1>4, <1>5, <1>6 DEF AccessInv

\* Every step of these pages keeps what holds of them.
LEMMA AccessSteps == AccessInv /\ [AccessPagesNext]_accessPageVars => AccessInv'
<1> SUFFICES ASSUME AccessInv, [AccessPagesNext]_accessPageVars
             PROVE  AccessInv'
  OBVIOUS
<1>1. \A u \in People, what \in Asks : Click(u, what) => AccessInv'
  BY ClickStep
<1>2. \A c \in sent : ServeAsk(c) => AccessInv'
  BY ServeAskStep
<1>3. \A c \in sent : AnswerClick(c) \/ LoseClick(c) => AccessInv'
  BY AnswerStep
<1>4. ReadAgain \/ VisitAgain => AccessInv'
  BY ReadAgainStep, VisitAgainStep
<1>5. \A u \in People : OthersChange(u) \/ Lapse(u) => AccessInv'
  BY OthersChangeStep, LapseStep
<1>6. UNCHANGED accessPageVars => AccessInv'
  BY AccessStutter
<1> QED BY <1>1, <1>2, <1>3, <1>4, <1>5, <1>6 DEF AccessPagesNext

\* It holds when the page is opened first.
LEMMA AccessStarts == AccessPagesInit => AccessInv
<1> SUFFICES ASSUME AccessPagesInit PROVE AccessInv
  OBVIOUS
<1>1. /\ page \in Pages /\ rows \in [People -> [has : Beginnings, term : {0}]]
      /\ lapsed = {} /\ list = rows /\ assigned = ActiveAccess(rows)
      /\ sent = {} /\ stale = FALSE /\ clicks = 0 /\ others = 0
      /\ wish = [u \in People |-> "nothing"] /\ excused = {}
  BY DEF AccessPagesInit
<1>2. \A h \in Beginnings : h \in SUBSET Statuses /\ RowsFit(h)
  <2>1. CASE page = "group"
    BY <2>1 DEF Beginnings, Statuses, RowsFit
  <2>2. CASE page = "keys"
    BY <2>2 DEF Beginnings, Statuses, RowsFit
  <2>3. CASE page # "group" /\ page # "keys"
    BY <2>3 DEF Beginnings, Statuses, RowsFit
  <2> QED BY <2>1, <2>2, <2>3
<1>3. \A u \in People : rows[u] \in Rows /\ RowsFit(rows[u].has) /\ rows[u].term = 0
  <2>1. \A r \in [has : Beginnings, term : {0}] : r \in Rows /\ r.has \in Beginnings /\ r.term = 0
    BY <1>2, ClicksAre DEF Rows
  <2> QED BY <1>1, <1>2, <2>1
<1>4. AccessPagesTypeOK
  <2>1. PICK b \in BOOLEAN : b = FALSE
    OBVIOUS
  <2>2. stale = b
    BY <1>1, <2>1
  <2>3. rows \in [People -> Rows] /\ list \in [People -> Rows]
    BY <1>1, <1>3
  <2>4. clicks \in 0..MaxClicks /\ others \in 0..MaxOthers
    BY <1>1, ClicksAre
  <2>5. assigned \subseteq People
    BY <1>1 DEF ActiveAccess
  <2>6. wish \in [People -> Asks \cup {"nothing"}]
    BY <1>1
  <2> QED BY <1>1, <2>2, <2>3, <2>4, <2>5, <2>6 DEF AccessPagesTypeOK
<1>5. \A u \in People : EndsFit(u) /\ KnownOf(u) /\ JudgedOf(u) /\ WishOf(u)
  BY <1>1, <1>3 DEF EndsFit, KnownOf, JudgedOf, WishOf
<1> QED BY <1>1, <1>4, <1>5 DEF AccessInv

\* A page with nothing under way shows what there is, and says who has access.
LEMMA ListedIs == AccessInv => ListedForCause
<1> SUFFICES ASSUME AccessInv, Settled, NEW u \in People \ excused
             PROVE  /\ list[u] = rows[u]
                    /\ (u \in assigned) # (u \in ActiveAccess(rows)) => u \in Overdue
  BY DEF ListedForCause
<1>1. KnownOf(u) /\ JudgedOf(u) /\ sent = {} /\ ~stale
  BY DEF AccessInv, Settled
<1>2. list[u] = rows[u]
  BY <1>1 DEF KnownOf
<1>3. (u \in ActiveAccess(rows)) = (u \in ActiveAccess(list))
  BY <1>2 DEF ActiveAccess, Lapsed
<1> QED BY <1>1, <1>2, <1>3 DEF JudgedOf

\* And each person has what the admin asked for.
LEMMA WishIs == AccessInv => WishDone
BY DEF AccessInv, WishOf, WishDone, Settled

\* A call that is refused was offered by a list that was not that of the rows, or for a grant
\* that finds the row of a request.
LEMMA RefusalStep ==
  ASSUME AccessInv, [AccessPagesNext]_accessPageVars, NEW b \in sent, NEW c \in sent',
         b.id = c.id, b.answer = "none", c.answer = "refused"
  PROVE  \/ c.saw # rows[c.who]
         \/ c.what = "grant" /\ \/ rows[c.who].has \cap {"pending", "denied"} # {}
                                \/ Lapsed(rows, c.who)
<1>1. AccessPagesTypeOK /\ CallFits(b) /\ b \in AskSent
  BY DEF AccessInv, AccessPagesTypeOK
<1>2. c \notin sent
  BY <1>1 DEF CallFits
<1>3. ASSUME NEW u \in People, NEW what \in Asks, Click(u, what) PROVE FALSE
  <2>1. c = [id |-> clicks', who |-> u, what |-> what, saw |-> list[u], here |-> TRUE, answer |-> "none"]
    BY <1>2, <1>3 DEF Click
  <2> QED BY <2>1
<1>4. ASSUME VisitAgain PROVE FALSE
  <2>1. PICK d \in sent : c = [d EXCEPT !.here = FALSE]
    BY <1>4 DEF VisitAgain
  <2>2. d \in AskSent
    BY <1>1 DEF AccessPagesTypeOK
  <2>3. PICK e \in BOOLEAN : e = FALSE
    OBVIOUS
  <2>4. c = [d EXCEPT !.here = e]
    BY <2>1, <2>3
  <2>5. c.id = d.id /\ c.answer = d.answer
    BY <2>2, <2>4 DEF AskSent
  <2>6. d = b
    BY <1>1, <2>5 DEF CallFits
  <2> QED BY <2>5, <2>6
<1>5. ASSUME NEW d \in sent, AnswerClick(d) \/ LoseClick(d) PROVE FALSE
  BY <1>2, <1>5 DEF AnswerClick, LoseClick
<1>6. ~ReadAgain /\ ~UNCHANGED accessPageVars /\ \A u \in People : ~OthersChange(u) /\ ~Lapse(u)
  BY <1>2 DEF ReadAgain, accessPageVars, OthersChange, Lapse
<1>7. PICK d \in sent : ServeAsk(d)
  BY <1>3, <1>4, <1>5, <1>6 DEF AccessPagesNext
<1>8. PICK u \in People : u = d.who
  BY DEF AccessInv, AccessPagesTypeOK, AskSent
<1>9. PICK w \in Asks : w = d.what
  BY DEF AccessInv, AccessPagesTypeOK, AskSent
<1>10. PICK h \in SUBSET Statuses : h = rows[u].has
  BY <1>1, AccessTypes
<1>11. PICK a \in {"done", "refused"} : a = IF RowsAllow(w, h) THEN "done" ELSE "refused"
  OBVIOUS
<1>12. c = [d EXCEPT !.answer = a]
  BY <1>2, <1>7, <1>8, <1>9, <1>10, <1>11 DEF ServeAsk
<1>13. d \in AskSent
  BY <1>1 DEF AccessPagesTypeOK
<1>14. c.id = d.id /\ c.who = u /\ c.what = w /\ c.saw = d.saw /\ c.answer = a
  BY <1>8, <1>9, <1>12, <1>13 DEF AskSent
<1>15. ~RowsAllow(w, h) /\ CallFits(d)
  BY <1>11, <1>14 DEF AccessInv
<1>16. SUFFICES ASSUME c.saw = rows[u]
                PROVE  w = "grant" /\ (h \cap {"pending", "denied"} # {} \/ Lapsed(rows, u))
  BY <1>10, <1>14
<1>17. d.saw.has = h
  BY <1>10, <1>14, <1>16
<1>18. w = "grant"
  <2>1. w \in {"approve", "deny"} => "pending" \in h
    BY <1>9, <1>15, <1>17 DEF CallFits
  <2>2. w = "remove" => "member" \in h
    BY <1>9, <1>15, <1>17 DEF CallFits
  <2> QED BY <1>15, <2>1, <2>2, AllowedIs DEF Asks
<1>19. PICK s \in Statuses : s \in h /\ s # "revoked"
  BY <1>15, <1>18, AllowedIs
<1>20. page = "account" /\ "lasting" \notin h /\ ("timed" \in h => <<u, rows[u].term>> \in lapsed)
  BY <1>8, <1>9, <1>14, <1>15, <1>16, <1>17, <1>18 DEF CallFits
<1>21. "member" \notin h
  BY <1>10, <1>20 DEF AccessInv, EndsFit, RowsFit
<1> QED BY <1>18, <1>19, <1>20, <1>21 DEF Statuses, Lapsed

\* In every state the page shows and does what the admin asked, but for what is named, and what
\* it offers is refused for a cause.
THEOREM AccessHolds ==
  AccessPagesSpec => [](AccessPagesTypeOK /\ ListedForCause /\ WishDone) /\ OfferedIsAllowed
<1>1. AccessInv /\ [AccessPagesNext]_accessPageVars =>
        [\A b \in sent, c \in sent' :
           b.id = c.id /\ b.answer = "none" /\ c.answer = "refused" =>
             \/ c.saw # rows[c.who]
             \/ c.what = "grant" /\ \/ rows[c.who].has \cap {"pending", "denied"} # {}
                                    \/ Lapsed(rows, c.who)]_accessPageVars
  BY RefusalStep
<1>2. AccessInv => AccessPagesTypeOK /\ ListedForCause /\ WishDone
  BY ListedIs, WishIs DEF AccessInv
<1> QED BY <1>1, <1>2, AccessStarts, AccessSteps, PTL DEF AccessPagesSpec, OfferedIsAllowed
-----------------------------------------------------------------------------
(* The handles and the pages together *)

\* A step of one part leaves the others as they are.
LEMMA DatabasesStep ==
  [DatabasesNext]_databaseVars =>
    /\ [EditDialogNext]_editDialogVars /\ [AddNext]_addVars /\ [AccessPagesNext]_accessPageVars
<1> SUFFICES ASSUME [DatabasesNext]_databaseVars
             PROVE  /\ EditDialogNext \/ UNCHANGED editDialogVars
                    /\ AddNext \/ UNCHANGED addVars
                    /\ AccessPagesNext \/ UNCHANGED accessPageVars
  OBVIOUS
<1> QED BY Zenon DEF DatabasesNext, databaseVars

\* A form sends what its user saw or typed, what it made is told to the one who made it, and a
\* page that gives access shows and does what the admin asked, but for what is named.
THEOREM SavedForCauseHolds == DatabasesSpec => SavedForCause
<1>1. DatabasesSpec => EditDialogInit /\ AddInit /\ AccessPagesInit
  BY DEF DatabasesSpec, DatabasesInit
<1>2. DatabasesSpec => [][EditDialogNext]_editDialogVars /\ [][AddNext]_addVars /\ [][AccessPagesNext]_accessPageVars
  BY DatabasesStep, PTL DEF DatabasesSpec
<1>3. EditDialogSpec <=> EditDialogInit /\ [][EditDialogNext]_editDialogVars
  BY DEF EditDialogSpec
<1>4. AddSpec <=> AddInit /\ [][AddNext]_addVars
  BY DEF AddSpec
<1>5. AccessPagesSpec <=> AccessPagesInit /\ [][AccessPagesNext]_accessPageVars
  BY DEF AccessPagesSpec
<1> QED BY <1>1, <1>2, <1>3, <1>4, <1>5, DialogsHold, AddHolds, AccessHolds, PTL DEF SavedForCause
=============================================================================
