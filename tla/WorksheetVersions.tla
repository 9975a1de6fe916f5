--------------------------- MODULE WorksheetVersions ---------------------------
(***************************************************************************)
(* The versions of one worksheet, as saves add to them and cull them.      *)
(*   api/workbench/utils.py create_worksheet_version,                      *)
(*   cull_worksheet_versions                                               *)
(* Of a version, its age and whether it is the worksheet's first.          *)
(***************************************************************************)
EXTENDS Naturals, Sequences, FiniteSetsExt

CONSTANT MaxVersions  \* max_versions: 10

\* No fewer than what culling keeps: the newest three, one for each of three spans, the oldest
ASSUME MaxVersionsAssumption == MaxVersions \in Nat /\ MaxVersions >= 7

\* The spans of the buckets: within the hour, the day, the week.  Older is within none.
Spans == 1 .. 3
Older == 4

VARIABLE versionList  \* the versions, the newest first

HistoryTypeOK ==
  /\ versionList \in Seq([age : 1 .. Older, first : BOOLEAN])
  /\ \A i, j \in DOMAIN versionList : i < j => versionList[i].age <= versionList[j].age

HistoryInit == versionList = <<[age |-> 1, first |-> TRUE]>>
-----------------------------------------------------------------------------
\* Mutant: the buckets look among all versions, so the newest three are found again
FillOnce(list, span, keep) ==
  LET within == {i \in DOMAIN list : list[i].age <= span}
  IN  IF within = {} THEN keep ELSE keep \cup {Min(within)}

\* The most recent one within the span that is not kept yet
Fill(list, span, keep) ==
  LET within == {i \in DOMAIN list \ keep : list[i].age <= span}
  IN  IF within = {} THEN keep ELSE keep \cup {Min(within)}

\* Mutant: without the oldest
KeptNewest(list) == Fill(list, 3, Fill(list, 2, Fill(list, 1, {i \in DOMAIN list : i <= 3})))

\* keep_ids: the newest three, one for each bucket, the oldest
Kept(list) == Fill(list, 3, Fill(list, 2, Fill(list, 1, {i \in DOMAIN list : i <= 3}))) \cup {Len(list)}

\* Mutant: however few would stay
DeletedAll(list) == DOMAIN list \ Kept(list)

\* delete_ids: the rest, or where too few would stay as many of it as there are too many, the
\* newest of it first
Deleted(list) ==
  LET rest == DOMAIN list \ Kept(list)
      surplus == Len(list) - MaxVersions
  IN  IF Cardinality(Kept(list)) < MaxVersions \div 2
      THEN {i \in rest : Cardinality({j \in rest : j < i}) < surplus}
      ELSE rest

Cull(list) ==
  IF Len(list) <= MaxVersions THEN list
  ELSE LET gone == Deleted(list)
       IN  [k \in 1 .. (Len(list) - Cardinality(gone)) |->
              list[CHOOSE i \in DOMAIN list \ gone : Cardinality({j \in DOMAIN list \ gone : j <= i}) = k]]

\* create_worksheet_version
Keep == versionList' = Cull(<<[age |-> 1, first |-> FALSE]>> \o versionList)

\* Time passes, for the older ones first
Grow(i) ==
  /\ versionList[i].age < Older
  /\ \A j \in DOMAIN versionList : j > i => versionList[j].age > versionList[i].age
  /\ versionList' = [versionList EXCEPT ![i].age = @ + 1]

HistoryNext == Keep \/ \E i \in DOMAIN versionList : Grow(i)

HistorySpec == HistoryInit /\ [][HistoryNext]_versionList
-----------------------------------------------------------------------------
(* What may be expected of it *)

\* However often it is culled, the history ends with the worksheet's first version, and has
\* no more versions than it may.
FirstStays ==
  /\ Len(versionList) <= MaxVersions
  /\ \A i \in DOMAIN versionList : versionList[i].first <=> i = Len(versionList)

\* A save leaves the two that were the newest; for each span that had a version before them
\* one such version; and no fewer than half of what there may be once there were as many.
SpansStay ==
  [][Keep =>
       /\ \A i \in 1 .. 2 : i <= Len(versionList) => versionList'[i + 1] = versionList[i]
       /\ \A span \in Spans :
            (\E i \in DOMAIN versionList : i >= 3 /\ versionList[i].age <= span) =>
            \E i \in DOMAIN versionList' : i > 3 /\ versionList'[i].age <= span
       /\ Len(versionList) >= MaxVersions \div 2 => Len(versionList') >= MaxVersions \div 2]_versionList
=============================================================================
