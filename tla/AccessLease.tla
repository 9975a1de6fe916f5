---------------------------- MODULE AccessLease ----------------------------
(***************************************************************************)
(* What an access row promises: it gives access from some moment on, until *)
(* some moment, and never again.  Any number of rows may move at once, as  *)
(* when the clock passes several end dates.                                *)
(***************************************************************************)
CONSTANT RowIds

VARIABLE phase

Phases == {"before", "during", "after"}

\* The phases a row in phase p may be in later
Later(p) == CASE p = "before" -> Phases
              [] p = "during" -> {"during", "after"}
              [] OTHER -> {"after"}

Init == phase = [i \in RowIds |-> "before"]

Next == phase' \in [RowIds -> Phases] /\ \A i \in RowIds : phase'[i] \in Later(phase[i])

Spec == Init /\ [][Next]_phase
=============================================================================
