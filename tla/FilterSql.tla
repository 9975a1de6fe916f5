------------------------------- MODULE FilterSql -----------------------------
(***************************************************************************)
(* One filter of a table: the editor it is made in, and the rows its       *)
(* condition keeps, by PostgreSQL and by MySQL.                            *)
(*   frontend/src/workbench/tabs/TableTab/components/filters/              *)
(*   frontend/src/workbench/types/database.ts                              *)
(*   frontend/src/workbench/lib/databases/{postgres,mysql}/queryBuilder.ts *)
(* A text is a sequence of characters.  What is typed into the editor is   *)
(* one text, chosen at the start: the others are other behaviours.         *)
(***************************************************************************)
EXTENDS Naturals, SequencesExt

CONSTANTS
  LiteralTexts  \* what a cell may hold and what may be typed

ASSUME TextsAssumption == <<>> \in LiteralTexts /\ LiteralTexts \subseteq Seq(STRING)

NoText == <<"NULL">>
FilterCategories == {"text", "integer", "json"}

\* OPERATORS_BY_CATEGORY
OperatorsOf(category) ==
  CASE category = "text" -> <<"eq", "neq", "contains", "icontains", "startsWith", "endsWith",
                              "isNull", "isNotNull", "in">>
    [] category = "integer" -> <<"eq", "neq", "gt", "gte", "lt", "lte", "isNull", "isNotNull", "in">>
    [] category = "json" -> <<"isNull", "isNotNull">>

NeedsValue(operator) == operator \notin {"isNull", "isNotNull"}

Filters ==
  UNION {[category : {c}, operator : ToSet(OperatorsOf(c)), value : LiteralTexts] : c \in FilterCategories}
NoTest == [category |-> "none", operator |-> "none", value |-> <<>>]

VARIABLES
  server,   \* of the database
  typed,    \* what the user types
  chip,     \* the filter as it was saved
  draft     \* the filter in the open editor

conditionVars == <<server, typed, chip, draft>>

FilterTypeOK ==
  /\ server \in {"postgres", "mysql"} /\ typed \in LiteralTexts
  /\ chip \in Filters \cup {NoTest} /\ draft \in Filters \cup {NoTest}
-----------------------------------------------------------------------------
(* The condition: queryBuilder.ts *)

\* A text with every x in it written twice
Doubled(x, t) == FlattenSeq([i \in DOMAIN t |-> IF t[i] = x THEN <<x, x>> ELSE <<t[i]>>])

\* A literal is read back as it was written, so a quote that is doubled once more stays double
DoubleQuotes(t) == Doubled("'", t)
DoubleSlashes(t) == Doubled("\\", t)

\* escapeLikeValue
LikeValue(t) ==
  IF ToSet(t) \cap {"%", "_"} # {} THEN t ELSE <<"%">> \o t \o <<"%">>

\* Mutant: backslashes as in PostgreSQL
EscapedAlike(sv, t) == DoubleQuotes(t)

\* The value of startsWith and endsWith before its "%": MySQL doubles backslashes too
Escaped(sv, t) == IF sv = "mysql" THEN DoubleSlashes(DoubleQuotes(t)) ELSE DoubleQuotes(t)

Trim(t) ==
  LET kept == {i \in DOMAIN t : t[i] # " "}
  IN  IF kept = {} THEN <<>> ELSE SubSeq(t, Min(kept), Max(kept))

\* The parts of a text between its commas
Parts(t) ==
  LET ends == {0, Len(t) + 1} \cup {i \in DOMAIN t : t[i] = ","}
  IN  {SubSeq(t, i + 1, Min({j \in ends : j > i}) - 1) : i \in ends \ {Len(t) + 1}}

\* formatInValues; without a value it is IN (NULL), which keeps nothing
InValues(t) == {Trim(p) : p \in Parts(t)} \ {<<>>}

\* The databases: LIKE with "\" as its escape.  from[i] are the places of the text from
\* which it matches the pattern from i on, to their ends.
Like(p, t) ==
  LET from[i \in 1 .. Len(p) + 1] ==
        IF i > Len(p) THEN {Len(t) + 1}
        ELSE IF p[i] = "%" THEN {j \in 1 .. Len(t) + 1 : \E k \in from[i + 1] : j <= k}
        ELSE IF p[i] = "\\" /\ i < Len(p)
        THEN {j \in 1 .. Len(t) : t[j] = p[i + 1] /\ j + 1 \in from[i + 2]}
        ELSE {j \in 1 .. Len(t) : (p[i] = "_" \/ t[j] = p[i]) /\ j + 1 \in from[i + 1]}
  IN  1 \in from[1]

Lower(t) == [i \in DOMAIN t |-> IF t[i] = "A" THEN "a" ELSE t[i]]

\* MySQL compares by a collation that ignores case
Compared(sv, t) == IF sv = "mysql" THEN Lower(t) ELSE t

\* buildFilterCondition: whether the condition on a text column keeps a cell
Keeps(sv, operator, v, cell) ==
  LET c(t) == Compared(sv, t) IN
  CASE operator = "isNull" -> cell = NoText
    [] operator = "isNotNull" -> cell # NoText
    [] OTHER ->
       /\ cell # NoText
       /\ CASE operator = "eq" -> c(cell) = c(v)
            [] operator = "neq" -> c(cell) # c(v)
            [] operator = "contains" -> Like(c(LikeValue(v)), c(cell))
            [] operator = "icontains" -> Like(Lower(LikeValue(v)), Lower(cell))
            [] operator = "startsWith" -> Like(c(Escaped(sv, v) \o <<"%">>), c(cell))
            [] operator = "endsWith" -> Like(c(<<"%">> \o Escaped(sv, v)), c(cell))
            [] operator = "in" -> \E w \in InValues(v) : c(cell) = c(w)
-----------------------------------------------------------------------------
(* The editor: FilterEditor.tsx, FilterChip.tsx *)

FilterInit ==
  /\ server \in {"postgres", "mysql"} /\ typed \in LiteralTexts
  /\ chip = NoTest /\ draft = NoTest

OpenNew(category) ==
  /\ draft = NoTest /\ chip = NoTest
  /\ draft' = [category |-> category, operator |-> OperatorsOf(category)[1], value |-> <<>>]
  /\ UNCHANGED <<server, typed, chip>>

OpenChip ==
  /\ draft = NoTest /\ chip # NoTest /\ draft' = chip
  /\ UNCHANGED <<server, typed, chip>>

\* Mutant: the operator always stays
ChangeColumnOnly(category) ==
  /\ draft # NoTest /\ draft' = [draft EXCEPT !.category = category]
  /\ UNCHANGED <<server, typed, chip>>

\* The operator stays if the new column has it
ChangeColumn(category) ==
  /\ draft # NoTest
  /\ draft' = [draft EXCEPT !.category = category,
       !.operator = IF @ \in ToSet(OperatorsOf(category)) THEN @ ELSE OperatorsOf(category)[1]]
  /\ UNCHANGED <<server, typed, chip>>

ChangeOperator(operator) ==
  /\ draft # NoTest /\ operator \in ToSet(OperatorsOf(draft.category))
  /\ draft' = [draft EXCEPT !.operator = operator, !.value = IF NeedsValue(operator) THEN @ ELSE <<>>]
  /\ UNCHANGED <<server, typed, chip>>

TypeValue ==
  /\ draft # NoTest /\ NeedsValue(draft.operator)
  /\ draft' = [draft EXCEPT !.value = typed]
  /\ UNCHANGED <<server, typed, chip>>

SaveFilter ==
  /\ draft # NoTest
  /\ chip' = [draft EXCEPT !.value = IF NeedsValue(draft.operator) THEN @ ELSE <<>>]
  /\ draft' = NoTest
  /\ UNCHANGED <<server, typed>>

CancelFilter ==
  /\ draft # NoTest /\ draft' = NoTest
  /\ UNCHANGED <<server, typed, chip>>

FilterNext ==
  \/ OpenChip \/ TypeValue \/ SaveFilter \/ CancelFilter
  \/ \E c \in FilterCategories : OpenNew(c) \/ ChangeColumn(c)
  \/ draft # NoTest /\ \E o \in ToSet(OperatorsOf(draft.category)) : ChangeOperator(o)

FilterSpec == FilterInit /\ [][FilterNext]_conditionVars
-----------------------------------------------------------------------------
(* What may be expected of it *)

\* What the label of an operator says of a cell
Means(sv, operator, v, cell) ==
  LET c(t) == Compared(sv, t) IN
  CASE operator = "isNull" -> cell = NoText
    [] operator = "isNotNull" -> cell # NoText
    [] operator = "eq" -> cell # NoText /\ c(cell) = c(v)
    [] operator = "neq" -> cell \notin {NoText} \cup {t \in LiteralTexts : c(t) = c(v)}
    [] OTHER ->
       /\ cell # NoText
       /\ CASE operator = "contains" -> \E i, j \in 0 .. Len(cell) : SubSeq(c(cell), i + 1, j) = c(v)
            [] operator = "icontains" ->
                 \E i, j \in 0 .. Len(cell) : SubSeq(Lower(cell), i + 1, j) = Lower(v)
            [] operator = "startsWith" -> IsPrefix(c(v), c(cell))
            [] operator = "endsWith" -> IsSuffix(c(v), c(cell))
            [] operator = "in" -> \E p \in Parts(v) : Trim(p) # <<>> /\ c(Trim(p)) = c(cell)

\* The characters by which a condition may mean something else: those of a LIKE pattern,
\* and a quote at the beginning or the end of a text, which is escaped twice.  MySQL's
\* backslashes are escaped for LIKE there, and nowhere else.
Special(sv, operator) ==
  CASE operator \in {"contains", "icontains"} -> {"%", "_", "\\"}
    [] operator \in {"startsWith", "endsWith"} ->
         {"%", "_", "'"} \cup IF sv = "postgres" THEN {"\\"} ELSE {}
    [] OTHER -> {}

\* A filter on a text column keeps the rows that its label says, unless its value has a
\* character that is special to its operator.
KeepsAsLabelled ==
  chip.category = "text" /\ draft = NoTest =>
    \/ ToSet(chip.value) \cap Special(server, chip.operator) # {}
    \/ \A cell \in LiteralTexts \cup {NoText} :
         Keeps(server, chip.operator, chip.value, cell) = Means(server, chip.operator, chip.value, cell)
=============================================================================
