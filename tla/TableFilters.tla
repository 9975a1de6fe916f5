---------------------------- MODULE TableFilters -----------------------------
(***************************************************************************)
(* What the rows of a table tab are filtered by, and which page of them is *)
(* asked for: the filters its tab was opened with, the chips of the        *)
(* toolbar, the raw SQL, and the query that was built last.                *)
(*   frontend/src/workbench/tabs/controllers/openTableTab.ts               *)
(*   frontend/src/workbench/tabs/TableTab/state/TableTabContext.tsx        *)
(*   frontend/src/workbench/tabs/TableTab/components/filters/              *)
(*   frontend/src/workbench/tabs/TableTab/components/Pagination*.tsx       *)
(* TableTab has the answers; here only what is asked for matters.  What a  *)
(* condition means is FilterSql.                                           *)
(***************************************************************************)
EXTENDS Naturals, SequencesExt

CONSTANTS
  Conditions,  \* a column, an operator and a value
  RawTexts,    \* WHERE clauses typed in
  MaxChips,    \* chips of the toolbar
  LastPage     \* pages by their number from 0

ASSUME FiltersAssumption == MaxChips \in Nat /\ LastPage \in Nat

NoRaw == "no raw SQL"
ManualPage == LastPage + 1  \* a LIMIT and an OFFSET of one's own stand in for a page

Modes == {"all", "any"}
Chips == BoundedSeq(Conditions, MaxChips)
Pages == 0 .. LastPage
Query == [filters : Chips, raw : RawTexts \cup {NoRaw}, mode : Modes, page : Pages \cup {ManualPage}]

VARIABLES
  config,   \* the tab's filters in useTabsStore
  mounted,  \* whether the tab has fetched
  chips, raw, mode,  \* the store: filters, rawSqlWhere, filterMode
  page,     \* the store: currentPage, or limitOffset
  query,    \* the SQL that was built last
  counting, \* fetchData waits for the row count before it builds its SQL
  wanted,   \* the filters that were last asked for, in the toolbar or by opening the table
  excuse    \* why the tab may not show or ask for them: some of "emptied", "repeated", "raw", "turned"

filtersVars == <<config, mounted, chips, raw, mode, page, query, counting, wanted, excuse>>

FiltersTypeOK ==
  /\ config \in Chips /\ mounted \in BOOLEAN
  /\ chips \in Chips /\ raw \in RawTexts \cup {NoRaw} /\ mode \in Modes
  /\ page \in Pages \cup {ManualPage}
  /\ query \in Query /\ counting \in BOOLEAN
  /\ wanted \in Chips
  /\ excuse \subseteq {"emptied", "repeated", "raw", "turned"}

FiltersInit ==
  /\ config \in Chips /\ chips = config /\ wanted = config
  /\ mounted = FALSE
  /\ raw = NoRaw /\ mode = "all" /\ page = 0
  /\ query = [filters |-> <<>>, raw |-> NoRaw, mode |-> "all", page |-> 0]
  /\ counting = FALSE /\ excuse = {}
-----------------------------------------------------------------------------
\* Mutant: without the raw SQL
FetchCounting(filters, where, m, p) ==
  /\ counting' = (p # ManualPage /\ filters = <<>>)
  /\ query' = IF counting' THEN query
              ELSE [filters |-> filters, raw |-> where, mode |-> m, page |-> p]

\* fetchData: without a filter the count comes first, and the SQL is built when it is there
Fetch(filters, where, m, p) ==
  /\ counting' = (p # ManualPage /\ filters = <<>> /\ where = NoRaw)
  /\ query' = IF counting' THEN query
              ELSE [filters |-> filters, raw |-> where, mode |-> m, page |-> p]

Counted ==
  /\ counting /\ counting' = FALSE
  /\ query' = [filters |-> <<>>, raw |-> NoRaw, mode |-> mode, page |-> page]
  /\ excuse' = excuse \ {"turned"}
  /\ UNCHANGED <<config, mounted, chips, raw, mode, page, wanted>>

\* The first effect fetches, and so does the second if there are filters
MountTab ==
  /\ ~mounted /\ mounted' = TRUE
  /\ Fetch(config, NoRaw, mode, page)
  /\ UNCHANGED <<config, chips, raw, mode, page, wanted, excuse>>

\* Mutant: the store keeps the chips it has
OpenAgainKeeping(filters) ==
  /\ mounted
  /\ config' = filters /\ wanted' = filters /\ excuse' = {}
  /\ Fetch(filters, NoRaw, mode, page)
  /\ UNCHANGED <<mounted, chips, raw, mode, page>>

\* openTableTab finds the tab open and resets its filters; the effect on them does nothing
\* when there are none, or when they are those of the last time
OpenAgain(filters) ==
  /\ mounted
  /\ config' = filters /\ wanted' = filters
  /\ IF filters # <<>> /\ filters # config
     THEN /\ chips' = filters
          /\ Fetch(filters, NoRaw, mode, page)
          /\ excuse' = IF raw # NoRaw THEN {"raw"} ELSE {}
     ELSE /\ excuse' = excuse \cup {IF filters = <<>> THEN "emptied" ELSE "repeated"}
          /\ UNCHANGED <<chips, query, counting>>
  /\ UNCHANGED <<mounted, raw, mode, page>>

\* The chips and the raw SQL become these, and the rows are fetched for them
Apply(filters, where, m) ==
  /\ mounted
  /\ chips' = filters /\ raw' = where /\ mode' = m
  /\ Fetch(filters, where, m, page)
  /\ wanted' = filters /\ excuse' = {}
  /\ UNCHANGED <<config, mounted, page>>

AddFilter(c) == Len(chips) < MaxChips /\ Apply(Append(chips, c), raw, mode)
UpdateFilter(i, c) == Apply([chips EXCEPT ![i] = c], raw, mode)

\* Mutant: fetching without looking at the chips that are left
RemoveFilterLate(i) ==
  /\ mounted
  /\ chips' = RemoveAt(chips, i) /\ wanted' = chips' /\ excuse' = {}
  /\ Fetch(chips, raw, mode, page)
  /\ UNCHANGED <<config, mounted, raw, mode, page>>

RemoveFilter(i) == Apply(RemoveAt(chips, i), raw, mode)

ApplyRawSql(text) == Apply(chips, text, mode)

RemoveRawSql == raw # NoRaw /\ Apply(chips, NoRaw, mode)
ClearFilters == (chips # <<>> \/ raw # NoRaw) /\ Apply(<<>>, NoRaw, mode)
SetFilterMode(m) == Apply(chips, raw, m)

\* The refresh button
Refresh ==
  /\ mounted
  /\ Fetch(chips, raw, mode, page)
  /\ excuse' = excuse \ {"raw", "turned"}
  /\ UNCHANGED <<config, mounted, chips, raw, mode, page, wanted>>

\* Mutant: the page as it is shown, from 1
SetPageShown(p) ==
  /\ mounted
  /\ page' = p + 1
  /\ excuse' = excuse \cup {"turned"}
  /\ UNCHANGED <<config, mounted, chips, raw, mode, query, counting, wanted>>

\* The page buttons, the page popover and the LIMIT popover; nothing is fetched for it
SetPage(p) ==
  /\ mounted
  /\ page' = p
  /\ excuse' = excuse \cup {"turned"}
  /\ UNCHANGED <<config, mounted, chips, raw, mode, query, counting, wanted>>

FiltersNext ==
  \/ MountTab \/ Counted \/ Refresh \/ RemoveRawSql \/ ClearFilters
  \/ \E filters \in Chips : OpenAgain(filters)
  \/ \E c \in Conditions : AddFilter(c) \/ \E i \in DOMAIN chips : UpdateFilter(i, c)
  \/ \E i \in DOMAIN chips : RemoveFilter(i)
  \/ \E text \in RawTexts : ApplyRawSql(text)
  \/ \E m \in Modes : SetFilterMode(m)
  \/ \E p \in Pages \cup {ManualPage} : SetPage(p)

FiltersSpec == FiltersInit /\ [][FiltersNext]_filtersVars
-----------------------------------------------------------------------------
(* What may be expected of it *)

\* The rows that were asked for are those of the chips, the raw SQL and the page that are
\* shown, but for a page that was turned since, for which nothing is fetched, and for a tab
\* that was opened again with filters while it had raw SQL: that chip stays and is not applied.
AskedAsShown ==
  mounted /\ ~counting =>
    /\ query.filters = chips
    /\ Len(chips) > 1 => query.mode = mode
    /\ query.raw = raw \/ "raw" \in excuse
    /\ query.page = page \/ "turned" \in excuse

\* A table shows the filters it was last asked to show, but for two ways of opening it
\* again: without filters, or with those it was opened with before.
WantedIsShown == chips = wanted \/ excuse \cap {"emptied", "repeated"} # {}

\* While the row count is waited for there is no filter that the count would be wrong for.
CountedIsWhole == counting => chips = <<>> /\ (raw = NoRaw \/ "raw" \in excuse)
=============================================================================
