---------------------------- MODULE StarredItems ----------------------------
(***************************************************************************)
(* The tables and rows of an account that are starred (useStarredStore.ts) *)
(* and the buttons that star them.                                         *)
(*                                                                         *)
(* Each browser tab has a store of its own, filled from localStorage when  *)
(* the workbench is opened, and every change writes the whole list back.   *)
(* The button of a table or of a row's details reads the store when it is  *)
(* drawn and is not drawn again when the store changes: it has taken the   *)
(* store's functions, which never change (TableToolbar.tsx:82).  The tree  *)
(* asks the store when it is clicked.                                      *)
(***************************************************************************)
EXTENDS Naturals

CONSTANTS
  Items,      \* what may be starred
  Tabs,       \* browser tabs with the same account open
  MaxToggles  \* bound on the clicks

ASSUME StarsAssumption == MaxToggles \in Nat

VARIABLES
  stars,    \* the stars of each tab's store: how many an item has
  drawn,    \* the items whose button says Unstar
  persisted,   \* what localStorage holds
  toggles,
  doubled,  \* items starred by a button that did not know they were
  missed    \* for each tab the items that changed in localStorage since it read it

starVars == <<stars, drawn, persisted, toggles, doubled, missed>>

Bags == [Items -> 0..MaxToggles]
NoStars == [x \in Items |-> 0]
HasStar(t, x) == stars[t][x] > 0

StarsTypeOK ==
  /\ stars \in [Tabs -> Bags] /\ persisted \in Bags
  /\ drawn \in [Tabs -> SUBSET Items] /\ missed \in [Tabs -> SUBSET Items]
  /\ doubled \subseteq Items /\ toggles \in 0..MaxToggles

StarsInit ==
  /\ stars = [t \in Tabs |-> NoStars] /\ persisted = NoStars
  /\ drawn = [t \in Tabs |-> {}] /\ toggles = 0
  /\ doubled = {} /\ missed = [t \in Tabs |-> {}]
-----------------------------------------------------------------------------
\* Mutant: the stored list is left alone when the last star is gone
PersistSome(t, bag) ==
  /\ toggles < MaxToggles /\ toggles' = toggles + 1
  /\ stars' = [stars EXCEPT ![t] = bag]
  /\ persisted' = IF bag = NoStars THEN persisted ELSE bag
  /\ missed' = [u \in Tabs |-> IF u = t THEN {}
                               ELSE missed[u] \cup {x \in Items : persisted'[x] # persisted[x]}]
  /\ UNCHANGED drawn

(* persist: a change of the store replaces what is stored, whoever stored it *)
Persist(t, bag) ==
  /\ toggles < MaxToggles /\ toggles' = toggles + 1
  /\ stars' = [stars EXCEPT ![t] = bag]
  /\ persisted' = bag
  /\ missed' = [u \in Tabs |-> IF u = t THEN {}
                               ELSE missed[u] \cup {x \in Items : bag[x] # persisted[x]}]
  /\ UNCHANGED drawn

AddStar(t, x) == Persist(t, [stars[t] EXCEPT ![x] = @ + 1])

(* By its id: of two stars of an item one is left *)
RemoveStar(t, x) == Persist(t, [stars[t] EXCEPT ![x] = @ - 1])

(* handleToggleStar and handleToggleRowStar do what the button said when it was drawn *)
ToggleStar(t, x) ==
  /\ doubled' = IF x \notin drawn[t] /\ HasStar(t, x) THEN doubled \cup {x} ELSE doubled
  /\ IF x \in drawn[t] THEN HasStar(t, x) /\ RemoveStar(t, x) ELSE AddStar(t, x)

\* Mutant: the tree, too, goes by what it drew
ToggleAsDrawn(t, x) ==
  /\ IF x \in drawn[t] THEN HasStar(t, x) /\ RemoveStar(t, x) ELSE AddStar(t, x)
  /\ UNCHANGED doubled

ToggleInTree(t, x) ==
  /\ IF HasStar(t, x) THEN RemoveStar(t, x) ELSE AddStar(t, x)
  /\ UNCHANGED doubled

(* The list of stars is drawn whenever the store changes *)
Unstar(t, x) == HasStar(t, x) /\ RemoveStar(t, x) /\ UNCHANGED doubled
ClearStars(t) == stars[t] # NoStars /\ Persist(t, NoStars) /\ UNCHANGED doubled

(* A query has ended, another row is selected: the buttons are drawn again *)
DrawAgain(t) ==
  /\ drawn' = [drawn EXCEPT ![t] = {x \in Items : HasStar(t, x)}]
  /\ UNCHANGED <<stars, persisted, toggles, doubled, missed>>

(* createStarredStore: the workbench is opened, or opened again *)
OpenWorkbench(t) ==
  /\ stars' = [stars EXCEPT ![t] = persisted]
  /\ drawn' = [drawn EXCEPT ![t] = {x \in Items : persisted[x] > 0}]
  /\ missed' = [missed EXCEPT ![t] = {}]
  /\ UNCHANGED <<persisted, toggles, doubled>>

StarsNext ==
  \E t \in Tabs :
    \/ \E x \in Items : ToggleStar(t, x) \/ ToggleInTree(t, x) \/ Unstar(t, x)
    \/ ClearStars(t) \/ DrawAgain(t) \/ OpenWorkbench(t)
-----------------------------------------------------------------------------
\* What a tab shows as starred is what is stored, but for what another tab has changed since it
\* was opened: a star that another tab set is lost with the next change here, and one that it
\* removed comes back.
ShownIsStored ==
  \A t \in Tabs, x \in Items : stars[t][x] = persisted[x] \/ x \in missed[t]

\* An item is starred once, and gone when it is unstarred, unless a button was clicked that had
\* not been drawn since the item was starred: then it is starred twice, and one Unstar leaves a
\* star behind (TableToolbar.tsx:128, DetailsPane.tsx:105).
StarredOnce ==
  \A t \in Tabs, x \in Items : stars[t][x] <= 1 \/ x \in doubled
=============================================================================
