----------------------------- MODULE WorkbenchTabs ---------------------------
(***************************************************************************)
(* The tabs of the workbench: how they are opened from the sidebar, the    *)
(* toolbar and the stars, previewed, pinned, closed, and what becomes of   *)
(* the work in them that is not saved yet.                                 *)
(*   frontend/src/workbench/tabs/useTabsStore.ts, tabs/controllers/        *)
(*   frontend/src/workbench/layout/ResultPane.tsx                          *)
(*   frontend/src/workbench/features/schema-browser/ResourcePane.tsx       *)
(*   frontend/src/workbench/features/starred/StarredPane.tsx               *)
(* A tab is known by its id.  Those of tables, routines and new tables are *)
(* made of names, and those of drafts of the time.                         *)
(***************************************************************************)
EXTENDS Naturals, SequencesExt

CONSTANTS
  TableTabs,    \* "table:<schema>.<table>"
  RoutineTabs,  \* "routine:<schema>.<name>:<type>"
  DesignTabs,   \* "new-table:<schema>"
  LastTime      \* "draft:<time>" has a time from 1 to this one

ASSUME TabsAssumption == LastTime \in Nat \ {0}

NoTab == "no tab"
DraftTabs == 1 .. LastTime
TabKinds == {"table", "routine", "design", "draft"}
Descriptor(kind, id) == [kind |-> kind, id |-> id, preview |-> FALSE]
IdsOf(kind) ==
  CASE kind = "table" -> TableTabs [] kind = "routine" -> RoutineTabs
    [] kind = "design" -> DesignTabs [] kind = "draft" -> DraftTabs
Descriptors == UNION {[kind : {k}, id : IdsOf(k), preview : BOOLEAN] : k \in TabKinds}

VARIABLES
  tabs, active,  \* useTabsStore; active is a tab's kind and id
  now,           \* Date.now()
  entered,       \* whether the workbench is on the page
  unsaved,       \* tabs with changes, a text or a design that nothing has saved
  creations,     \* designs whose CREATE TABLE runs: TRUE if their tab was closed meanwhile
  last           \* what happened last, as far as the properties ask

tabsVars == <<tabs, active, now, entered, unsaved, creations, last>>

Key(t) == <<t.kind, t.id>>
TabKeys == {Key(t) : t \in ToSet(tabs)}
NoKey == <<"none", NoTab>>
Previews == {Key(t) : t \in {u \in ToSet(tabs) : u.preview}}
IndexOf(key) == CHOOSE i \in DOMAIN tabs : Key(tabs[i]) = key

\* An id has one tab, at most one tab is a preview, and the one that is shown is there
TabsTypeOK ==
  /\ tabs \in Seq(Descriptors)
  /\ \A i, j \in DOMAIN tabs : i # j => Key(tabs[i]) # Key(tabs[j]) /\ ~(tabs[i].preview /\ tabs[j].preview)
  /\ IF tabs = <<>> THEN active = NoKey ELSE active \in TabKeys
  /\ now \in DraftTabs /\ entered \in BOOLEAN
  /\ unsaved \subseteq TabKeys
  /\ creations \in [DesignTabs -> {"none", "running", "orphan"}]

TabsInit ==
  /\ tabs = <<>> /\ active = NoKey /\ now = 1 /\ entered = TRUE
  /\ unsaved = {} /\ creations = [d \in DesignTabs |-> "none"] /\ last = "other"
-----------------------------------------------------------------------------
(* The store *)

\* addTab
AddTab(t) ==
  /\ tabs' = IF Key(t) \in TabKeys THEN tabs ELSE Append(tabs, t)
  /\ active' = Key(t)

\* Mutant: pinned or not, the tab that is shown makes room
AddPreviewOverActive(t) ==
  /\ tabs' = IF Key(t) \in TabKeys THEN tabs
             ELSE LET p == [t EXCEPT !.preview = TRUE]
                  IN  IF Previews = {} THEN Append(tabs, p) ELSE [tabs EXCEPT ![IndexOf(active)] = p]
  /\ active' = Key(t)

\* addPreviewTab: takes the place of the preview, if there is one
AddPreviewTab(t) ==
  /\ tabs' = IF Key(t) \in TabKeys THEN tabs
             ELSE LET p == [t EXCEPT !.preview = TRUE]
                  IN  IF Previews = {} THEN Append(tabs, p)
                      ELSE [i \in DOMAIN tabs |-> IF tabs[i].preview THEN p ELSE tabs[i]]
  /\ active' = Key(t)

Pinned(key) == [i \in DOMAIN tabs |-> IF Key(tabs[i]) = key THEN [tabs[i] EXCEPT !.preview = FALSE] ELSE tabs[i]]

\* An id has one tab, so to leave its tabs out is to leave out one
Without(key) == IF key \in TabKeys THEN RemoveAt(tabs, IndexOf(key)) ELSE tabs

\* Mutant: the tab that is shown stays
RemoveOnly(key) ==
  /\ tabs' = Without(key)
  /\ UNCHANGED active

\* Mutant: whether or not it is the one that is shown
RemoveAndShow(key) ==
  /\ tabs' = Without(key)
  /\ active' = IF tabs' = <<>> THEN NoKey
               ELSE IF key \in TabKeys /\ IndexOf(key) <= Len(tabs') THEN Key(tabs'[IndexOf(key)])
               ELSE Key(tabs'[Len(tabs')])

\* closeTab: the tab after it is shown instead, or the last one
RemoveTab(key) ==
  /\ tabs' = Without(key)
  /\ active' = IF active # key \/ key \notin TabKeys THEN active
               ELSE IF tabs' = <<>> THEN NoKey
               ELSE LET i == IndexOf(key) IN Key(tabs'[IF i > Len(tabs') THEN Len(tabs') ELSE i])

\* A tab that is gone has taken its work with it
Unmounts(event) ==
  /\ unsaved' = unsaved \cap {Key(t) : t \in ToSet(tabs')}
  /\ creations' = [d \in DesignTabs |->
       IF creations[d] = "running" /\ \A t \in ToSet(tabs') : Key(t) # <<"design", d>>
       THEN "orphan" ELSE creations[d]]
  /\ last' = event
  /\ UNCHANGED <<now, entered>>
-----------------------------------------------------------------------------
(* The sidebar, the toolbar and the stars *)

\* openTableTab: a click previews; a double click, the menu, the palette and a star do not.
\* A tab that is open is shown, with other filters.
OpenTable(id, preview) ==
  /\ entered
  /\ IF preview THEN AddPreviewTab(Descriptor("table", id)) ELSE AddTab(Descriptor("table", id))
  /\ Unmounts("open")

OpenRoutine(id, preview) ==
  /\ entered
  /\ IF preview THEN AddPreviewTab(Descriptor("routine", id)) ELSE AddTab(Descriptor("routine", id))
  /\ Unmounts("open")

OpenDesign(id) ==
  /\ entered /\ AddTab(Descriptor("design", id)) /\ Unmounts("open")

\* Two drafts of one millisecond are one tab
OpenDraft == entered /\ AddTab(Descriptor("draft", now)) /\ Unmounts("open")

TimePasses ==
  /\ now < LastTime /\ now' = now + 1
  /\ UNCHANGED <<tabs, active, entered, unsaved, creations, last>>

SelectTab(key) ==
  /\ entered /\ key \in TabKeys /\ active' = key /\ last' = "open"
  /\ UNCHANGED <<tabs, now, entered, unsaved, creations>>

\* The cross, the middle button, mod+w, and the Cancel of a design
CloseTab(key) == entered /\ key \in TabKeys /\ RemoveTab(key) /\ Unmounts("close")

DoubleClickTab(key) ==
  /\ entered /\ key \in Previews /\ tabs' = Pinned(key) /\ last' = "other"
  /\ UNCHANGED <<active, now, entered, unsaved, creations>>
-----------------------------------------------------------------------------
(* The work in a tab *)

\* Mutant: without the wrapper of useTableTabMutations
EditTableOnly(key) ==
  /\ entered /\ key \in TabKeys /\ key = active /\ key[1] = "table"
  /\ unsaved' = unsaved \cup {key} /\ last' = "other"
  /\ UNCHANGED <<tabs, active, now, entered, creations>>

\* Queueing a change pins the tab, and so does applying a filter
EditTable(key) ==
  /\ entered /\ key \in TabKeys /\ key = active /\ key[1] = "table"
  /\ tabs' = Pinned(key)
  /\ unsaved' \in {unsaved, unsaved \cup {key}} /\ last' = "other"
  /\ UNCHANGED <<active, now, entered, creations>>

\* A routine's text, a design and a draft are typed without a pin
TypeText(key) ==
  /\ entered /\ key \in TabKeys /\ key = active /\ key[1] # "table"
  /\ unsaved' = unsaved \cup {key} /\ last' = "other"
  /\ UNCHANGED <<tabs, active, now, entered, creations>>

\* Running a draft
RunDraft(key) ==
  /\ entered /\ key \in TabKeys /\ key = active /\ key[1] = "draft"
  /\ tabs' = Pinned(key) /\ last' = "other"
  /\ UNCHANGED <<active, now, entered, unsaved, creations>>

\* The changes of a table or the text of a routine are saved, or thrown away by a button
SaveWork(key) ==
  /\ entered /\ key \in unsaved /\ key[1] \in {"table", "routine"}
  /\ unsaved' = unsaved \ {key} /\ last' = "save"
  /\ UNCHANGED <<tabs, active, now, entered, creations>>

\* DropTableModal, when DROP TABLE has succeeded
DropTable(key) ==
  /\ entered /\ key \in TabKeys /\ key[1] = "table" /\ RemoveTab(key) /\ Unmounts("close")

\* useNewTableForm: Create
StartCreation(d) ==
  /\ entered /\ <<"design", d>> \in unsaved /\ creations[d] = "none"
  /\ creations' = [creations EXCEPT ![d] = "running"]
  /\ last' = "other"
  /\ UNCHANGED <<tabs, active, now, entered, unsaved>>

\* When it has succeeded the tab of that id is closed, whether or not it is still the same, and
\* the tab of the new table is opened, wherever the user is by then
Created(d, id) ==
  LET left == Without(<<"design", d>>)
  IN  /\ creations[d] # "none"
      /\ tabs' = IF <<"table", id>> \in TabKeys THEN left ELSE Append(left, Descriptor("table", id))
      /\ active' = <<"table", id>>
      /\ unsaved' = unsaved \ {<<"design", d>>}
      /\ creations' = [creations EXCEPT ![d] = "none"] /\ last' = "created"
      /\ UNCHANGED <<now, entered>>

NotCreated(d) ==
  /\ creations[d] # "none"
  /\ creations' = [creations EXCEPT ![d] = "none"] /\ last' = "other"
  /\ UNCHANGED <<tabs, active, now, entered, unsaved>>

\* The workbench is left: its tabs stay in the store, and what is in them does not
Exit ==
  /\ entered /\ entered' = FALSE /\ unsaved' = {} /\ last' = "exit"
  /\ creations' = [d \in DesignTabs |-> IF creations[d] = "running" THEN "orphan" ELSE creations[d]]
  /\ UNCHANGED <<tabs, active, now>>

Enter ==
  /\ ~entered /\ entered' = TRUE /\ last' = "other"
  /\ UNCHANGED <<tabs, active, now, unsaved, creations>>

TabsNext ==
  \/ \E id \in TableTabs, p \in BOOLEAN : OpenTable(id, p)
  \/ \E id \in RoutineTabs, p \in BOOLEAN : OpenRoutine(id, p)
  \/ \E d \in DesignTabs : OpenDesign(d) \/ StartCreation(d) \/ NotCreated(d)
  \/ \E d \in DesignTabs, id \in TableTabs : Created(d, id)
  \/ \E k \in TabKeys : SelectTab(k) \/ CloseTab(k) \/ DoubleClickTab(k) \/ EditTable(k) \/ TypeText(k)
                     \/ RunDraft(k) \/ SaveWork(k) \/ DropTable(k)
  \/ OpenDraft \/ TimePasses \/ Exit \/ Enter

TabsSpec == TabsInit /\ [][TabsNext]_tabsVars
-----------------------------------------------------------------------------
(* What may be expected of it *)

\* Work that is not saved is in no preview, which the next click would replace; but for the
\* text of a routine, which is typed without pinning its tab.
EditedIsPinned == \A key \in unsaved \cap Previews : key[1] = "routine"

\* What is not saved is lost one tab at a time: with its tab when that is closed, dropped
\* or created, or with the text of a routine when the next preview takes its place.  Only
\* leaving the workbench loses it all.  (A creation whose tab was closed before it ended
\* closes the tab that was opened in its place, with what was designed there.)
UnsavedKept ==
  [][unsaved \subseteq unsaved' \/ last' = "exit" \/
     \E key \in unsaved :
       /\ unsaved \ unsaved' = {key}
       /\ CASE last' = "save" -> tabs' = tabs
            [] last' = "close" -> tabs' = RemoveAt(tabs, IndexOf(key))
            [] last' = "created" -> key[1] = "design" /\ key \notin {Key(t) : t \in ToSet(tabs')}
            [] OTHER -> key[1] = "routine" /\ key \in Previews /\ last' = "open"]_tabsVars

\* Another tab is shown only when it is opened or clicked on, when the table of a design has
\* been created, or when the one that was shown is closed.
ShownIsMeant ==
  [][active' # active =>
       last' \in {"open", "created"} \/ (last' = "close" /\ active \notin {Key(t) : t \in ToSet(tabs')})]_tabsVars
=============================================================================
