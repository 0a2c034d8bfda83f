----------------------------- MODULE GuiFilters -----------------------------
(***************************************************************************)
(* The grid's filters: FilterProxy (pfgui/model.py), the per-column popup  *)
(* (pfgui/filterpopup.py) and the parts of MainWindow (pfgui/__main__.py)  *)
(* that drive them - search box, "Tagged only" check box, header glyphs,   *)
(* saved views, and load(), which replaces the rows under all of them.     *)
(*                                                                         *)
(* The widgets and the proxy are two copies of one state.  Qt emits        *)
(* textChanged and toggled only when the widget's value really changes;    *)
(* that is external and modelled where the code relies on it.              *)
(***************************************************************************)
EXTENDS Naturals, FiniteSets

CONSTANTS
  Rows,            \* source files that may become rows
  Folders,         \* the row sets a load may bring in
  Columns, TagCol, \* grid columns; TagCol shows the analyst's tag
  Values,          \* cell texts of the other columns
  Cell,            \* row -> column -> cell text
  Terms,           \* search texts, stripped and in lower case
  Typings, Strip,  \* other texts an analyst types, and what set_search makes of them
  Words,           \* row -> search texts its cells contain
  Views,           \* names of saved views
  NoText, NoFilter, NoPopup, NoFolder, Blank, Star,
  MaxLoads         \* bound on the loads

ASSUME GuiAssumption ==
  /\ TagCol \in Columns
  /\ Cell \in [Rows -> [Columns -> Values]]
  /\ Words \in [Rows -> SUBSET Terms]
  /\ NoText \notin Terms \cup Typings
  /\ Terms \cap Typings = {}
  /\ \A s \in SUBSET (Values \cup {Blank, Star}) : NoFilter # s
  /\ Strip \in [Typings -> Terms \cup {NoText}]
  /\ Folders \subseteq SUBSET Rows
  /\ MaxLoads \in Nat

Texts == Terms \cup {NoText}

\* set_search: text.strip().lower().
Searched(text) == IF text \in Typings THEN Strip[text] ELSE text

Cells == Values \cup {Blank, Star}

VARIABLES
  rows,      \* model.rows
  tagged,    \* rows that carry a tag
  allowed,   \* proxy.allowed: column -> permitted values, or NoFilter
  search,    \* proxy.search
  tagOnly,   \* proxy.tagged_only
  box,       \* text in the search box
  check,     \* state of the "Tagged only" check box
  marked,    \* columns whose header shows the active-filter glyph
  popup,     \* the open FilterPopup, or NoPopup
  saved,     \* QSettings "saved_views": name -> view, or NoFilter
  loading,   \* the folder load() is parsing, or NoFolder
  loads      \* loads begun (bounded)

proxy   == <<allowed, search, tagOnly>>
widgets == <<box, check, marked>>
vars    == <<rows, tagged, proxy, widgets, popup, saved, loading, loads>>

-----------------------------------------------------------------------------
\* row.get(key): the tag column is the only one the analyst changes.
Shown(r, c) == IF c = TagCol THEN (IF r \in tagged THEN Star ELSE Blank) ELSE Cell[r][c]

ColumnAccepts(c, r) == allowed[c] = NoFilter \/ Shown(r, c) \in allowed[c]

\* _passes(row, skip_column): every restriction, save the one of columns skip.
Passes(r, skip) ==
  /\ tagOnly => r \in tagged
  /\ \A c \in Columns \ skip : ColumnAccepts(c, r)
  /\ search # NoText => search \in Words[r]

Visible == {r \in rows : Passes(r, {})}

\* Mutants of Distinct: every value of the column; the values on screen.
DistinctOfAll(c) == {Shown(r, c) : r \in rows}
DistinctOfVisible(c) == {Shown(r, c) : r \in Visible}

\* distinct_values(column): what the popup lists.
Distinct(c) == {Shown(r, c) : r \in {x \in rows : Passes(x, {c})}}

Active == {c \in Columns : allowed[c] # NoFilter}

\* A Qt.Popup takes all input until it is closed.  A load in progress does not:
\* processEvents lets every handler below run in the middle of it.
Free == popup = NoPopup

Init ==
  /\ rows = {}
  /\ tagged = {}
  /\ allowed = [c \in Columns |-> NoFilter]
  /\ search = NoText /\ tagOnly = FALSE
  /\ box = NoText /\ check = FALSE /\ marked = {}
  /\ popup = NoPopup
  /\ saved = [v \in Views |-> NoFilter]
  /\ loading = NoFolder
  /\ loads = 0

\* Typing: textChanged -> proxy.set_search.
Type(text) ==
  /\ Free
  /\ text # box
  /\ box' = text
  /\ search' = Searched(text)
  /\ UNCHANGED <<rows, tagged, allowed, tagOnly, check, marked, popup, saved, loading, loads>>

\* Clicking the check box: toggled -> proxy.set_tagged_only.
Toggle ==
  /\ Free
  /\ check' = ~check
  /\ tagOnly' = ~check
  /\ UNCHANGED <<rows, tagged, allowed, search, box, marked, popup, saved, loading, loads>>

\* Right click on a header.  Values the current filter permits come ticked.
ShowFilter(c) ==
  /\ Free
  /\ popup' = [col |-> c, listed |-> Distinct(c),
               ticked |-> IF allowed[c] = NoFilter THEN Distinct(c)
                          ELSE allowed[c] \cap Distinct(c)]
  /\ UNCHANGED <<rows, tagged, proxy, widgets, saved, loading, loads>>

\* Ticking single items, All, None and Invert on the searched subset: any
\* selection of the listed values can be reached.
Tick ==
  /\ popup # NoPopup
  /\ \E s \in SUBSET popup.listed : popup' = [popup EXCEPT !.ticked = s]
  /\ UNCHANGED <<rows, tagged, proxy, widgets, saved, loading, loads>>

\* Mutant of ApplyFilter: the headers are not marked again.
ApplyFilterUnmarked(c, values) ==
  /\ allowed' = [allowed EXCEPT ![c] = values]
  /\ UNCHANGED marked

\* set_allowed, then the headers are marked again.
ApplyFilter(c, values) ==
  /\ allowed' = [allowed EXCEPT ![c] = values]
  /\ marked' = {d \in Columns : allowed'[d] # NoFilter}

\* The popup's Apply: everything listed and ticked is emitted as "no filter".
Apply ==
  /\ popup # NoPopup
  /\ ApplyFilter(popup.col, IF popup.ticked = popup.listed THEN NoFilter ELSE popup.ticked)
  /\ popup' = NoPopup
  /\ UNCHANGED <<rows, tagged, search, tagOnly, box, check, saved, loading, loads>>

\* The popup's "Clear filter".
ClearColumn ==
  /\ popup # NoPopup
  /\ ApplyFilter(popup.col, NoFilter)
  /\ popup' = NoPopup
  /\ UNCHANGED <<rows, tagged, search, tagOnly, box, check, saved, loading, loads>>

\* A click outside closes the popup.
Dismiss ==
  /\ popup # NoPopup
  /\ popup' = NoPopup
  /\ UNCHANGED <<rows, tagged, proxy, widgets, saved, loading, loads>>

\* MainWindow._clear_filters: proxy, box, check box and headers.
ClearFilters ==
  /\ Free
  /\ allowed' = [c \in Columns |-> NoFilter]
  /\ search' = NoText /\ tagOnly' = FALSE
  /\ box' = NoText /\ check' = FALSE /\ marked' = {}
  /\ UNCHANGED <<rows, tagged, popup, saved, loading, loads>>

\* _save_view: "nothing to save" looks at column filters and search only.
SaveView(v) ==
  /\ Free
  /\ Active # {} \/ search # NoText
  /\ saved' = [saved EXCEPT ![v] = [allowed |-> allowed, search |-> search,
                                    tagOnly |-> tagOnly]]
  /\ UNCHANGED <<rows, tagged, proxy, widgets, popup, loading, loads>>

\* _apply_saved_view: the proxy is cleared, the column filters are set, and the
\* rest goes through the widgets: setText and setChecked reach the proxy only
\* if they change the widget.
ApplyView(v) ==
  LET view == saved[v] IN
  /\ Free
  /\ view # NoFilter
  /\ allowed' = view.allowed
  /\ box' = view.search
  /\ search' = IF box # view.search THEN view.search ELSE NoText
  /\ check' = view.tagOnly
  /\ tagOnly' = IF check # view.tagOnly THEN view.tagOnly ELSE FALSE
  /\ marked' = {c \in Columns : view.allowed[c] # NoFilter}
  /\ UNCHANGED <<rows, tagged, popup, saved, loading, loads>>

DeleteView(v) ==
  /\ Free
  /\ saved[v] # NoFilter
  /\ saved' = [saved EXCEPT ![v] = NoFilter]
  /\ UNCHANGED <<rows, tagged, proxy, widgets, popup, loading, loads>>

\* _tag_selected on some of the visible rows.
Tag ==
  /\ Free
  /\ \E s \in (SUBSET Visible) \ {{}} : tagged' = tagged \cup s
  /\ UNCHANGED <<rows, proxy, widgets, popup, saved, loading, loads>>

\* load() of a folder without .pf files: the rows go, the filters stay.  Which
\* tags are remembered is GuiLoad's question.
LoadWithoutFiles ==
  /\ Free
  /\ loading = NoFolder
  /\ {} \in Folders
  /\ loads < MaxLoads
  /\ rows' = {}
  /\ tagged' \in SUBSET tagged
  /\ loads' = loads + 1
  /\ UNCHANGED <<proxy, widgets, popup, saved, loading>>

\* load(): parsing begins ...
StartLoad(f) ==
  /\ Free
  /\ f # {}
  /\ loading = NoFolder
  /\ loads < MaxLoads
  /\ loading' = f
  /\ loads' = loads + 1
  /\ UNCHANGED <<rows, tagged, proxy, widgets, popup, saved>>

\* ... and ends, with every file or those before a Cancel, with new rows and
\* proxy.clear_filters(); neither the widgets nor the headers are told.
FinishLoad ==
  /\ loading # NoFolder
  /\ rows' \in (SUBSET loading) \ {{}}
  /\ allowed' = [c \in Columns |-> NoFilter]
  /\ search' = NoText /\ tagOnly' = FALSE
  /\ loading' = NoFolder
  /\ UNCHANGED <<tagged, widgets, popup, saved, loads>>

\* The window is closed and opened again: saved views are in QSettings, the
\* rows, tags and filters are not.
Restart ==
  /\ Free
  /\ loading = NoFolder
  /\ rows' = {} /\ tagged' = {}
  /\ allowed' = [c \in Columns |-> NoFilter]
  /\ search' = NoText /\ tagOnly' = FALSE
  /\ box' = NoText /\ check' = FALSE /\ marked' = {}
  /\ UNCHANGED <<popup, saved, loading, loads>>

Next ==
  \/ \E t \in Texts \cup Typings : Type(t)
  \/ Toggle
  \/ \E c \in Columns : ShowFilter(c)
  \/ Tick \/ Apply \/ ClearColumn \/ Dismiss
  \/ ClearFilters
  \/ \E v \in Views : SaveView(v) \/ ApplyView(v) \/ DeleteView(v)
  \/ Tag
  \/ \E f \in Folders : StartLoad(f)
  \/ LoadWithoutFiles \/ FinishLoad
  \/ Restart

Spec == Init /\ [][Next]_vars

-----------------------------------------------------------------------------
Filters  == [Columns -> (SUBSET Cells) \cup {NoFilter}]
Saveable == [allowed : Filters, search : Texts, tagOnly : BOOLEAN]
Popups   == [col : Columns, listed : SUBSET Cells, ticked : SUBSET Cells]

TypeOK ==
  /\ rows \subseteq Rows /\ tagged \subseteq Rows
  /\ allowed \in Filters /\ search \in Texts /\ tagOnly \in BOOLEAN
  /\ box \in Texts \cup Typings /\ check \in BOOLEAN /\ marked \subseteq Columns
  /\ popup \in Popups \cup {NoPopup}
  /\ saved \in [Views -> Saveable \cup {NoFilter}]
  /\ loading \in Folders \cup {NoFolder}
  /\ loads \in 0 .. MaxLoads

\* No row is hidden by a restriction the window does not show: what the proxy
\* filters by is in the box, in the check box or marked in a header.
NoHiddenFilter ==
  /\ search # NoText => Searched(box) = search
  /\ tagOnly => check
  /\ Active \subseteq marked

\* The popup still lists what the grid could show: no load replaced the rows
\* under it since it was opened.
UpToDate == popup.listed = Distinct(popup.col)

\* filterpopup.py:8 "the list shows values available under the other columns'
\* filters, so nothing offered here can produce an empty result".
OfferedValuesMatch ==
  [][Apply /\ UpToDate /\ popup.ticked # {} => Visible' # {}]_vars

\* Apply shows exactly the rows that pass every other restriction and whose
\* value was ticked, also when it drops the filter because all were ticked.
ApplyShowsTicked ==
  [][Apply /\ UpToDate =>
       Visible' = {r \in rows : Passes(r, {popup.col}) /\
                                Shown(r, popup.col) \in popup.ticked}]_vars

=============================================================================
