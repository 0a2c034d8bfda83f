-------------------------- MODULE GuiFiltersProofs --------------------------
(***************************************************************************)
(* Safety of GuiFilters for any rows, columns, values, search texts, saved *)
(* views and loads: no row is hidden by a restriction the window does not  *)
(* show, and a popup's Apply shows exactly what was ticked in it.          *)
(***************************************************************************)
EXTENDS GuiFilters, TLAPS

USE DEF proxy, widgets

\* Only what the popup lists can be ticked in it.
TickedListed == popup # NoPopup => popup.ticked \subseteq popup.listed

IInv == TypeOK /\ TickedListed /\ NoHiddenFilter

-----------------------------------------------------------------------------
\* What the operators of the model return.

\* A cell of a loaded row holds one of the cell texts.
LEMMA ShownIsCell ==
  ASSUME GuiAssumption, NEW r \in Rows, NEW c \in Columns
  PROVE  Shown(r, c) \in Cells
BY DEF GuiAssumption, Shown, Cells

\* A popup lists cell texts.
LEMMA DistinctAreCells ==
  ASSUME GuiAssumption, TypeOK, NEW c \in Columns
  PROVE  Distinct(c) \in SUBSET Cells
BY ShownIsCell DEF Distinct, TypeOK

\* Stripping a text gives a search text, and leaves one that is one as it is.
LEMMA SearchedIsText ==
  ASSUME GuiAssumption, NEW t \in Texts \cup Typings
  PROVE  Searched(t) \in Texts /\ (t \in Texts => Searched(t) = t)
BY DEF GuiAssumption, Searched, Texts

\* The filter a popup's Apply or Clear sets is one.
LEMMA ApplyKeepsFilters ==
  ASSUME TypeOK, NEW c \in Columns, NEW values \in (SUBSET Cells) \cup {NoFilter},
         ApplyFilter(c, values)
  PROVE  allowed' \in Filters /\ marked' \in SUBSET Columns /\ Active' \subseteq marked'
BY DEF ApplyFilter, TypeOK, Filters, Active

\* An open popup is of a column, and lists cell texts.
LEMMA PopupIsPopup ==
  ASSUME TypeOK, popup # NoPopup
  PROVE  popup \in Popups /\ popup.col \in Columns /\ popup.ticked \in SUBSET Cells
         /\ popup.listed \in SUBSET Cells
BY DEF TypeOK, Popups

-----------------------------------------------------------------------------
\* Every step keeps IInv.
LEMMA InvStep ==
  ASSUME GuiAssumption, IInv, [Next]_vars
  PROVE  IInv'
<1>0. TypeOK /\ TickedListed /\ NoHiddenFilter
  BY DEF IInv
<1>1. CASE UNCHANGED vars
  BY <1>0, <1>1 DEF vars, IInv, TypeOK, TickedListed, NoHiddenFilter, Active
<1>2. ASSUME NEW t \in Texts \cup Typings, Type(t) PROVE IInv'
  <2>1. TypeOK'
    BY <1>0, <1>2, SearchedIsText DEF Type, TypeOK
  <2>2. NoHiddenFilter' /\ TickedListed'
    BY <1>0, <1>2 DEF Type, NoHiddenFilter, Active, TickedListed
  <2> QED
    BY <2>1, <2>2 DEF IInv
<1>3. CASE Toggle
  BY <1>0, <1>3 DEF Toggle, IInv, TypeOK, NoHiddenFilter, Active, TickedListed
<1>4. ASSUME NEW c \in Columns, ShowFilter(c) PROVE IInv'
  <2>1. Distinct(c) \in SUBSET Cells
    BY <1>0, DistinctAreCells
  <2>2. PICK ticked \in SUBSET Cells :
          /\ popup' = [col |-> c, listed |-> Distinct(c), ticked |-> ticked]
          /\ ticked \subseteq Distinct(c)
    <3>1. CASE allowed[c] = NoFilter
      BY <1>4, <2>1, <3>1 DEF ShowFilter
    <3>2. CASE allowed[c] # NoFilter
      <4>1. allowed[c] \cap Distinct(c) \in SUBSET Cells
        BY <2>1
      <4> QED
        BY <1>4, <3>2, <4>1 DEF ShowFilter
    <3> QED
      BY <3>1, <3>2
  <2>3. popup' \in Popups /\ popup'.ticked \subseteq popup'.listed
    BY <2>1, <2>2 DEF Popups
  <2>4. TypeOK'
    BY <1>0, <1>4, <2>3 DEF ShowFilter, TypeOK
  <2>5. NoHiddenFilter' /\ TickedListed'
    BY <1>0, <1>4, <2>3 DEF ShowFilter, NoHiddenFilter, Active, TickedListed
  <2> QED
    BY <2>4, <2>5 DEF IInv
<1>5. CASE Tick
  <2>1. PICK s \in SUBSET popup.listed : popup' = [popup EXCEPT !.ticked = s]
    BY <1>5 DEF Tick
  <2>2. popup \in Popups
    BY <1>0, <1>5, PopupIsPopup DEF Tick
  <2>3. popup' \in Popups /\ popup'.ticked \subseteq popup'.listed
    BY <2>1, <2>2 DEF Popups
  <2>4. TypeOK'
    BY <1>0, <1>5, <2>3 DEF Tick, TypeOK
  <2>5. NoHiddenFilter' /\ TickedListed'
    BY <1>0, <1>5, <2>3 DEF Tick, NoHiddenFilter, Active, TickedListed
  <2> QED
    BY <2>4, <2>5 DEF IInv
<1>6. CASE Apply \/ ClearColumn
  <2>1. popup.col \in Columns /\ popup.ticked \in SUBSET Cells
    BY <1>0, <1>6, PopupIsPopup DEF Apply, ClearColumn
  <2>2. PICK values \in (SUBSET Cells) \cup {NoFilter} : ApplyFilter(popup.col, values)
    BY <1>6, <2>1 DEF Apply, ClearColumn
  <2>3. allowed' \in Filters /\ marked' \in SUBSET Columns /\ Active' \subseteq marked'
    BY <1>0, <2>1, <2>2, ApplyKeepsFilters
  <2>4. TypeOK'
    BY <1>0, <1>6, <2>3 DEF Apply, ClearColumn, TypeOK
  <2>5. NoHiddenFilter' /\ TickedListed'
    BY <1>0, <1>6, <2>3 DEF Apply, ClearColumn, NoHiddenFilter, TickedListed
  <2> QED
    BY <2>4, <2>5 DEF IInv
<1>7. CASE Dismiss
  BY <1>0, <1>7 DEF Dismiss, IInv, TypeOK, NoHiddenFilter, Active, TickedListed
<1>8. CASE ClearFilters \/ Restart \/ FinishLoad
  <2>1. [c \in Columns |-> NoFilter] \in Filters
    BY DEF Filters
  <2>2. rows' \subseteq Rows
    BY <1>0, <1>8 DEF ClearFilters, Restart, FinishLoad, TypeOK, GuiAssumption
  <2>3. TypeOK'
    BY <1>0, <1>8, <2>1, <2>2 DEF ClearFilters, Restart, FinishLoad, TypeOK, Texts
  <2>4. NoHiddenFilter' /\ TickedListed'
    BY <1>0, <1>8 DEF ClearFilters, Restart, FinishLoad, NoHiddenFilter, Active, TickedListed
  <2> QED
    BY <2>3, <2>4 DEF IInv
<1>9. ASSUME NEW v \in Views, SaveView(v) PROVE IInv'
  <2>1. [allowed |-> allowed, search |-> search, tagOnly |-> tagOnly] \in Saveable
    BY <1>0 DEF TypeOK, Saveable
  <2>2. TypeOK'
    BY <1>0, <1>9, <2>1 DEF SaveView, TypeOK
  <2>3. NoHiddenFilter' /\ TickedListed'
    BY <1>0, <1>9 DEF SaveView, NoHiddenFilter, Active, TickedListed
  <2> QED
    BY <2>2, <2>3 DEF IInv
<1>10. ASSUME NEW v \in Views, ApplyView(v) PROVE IInv'
  <2>1. saved[v] \in Saveable
    BY <1>0, <1>10 DEF ApplyView, TypeOK
  <2>2. /\ saved[v].allowed \in Filters /\ saved[v].search \in Texts
        /\ saved[v].tagOnly \in BOOLEAN
    BY <2>1 DEF Saveable
  <2>3. TypeOK'
    BY <1>0, <1>10, <2>2 DEF ApplyView, TypeOK, Texts
  <2>4. NoHiddenFilter'
    BY <1>0, <1>10, <2>2, SearchedIsText DEF ApplyView, NoHiddenFilter, Active
  <2>5. TickedListed'
    BY <1>0, <1>10 DEF ApplyView, TickedListed
  <2> QED
    BY <2>3, <2>4, <2>5 DEF IInv
<1>11. ASSUME NEW v \in Views, DeleteView(v) PROVE IInv'
  BY <1>0, <1>11 DEF DeleteView, IInv, TypeOK, NoHiddenFilter, Active, TickedListed
<1>12. CASE Tag
  <2>1. PICK s \in SUBSET Visible : tagged' = tagged \cup s
    BY <1>12 DEF Tag
  <2>2. tagged' \subseteq Rows
    BY <1>0, <2>1 DEF Visible, TypeOK
  <2> QED
    BY <1>0, <1>12, <2>2 DEF Tag, IInv, TypeOK, NoHiddenFilter, Active, TickedListed
<1>13. ASSUME NEW f \in Folders, StartLoad(f) PROVE IInv'
  BY <1>0, <1>13 DEF StartLoad, IInv, TypeOK, NoHiddenFilter, Active, TickedListed, GuiAssumption
<1>14. CASE LoadWithoutFiles
  BY <1>0, <1>14 DEF LoadWithoutFiles, IInv, TypeOK, NoHiddenFilter, Active, TickedListed,
     GuiAssumption
<1> QED
  BY <1>1, <1>2, <1>3, <1>4, <1>5, <1>6, <1>7, <1>8, <1>9, <1>10, <1>11, <1>12, <1>13, <1>14
     DEF Next

\* IInv is inductive and holds from the start.
LEMMA IInvHolds == Spec => []IInv
<1>1. GuiAssumption
  BY GuiAssumption
<1>2. Init => IInv
  <2> SUFFICES ASSUME Init PROVE IInv
    OBVIOUS
  <2>1. allowed \in Filters /\ search \in Texts /\ box \in Texts \cup Typings
    BY DEF Init, Filters, Texts
  <2>2. saved \in [Views -> Saveable \cup {NoFilter}]
    BY DEF Init
  <2>3. TypeOK
    <3>1. /\ rows = {} /\ tagged = {} /\ tagOnly = FALSE /\ check = FALSE /\ marked = {}
          /\ popup = NoPopup /\ loading = NoFolder /\ loads = 0
      BY DEF Init
    <3>2. 0 \in 0 .. MaxLoads
      BY <1>1 DEF GuiAssumption
    <3> QED
      BY <2>1, <2>2, <3>1, <3>2 DEF TypeOK
  <2>4. TickedListed /\ NoHiddenFilter
    BY DEF Init, TickedListed, NoHiddenFilter, Active
  <2> QED
    BY <2>3, <2>4 DEF IInv
<1>3. IInv /\ [Next]_vars => IInv'
  BY <1>1, InvStep
<1> QED
  BY <1>2, <1>3, PTL DEF Spec

\* Whatever an analyst types, ticks, saves, applies, loads and clears in whatever
\* order: what the grid filters by is in the search box, in the check box or marked in
\* a header (__main__.py:278, "misrepresented as fully restored").
THEOREM NothingHidden == Spec => []NoHiddenFilter
<1>1. IInv => NoHiddenFilter
  BY DEF IInv
<1> QED
  BY <1>1, IInvHolds, PTL

-----------------------------------------------------------------------------
\* Apply changes the restriction of the popup's column, and of no other.
LEMMA ApplyRestricts ==
  ASSUME GuiAssumption, IInv, Apply, UpToDate, NEW r \in rows, NEW col, col = popup.col
  PROVE  Passes(r, {})' <=> Passes(r, {col}) /\ Shown(r, col) \in popup.ticked
<1> DEFINE values == IF popup.ticked = popup.listed THEN NoFilter ELSE popup.ticked
<1>1. /\ col \in Columns /\ popup.ticked \in SUBSET Cells /\ popup.ticked \subseteq popup.listed
      /\ allowed \in Filters
  BY PopupIsPopup DEF Apply, IInv, TickedListed, TypeOK
<1>2. /\ allowed' = [allowed EXCEPT ![col] = values]
      /\ rows' = rows /\ tagged' = tagged /\ search' = search /\ tagOnly' = tagOnly
  BY DEF Apply, ApplyFilter
<1>3. \A c \in Columns : Shown(r, c)' = Shown(r, c)
  BY <1>2 DEF Shown
<1>4. \A c \in Columns \ {col} : ColumnAccepts(c, r)' <=> ColumnAccepts(c, r)
  BY <1>1, <1>2, <1>3 DEF ColumnAccepts, Filters
<1>5. ASSUME Passes(r, {col})
      PROVE  ColumnAccepts(col, r)' <=> Shown(r, col) \in popup.ticked
  <2>1. Shown(r, col) \in popup.listed
    BY <1>5 DEF UpToDate, Distinct
  <2>2. popup.ticked # NoFilter
    BY <1>1 DEF GuiAssumption, Cells
  <2>3. allowed'[col] = values
    BY <1>1, <1>2 DEF Filters
  <2> QED
    <3>1. ColumnAccepts(col, r)' <=> values = NoFilter \/ Shown(r, col) \in values
      BY <1>1, <1>2, <1>3, <2>3 DEF ColumnAccepts
    <3> QED
      BY <2>1, <2>2, <3>1
<1>6. Passes(r, {})' <=> Passes(r, {col}) /\ ColumnAccepts(col, r)'
  <2>1. (\A c \in Columns : ColumnAccepts(c, r)')
          <=> (\A c \in Columns \ {col} : ColumnAccepts(c, r)) /\ ColumnAccepts(col, r)'
    BY <1>1, <1>4
  <2>2. Passes(r, {})' <=> /\ tagOnly => r \in tagged
                           /\ \A c \in Columns : ColumnAccepts(c, r)'
                           /\ search # NoText => search \in Words[r]
    BY <1>2 DEF Passes
  <2> QED
    BY <2>1, <2>2 DEF Passes
<1> QED
  BY <1>5, <1>6

\* When a popup that is up to date is applied, the grid shows exactly the rows that pass
\* every other restriction and whose value was ticked (filterpopup.py:120-127).
THEOREM ApplyIsExact == Spec => ApplyShowsTicked
<1> DEFINE Exact == Apply /\ UpToDate =>
                      Visible' = {r \in rows : Passes(r, {popup.col}) /\
                                               Shown(r, popup.col) \in popup.ticked}
<1>1. IInv /\ [Next]_vars => Exact
  <2> SUFFICES ASSUME IInv, Apply, UpToDate
               PROVE  Visible' = {r \in rows : Passes(r, {popup.col}) /\
                                               Shown(r, popup.col) \in popup.ticked}
    OBVIOUS
  <2>1. rows' = rows
    BY DEF Apply
  <2>2. GuiAssumption
    BY GuiAssumption
  <2> QED
    BY <2>1, <2>2, ApplyRestricts DEF Visible
<1>2. IInv /\ [Next]_vars => [Exact]_vars
  BY <1>1
<1> QED
  BY <1>2, IInvHolds, PTL DEF Spec, ApplyShowsTicked

\* Nothing a popup offers can empty the grid (filterpopup.py:8), as long as no load has
\* replaced the rows under it: a ticked value is the value of a row that passes every
\* other restriction.
THEOREM OffersMatch == Spec => OfferedValuesMatch
<1> DEFINE Match == Apply /\ UpToDate /\ popup.ticked # {} => Visible' # {}
<1>1. IInv /\ [Next]_vars => Match
  <2> SUFFICES ASSUME IInv, Apply, UpToDate, NEW value \in popup.ticked
               PROVE  Visible' # {}
    OBVIOUS
  <2>1. value \in Distinct(popup.col)
    BY DEF IInv, TickedListed, Apply, UpToDate
  <2>2. PICK r \in rows : Passes(r, {popup.col}) /\ Shown(r, popup.col) = value
    BY <2>1 DEF Distinct
  <2>3. rows' = rows
    BY DEF Apply
  <2>4. Passes(r, {})'
    BY <2>2, GuiAssumption, ApplyRestricts
  <2> QED
    BY <2>3, <2>4 DEF Visible
<1>2. IInv /\ [Next]_vars => [Match]_vars
  BY <1>1
<1> QED
  BY <1>2, IInvHolds, PTL DEF Spec, OfferedValuesMatch
=============================================================================
