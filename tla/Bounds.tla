-------------------------------- MODULE Bounds --------------------------------
(***************************************************************************)
(* Bounds (prefetch_core/errors.py): the reader every field of a prefetch  *)
(* file goes through.  It refuses a read outside the buffer and keeps the  *)
(* ranges read as a sorted list of disjoint spans, whose complement - the  *)
(* gaps - is what the parser reports as residue.                           *)
(*                                                                         *)
(* A read that starts before the last span makes the code sort the list    *)
(* and merge it again; that loop is modelled one iteration a step.         *)
(***************************************************************************)
EXTENDS Integers, Sequences

VARIABLES
  size,     \* len(data)
  covered,  \* the spans [start, end) read; while merging, those merged so far
  loose,    \* sorted spans the merge loop has still to visit; <<>> outside it
  touched   \* history: the bytes that accepted reads asked for

boundsVars == <<size, covered, loose, touched>>

Span == [start : Nat, end : Nat]

SpanBytes(s) == s.start..(s.end - 1)
Bytes(spans) == UNION {SpanBytes(spans[i]) : i \in DOMAIN spans}

Fits(offset, length) == offset >= 0 /\ length >= 0 /\ offset + length <= size

\* The order list.sort() gives two-element lists.
Before(a, b) == a.start < b.start \/ (a.start = b.start /\ a.end <= b.end)

\* Mutant of Joined: the last span always ends where the new one does.
JoinedShrinks(spans, s) ==
  IF spans = <<>> \/ s.start > spans[Len(spans)].end THEN Append(spans, s)
  ELSE [spans EXCEPT ![Len(spans)].end = s.end]

\* s starts inside the last span, or at its end, and extends it; or follows it.
Joined(spans, s) ==
  IF spans = <<>> \/ s.start > spans[Len(spans)].end THEN Append(spans, s)
  ELSE [spans EXCEPT ![Len(spans)].end = IF s.end > @ THEN s.end ELSE @]

\* spans with s put in after the first k.
Inserted(spans, s, k) ==
  [i \in 1..(Len(spans) + 1) |->
     IF i <= k THEN spans[i] ELSE IF i = k + 1 THEN s ELSE spans[i - 1]]

InOrder(s) == covered # <<>> => s.start >= covered[Len(covered)].start

CoverForward(s) ==
  /\ InOrder(s)
  /\ covered' = Joined(covered, s)
  /\ UNCHANGED loose

\* spans.append(s); spans.sort(); merged = []: the loop starts.
CoverBack(s) ==
  /\ ~InOrder(s)
  /\ \E k \in 0..Len(covered) :
       /\ \A i \in 1..k : Before(covered[i], s)
       /\ \A i \in (k + 1)..Len(covered) : ~Before(covered[i], s)
       /\ loose' = Inserted(covered, s, k)
  /\ covered' = <<>>

\* A read inside the buffer; one outside it raises and changes nothing.
Check(offset, length) ==
  /\ loose = <<>>
  /\ Fits(offset, length)
  /\ LET s == [start |-> offset, end |-> offset + length] IN
       /\ CoverForward(s) \/ CoverBack(s)
       /\ touched' = touched \cup SpanBytes(s)
  /\ UNCHANGED size

\* for span in spans[1:]
Merge ==
  /\ loose # <<>>
  /\ covered' = Joined(covered, Head(loose))
  /\ loose' = Tail(loose)
  /\ UNCHANGED <<size, touched>>

\* Bounds(body)
New(n) ==
  /\ size' = n /\ covered' = <<>> /\ loose' = <<>> /\ touched' = {}

BoundsInit == size = 0 /\ covered = <<>> /\ loose = <<>> /\ touched = {}

BoundsNext ==
  \/ size' \in Nat /\ New(size')
  \/ \E offset, length \in 0..size : Check(offset, length)
  \/ Merge

BoundsSpec == BoundsInit /\ [][BoundsNext]_boundsVars

-----------------------------------------------------------------------------
\* gaps(): the cursor in front of the i-th span, and where that span starts
\* (the end of the data counts as one more).
Ends(i)    == {0} \cup {covered[j].end : j \in 1..(i - 1)}
Cursor(i)  == CHOOSE c \in Ends(i) : \A d \in Ends(i) : d <= c
StartOf(i) == IF i <= Len(covered) THEN covered[i].start ELSE size

Gaps ==
  {[offset |-> Cursor(i), size |-> StartOf(i) - Cursor(i)] :
     i \in {k \in 1..(Len(covered) + 1) : StartOf(k) > Cursor(k)}}

GapBytes(g) == g.offset..(g.offset + g.size - 1)

BoundsTypeOK ==
  /\ size \in Nat
  /\ covered \in Seq(Span) /\ loose \in Seq(Span)
  /\ touched \in SUBSET (0..(size - 1))

\* scca.py:418-420, "the bounds-checked reader records every range it touched, so
\* the complement is exactly what was not read": whatever the order and overlap
\* of the reads, gaps() is the unread bytes - none hidden, none reported twice.
GapsAreUnread ==
  loose = <<>> =>
    /\ UNION {GapBytes(g) : g \in Gaps} = (0..(size - 1)) \ touched
    /\ \A g, h \in Gaps : g # h => GapBytes(g) \cap GapBytes(h) = {}

===============================================================================
