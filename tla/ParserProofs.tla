----------------------------- MODULE ParserProofs -----------------------------
(***************************************************************************)
(* For every set of files, every limit and every parse: the gaps the       *)
(* residue is made from are the unread bytes, the verdict agrees with the  *)
(* problems, no count of trace chains ends a parse, memory is bounded, and *)
(* the stamp is older than the read.                                       *)
(*                                                                         *)
(* First the coverage by itself, for a buffer of any size and reads in any *)
(* order.  Its invariant keeps the merged spans apart and in order, the    *)
(* spans still loose behind the last merged one, and both together equal   *)
(* to what was read.                                                       *)
(*                                                                         *)
(* Then the parser.  What its steps have in common is proved first: a step *)
(* of _parse_body either goes on (Continues) or fails (Fails); each        *)
(* invariant then needs to look at these two and at the steps of           *)
(* parse_file and load.                                                    *)
(***************************************************************************)
EXTENDS Parser, SequenceTheorems, WellFoundedInduction, FiniteSetTheorems, TLAPS

\* Spans of the buffer.
Within(spans) ==
  \A k \in 1..Len(spans) : spans[k].start <= spans[k].end /\ spans[k].end <= size

\* In order, and never touching: two spans that touch have been merged.
Apart(spans) ==
  \A k, l \in 1..Len(spans) : k < l => spans[k].end < spans[l].start

Ascending(spans) ==
  \A k, l \in 1..Len(spans) : k < l => spans[k].start <= spans[l].start

\* Every span of the second list starts no earlier than the last of the first.
Behind(merged, rest) ==
  merged # <<>> => \A k \in 1..Len(rest) : merged[Len(merged)].start <= rest[k].start

BoundsInv ==
  /\ BoundsTypeOK
  /\ Within(covered) /\ Within(loose)
  /\ Apart(covered) /\ Ascending(loose) /\ Behind(covered, loose)
  /\ Bytes(covered) \cup Bytes(loose) = touched

-----------------------------------------------------------------------------
\* The ends of a span, and of the spans of a list, are natural numbers.
LEMMA SpanEnds ==
  /\ \A s \in Span : s.start \in Nat /\ s.end \in Nat
  /\ \A spans \in Seq(Span) :
       /\ Len(spans) \in Nat
       /\ \A k \in 1..Len(spans) :
            spans[k] \in Span /\ spans[k].start \in Nat /\ spans[k].end \in Nat
<1>1. \A s \in Span : s.start \in Nat /\ s.end \in Nat
  BY DEF Span
<1> QED
  BY <1>1

\* A byte of a list of spans is a byte of one of them.
LEMMA BytesIn ==
  ASSUME NEW spans \in Seq(Span), NEW b
  PROVE  b \in Bytes(spans) <=>
           b \in Int /\ \E k \in 1..Len(spans) : spans[k].start <= b /\ b < spans[k].end
<1>1. DOMAIN spans = 1..Len(spans) /\ \A k \in 1..Len(spans) : spans[k] \in Span
  OBVIOUS
<1>2. \A k \in 1..Len(spans) : spans[k].start \in Nat /\ spans[k].end \in Nat
  BY SpanEnds
<1>3. \A k \in 1..Len(spans) :
        b \in SpanBytes(spans[k]) <=> b \in Int /\ spans[k].start <= b /\ b < spans[k].end
  BY <1>2 DEF SpanBytes
<1> QED
  BY <1>1, <1>3 DEF Bytes

\* Joining a span that starts no earlier than the last one keeps the list in
\* order and adds exactly the bytes of that span.
LEMMA JoinedAdds ==
  ASSUME NEW spans \in Seq(Span), NEW s \in Span,
         size \in Nat, Within(spans), Apart(spans), s.start <= s.end, s.end <= size,
         spans # <<>> => spans[Len(spans)].start <= s.start
  PROVE  /\ Joined(spans, s) \in Seq(Span) /\ Joined(spans, s) # <<>>
         /\ Within(Joined(spans, s)) /\ Apart(Joined(spans, s))
         /\ Joined(spans, s)[Len(Joined(spans, s))].start <= s.start
         /\ Bytes(Joined(spans, s)) = Bytes(spans) \cup SpanBytes(s)
<1> DEFINE n == Len(spans)
<1> SUFFICES ASSUME NEW new, new = Joined(spans, s)
             PROVE  /\ new \in Seq(Span) /\ new # <<>>
                    /\ Within(new) /\ Apart(new) /\ new[Len(new)].start <= s.start
                    /\ Bytes(new) = Bytes(spans) \cup SpanBytes(s)
  OBVIOUS
<1>0. /\ n \in Nat /\ s.start \in Nat /\ s.end \in Nat
      /\ \A k \in 1..n : spans[k] \in Span /\ spans[k].start \in Nat /\ spans[k].end \in Nat
  BY SpanEnds
<1>s. \A b : b \in SpanBytes(s) <=> b \in Int /\ s.start <= b /\ b < s.end
  BY <1>0 DEF SpanBytes
<1>1. CASE spans = <<>> \/ s.start > spans[n].end
  <2>1. new = Append(spans, s)
    BY <1>1 DEF Joined
  <2>2. /\ new \in Seq(Span) /\ Len(new) = n + 1 /\ new # <<>> /\ new[n + 1] = s
        /\ \A k \in 1..n : new[k] = spans[k]
    BY <2>1, <1>0
  <2>3. Within(new)
    BY <2>2, <1>0 DEF Within
  <2>4. \A k \in 1..n : spans[k].end < s.start
    BY <1>0, <1>1 DEF Apart, Within
  <2>5. Apart(new)
    <3> SUFFICES ASSUME NEW k \in 1..(n + 1), NEW l \in 1..(n + 1), k < l
                 PROVE  new[k].end < new[l].start
      BY <2>2 DEF Apart
    <3>0. n \in Nat
      BY <1>0
    <3> HIDE DEF n
    <3>1. k \in 1..n /\ new[k] = spans[k]
      BY <1>0, <2>2
    <3>2. CASE l = n + 1
      BY <3>1, <3>2, <2>2, <2>4
    <3>3. CASE l \in 1..n
      BY <3>1, <3>3, <2>2 DEF Apart, n
    <3>4. l = n + 1 \/ l \in 1..n
      BY <3>0
    <3> QED
      BY <3>2, <3>3, <3>4
  <2>6. \A b : b \in Bytes(new) <=> b \in Bytes(spans) \/ b \in SpanBytes(s)
    <3> SUFFICES ASSUME NEW b, b \in Int
                 PROVE (\E k \in 1..(n + 1) : new[k].start <= b /\ b < new[k].end) <=>
                       \/ \E k \in 1..n : spans[k].start <= b /\ b < spans[k].end
                       \/ s.start <= b /\ b < s.end
      BY <2>2, <1>s, BytesIn
    <3>1. ASSUME NEW k \in 1..(n + 1), new[k].start <= b, b < new[k].end
          PROVE  \/ \E l \in 1..n : spans[l].start <= b /\ b < spans[l].end
                 \/ s.start <= b /\ b < s.end
      <4>1. CASE k = n + 1
        BY <4>1, <3>1, <2>2
      <4>2. CASE k # n + 1
        BY SMTT(30), <4>2, <3>1, <2>2, <1>0
      <4> QED
        BY <4>1, <4>2
    <3>2. ASSUME NEW l \in 1..n, spans[l].start <= b, b < spans[l].end
          PROVE  l \in 1..(n + 1) /\ new[l].start <= b /\ b < new[l].end
      BY <3>2, <2>2, <1>0
    <3>3. n + 1 \in 1..(n + 1)
      BY <1>0
    <3> QED
      BY <3>1, <3>2, <3>3, <2>2
  <2>7. new[Len(new)].start <= s.start
    BY <2>2, <1>0
  <2>8. Bytes(new) = Bytes(spans) \cup SpanBytes(s)
    BY <2>6
  <2> QED
    BY <2>2, <2>7, <2>8, <2>3, <2>5, <2>6, <1>0
<1>2. CASE spans # <<>> /\ ~(s.start > spans[n].end)
  <2>0. n \in 1..n
    BY <1>0, <1>2
  <2>1. PICK last \in Span :
          /\ last.start = spans[n].start
          /\ last.end = IF s.end > spans[n].end THEN s.end ELSE spans[n].end
          /\ new = [spans EXCEPT ![n] = last]
    <3> DEFINE e == IF s.end > spans[n].end THEN s.end ELSE spans[n].end
    <3>1. spans[n] \in Span /\ e \in Nat
      BY <1>0, <2>0
    <3>2. /\ [spans[n] EXCEPT !.end = e] \in Span
          /\ [spans[n] EXCEPT !.end = e].start = spans[n].start
          /\ [spans[n] EXCEPT !.end = e].end = e
      BY <3>1 DEF Span
    <3>3. new = [spans EXCEPT ![n] = [spans[n] EXCEPT !.end = e]]
      BY <1>2, <2>0 DEF Joined
    <3> QED
      BY <3>2, <3>3
  <2>2. /\ last.start \in Nat /\ last.end \in Nat /\ last.start = spans[n].start
        /\ spans[n].end <= last.end /\ s.end <= last.end /\ last.end <= size
        /\ \A b \in Int : last.start <= b /\ b < last.end <=>
             \/ spans[n].start <= b /\ b < spans[n].end
             \/ s.start <= b /\ b < s.end
    BY <2>0, <2>1, <1>0, <1>2, SpanEnds DEF Within
  <2>3. /\ new \in Seq(Span) /\ Len(new) = n /\ new # <<>> /\ new[n] = last
        /\ \A k \in 1..n : k # n => new[k] = spans[k]
    <3>1. new = [spans EXCEPT ![n] = last]
      BY <2>1
    <3> QED
      BY <3>1, <2>0, <1>0, ExceptSeq
  <2>4. Within(new)
    <3> SUFFICES ASSUME NEW k \in 1..n
                 PROVE  new[k].start <= new[k].end /\ new[k].end <= size
      BY <2>3 DEF Within
    <3>1. spans[k].start <= spans[k].end /\ spans[k].end <= size
      BY DEF Within
    <3>2. CASE k # n
      BY <3>1, <3>2, <2>3
    <3>3. CASE k = n
      BY <3>3, <2>2, <2>3, <1>0
    <3> QED
      BY <3>2, <3>3
  <2>5. Apart(new)
    <3> SUFFICES ASSUME NEW k \in 1..n, NEW l \in 1..n, k < l
                 PROVE  new[k].end < new[l].start
      BY <2>3 DEF Apart
    <3>1. spans[k].end < spans[l].start
      BY DEF Apart
    <3>2. k # n /\ new[k] = spans[k]
      BY <1>0, <2>3
    <3>3. new[l].start = spans[l].start
      BY <2>3, <2>2
    <3> QED
      BY <3>1, <3>2, <3>3
  <2>6. \A b : b \in Bytes(new) <=> b \in Bytes(spans) \/ b \in SpanBytes(s)
    <3> SUFFICES ASSUME NEW b, b \in Int
                 PROVE (\E k \in 1..n : new[k].start <= b /\ b < new[k].end) <=>
                       \/ \E k \in 1..n : spans[k].start <= b /\ b < spans[k].end
                       \/ s.start <= b /\ b < s.end
      BY <2>3, <1>s, BytesIn
    <3> QED
      BY <2>0, <2>2, <2>3
  <2>7. new[Len(new)].start <= s.start
    BY <2>3, <2>2, <1>2
  <2>8. Bytes(new) = Bytes(spans) \cup SpanBytes(s)
    BY <2>6
  <2> QED
    BY <2>3, <2>4, <2>5, <2>7, <2>8
<1> QED
  BY <1>1, <1>2

\* Putting a span where list.sort() does keeps the list ascending and adds
\* exactly the bytes of that span.
LEMMA InsertedAdds ==
  ASSUME NEW spans \in Seq(Span), NEW s \in Span, NEW k \in 0..Len(spans),
         size \in Nat, Within(spans), Apart(spans), s.start <= s.end, s.end <= size,
         \A x \in 1..k : Before(spans[x], s),
         \A x \in (k + 1)..Len(spans) : ~Before(spans[x], s)
  PROVE  /\ Inserted(spans, s, k) \in Seq(Span)
         /\ Within(Inserted(spans, s, k)) /\ Ascending(Inserted(spans, s, k))
         /\ Bytes(Inserted(spans, s, k)) = Bytes(spans) \cup SpanBytes(s)
<1> DEFINE n == Len(spans)
<1> SUFFICES ASSUME NEW new, new = Inserted(spans, s, k)
             PROVE  /\ new \in Seq(Span) /\ Within(new) /\ Ascending(new)
                    /\ Bytes(new) = Bytes(spans) \cup SpanBytes(s)
  OBVIOUS
<1>0. /\ n \in Nat /\ s.start \in Nat /\ s.end \in Nat
      /\ \A x \in 1..n : spans[x] \in Span /\ spans[x].start \in Nat /\ spans[x].end \in Nat
  BY SpanEnds
<1>1. /\ new \in [1..(n + 1) -> Span] /\ new[k + 1] = s
      /\ \A x \in 1..k : new[x] = spans[x]
      /\ \A x \in (k + 2)..(n + 1) : new[x] = spans[x - 1]
  <2>1. new = [x \in 1..(n + 1) |->
                 IF x <= k THEN spans[x] ELSE IF x = k + 1 THEN s ELSE spans[x - 1]]
    BY DEF Inserted
  <2>2. ASSUME NEW x \in 1..(n + 1)
        PROVE  /\ new[x] \in Span
               /\ x <= k => new[x] = spans[x]
               /\ x = k + 1 => new[x] = s
               /\ x > k + 1 => new[x] = spans[x - 1]
    <3>1. CASE x <= k
      BY <3>1, <2>1, <1>0
    <3>2. CASE x = k + 1
      BY <3>2, <2>1, <1>0
    <3>3. CASE x > k + 1
      BY <3>3, <2>1, <1>0
    <3> QED
      BY <3>1, <3>2, <3>3, <1>0
  <2> QED
    BY <2>1, <2>2, <1>0
<1>2. new \in Seq(Span) /\ Len(new) = n + 1
  <2>1. n + 1 \in Nat /\ new \in [1..(n + 1) -> Span]
    BY <1>1, <1>0
  <2>2. \A m \in Nat : \A f \in [1..m -> Span] : f \in Seq(Span) /\ Len(f) = m
    OBVIOUS
  <2> QED
    BY <2>1, <2>2
<1>3. ASSUME NEW x \in 1..(n + 1)
      PROVE  \/ x = k + 1 /\ new[x] = s
             \/ x \in 1..k /\ x \in 1..n /\ new[x] = spans[x]
             \/ x - 1 \in (k + 1)..n /\ x - 1 \in 1..n /\ new[x] = spans[x - 1]
  <2>1. x \in 1..k \/ x = k + 1 \/ x \in (k + 2)..(n + 1)
    BY <1>0
  <2>2. CASE x \in 1..k
    BY <2>2, <1>1, <1>0
  <2>3. CASE x = k + 1
    BY <2>3, <1>1
  <2>4. CASE x \in (k + 2)..(n + 1)
    <3>1. x - 1 \in (k + 1)..n /\ x - 1 \in 1..n
      BY <2>4, <1>0
    <3> QED
      BY <3>1, <2>4, <1>1
  <2> QED
    BY <2>1, <2>2, <2>3, <2>4
<1>4. Within(new)
  <2> SUFFICES ASSUME NEW x \in 1..(n + 1)
               PROVE  new[x].start <= new[x].end /\ new[x].end <= size
    BY <1>2 DEF Within
  <2>1. \A j \in 1..n : spans[j].start <= spans[j].end /\ spans[j].end <= size
    BY DEF Within
  <2> QED
    BY <2>1, <1>3
<1>5. Ascending(new)
  <2> SUFFICES ASSUME NEW x \in 1..(n + 1), NEW j \in 1..(n + 1), x < j
               PROVE  new[x].start <= new[j].start
    BY <1>2 DEF Ascending
  <2>1. \A a, b \in 1..n : a < b => spans[a].start <= spans[b].start
    <3> SUFFICES ASSUME NEW a \in 1..n, NEW b \in 1..n, a < b
                 PROVE  spans[a].start <= spans[b].start
      OBVIOUS
    <3>1. spans[a].end < spans[b].start
      BY SMTT(30) DEF Apart
    <3>2. spans[a].start <= spans[a].end
      BY DEF Within
    <3>3. /\ spans[a].start \in Int /\ spans[a].end \in Int
          /\ spans[b].start \in Int
      BY <1>0
    <3> QED
      BY <3>1, <3>2, <3>3
  <2>2. \A a \in 1..k : spans[a].start <= s.start
    <3> SUFFICES ASSUME NEW a \in 1..k PROVE spans[a].start <= s.start
      OBVIOUS
    <3>1. spans[a].start \in Nat /\ s.start \in Nat
      BY <1>0
    <3>2. Before(spans[a], s)
      OBVIOUS
    <3> QED
      BY <3>1, <3>2 DEF Before
  <2>3. \A a \in (k + 1)..n : s.start <= spans[a].start
    <3> SUFFICES ASSUME NEW a \in (k + 1)..n PROVE s.start <= spans[a].start
      OBVIOUS
    <3>1. spans[a].start \in Nat /\ s.start \in Nat
      BY <1>0
    <3>2. ~Before(spans[a], s)
      OBVIOUS
    <3> QED
      BY <3>1, <3>2 DEF Before
  <2>4. CASE x = k + 1 /\ new[x] = s
    <3>1. j - 1 \in (k + 1)..n /\ new[j] = spans[j - 1]
      BY <2>4, <1>3, <1>0
    <3> QED
      BY <3>1, <2>4, <2>3
  <2>5. CASE x \in 1..k /\ x \in 1..n /\ new[x] = spans[x]
    <3>1. CASE j = k + 1 /\ new[j] = s
      BY <3>1, <2>5, <2>2
    <3>2. CASE j \in 1..k /\ j \in 1..n /\ new[j] = spans[j]
      BY <3>2, <2>5, <2>1
    <3>3. CASE j - 1 \in (k + 1)..n /\ j - 1 \in 1..n /\ new[j] = spans[j - 1]
      <4>1. x < j - 1
        BY <3>3, <2>5, <1>0
      <4> QED
        BY <4>1, <3>3, <2>5, <2>1
    <3> QED
      BY <3>1, <3>2, <3>3, <1>3
  <2>6. CASE x - 1 \in (k + 1)..n /\ x - 1 \in 1..n /\ new[x] = spans[x - 1]
    <3>1. j - 1 \in 1..n /\ new[j] = spans[j - 1] /\ x - 1 < j - 1
      BY <2>6, <1>3, <1>0
    <3> QED
      BY <3>1, <2>6, <2>1
  <2> QED
    BY <2>4, <2>5, <2>6, <1>3
<1>6. \A b : b \in Bytes(new) <=> b \in Bytes(spans) \/ b \in SpanBytes(s)
  <2> SUFFICES ASSUME NEW b, b \in Int
               PROVE (\E x \in 1..(n + 1) : new[x].start <= b /\ b < new[x].end) <=>
                     \/ \E x \in 1..n : spans[x].start <= b /\ b < spans[x].end
                     \/ s.start <= b /\ b < s.end
    <3>1. \A b : b \in SpanBytes(s) <=> b \in Int /\ s.start <= b /\ b < s.end
      BY <1>0 DEF SpanBytes
    <3> QED
      BY <3>1, <1>2, BytesIn
  <2>1. ASSUME NEW x \in 1..(n + 1), new[x].start <= b, b < new[x].end
        PROVE  \/ \E j \in 1..n : spans[j].start <= b /\ b < spans[j].end
               \/ s.start <= b /\ b < s.end
    BY <2>1, <1>3
  <2>2. ASSUME NEW x \in 1..n, spans[x].start <= b, b < spans[x].end
        PROVE  \E j \in 1..(n + 1) : new[j].start <= b /\ b < new[j].end
    <3>1. CASE x <= k
      BY <3>1, <2>2, <1>1, <1>0
    <3>2. CASE x > k
      <4>1. x + 1 \in (k + 2)..(n + 1) /\ x + 1 \in 1..(n + 1) /\ (x + 1) - 1 = x
        BY <3>2, <1>0
      <4> QED
        BY <4>1, <2>2, <1>1
    <3> QED
      BY <3>1, <3>2, <1>0
  <2>3. k + 1 \in 1..(n + 1)
    BY <1>0
  <2> QED
    BY <2>1, <2>2, <2>3, <1>1
<1> QED
  BY <1>2, <1>4, <1>5, <1>6

\* The merge loop takes the first loose span and leaves the others.
LEMMA TailLeaves ==
  ASSUME NEW spans \in Seq(Span), spans # <<>>, size \in Nat, Within(spans), Ascending(spans)
  PROVE  /\ Head(spans) \in Span /\ Tail(spans) \in Seq(Span)
         /\ Head(spans).start <= Head(spans).end /\ Head(spans).end <= size
         /\ Within(Tail(spans)) /\ Ascending(Tail(spans))
         /\ \A k \in 1..Len(Tail(spans)) : Head(spans).start <= Tail(spans)[k].start
         /\ Bytes(spans) = SpanBytes(Head(spans)) \cup Bytes(Tail(spans))
<1> DEFINE n == Len(spans)
<1> SUFFICES ASSUME NEW s, s = Head(spans), NEW rest, rest = Tail(spans)
             PROVE  /\ s \in Span /\ rest \in Seq(Span)
                    /\ s.start <= s.end /\ s.end <= size
                    /\ Within(rest) /\ Ascending(rest)
                    /\ \A k \in 1..Len(rest) : s.start <= rest[k].start
                    /\ Bytes(spans) = SpanBytes(s) \cup Bytes(rest)
  OBVIOUS
<1>1. /\ n \in Nat \ {0} /\ s = spans[1] /\ rest \in Seq(Span) /\ Len(rest) = n - 1
      /\ \A k \in 1..(n - 1) : rest[k] = spans[k + 1] /\ k + 1 \in 1..n /\ 1 < k + 1
      /\ 1 \in 1..n
  BY HeadTailProperties
<1>2. s \in Span /\ s.start <= s.end /\ s.end <= size
  BY <1>1, SpanEnds DEF Within
<1>3. Within(rest)
  BY <1>1 DEF Within
<1>4. Ascending(rest)
  <2> SUFFICES ASSUME NEW k \in 1..(n - 1), NEW l \in 1..(n - 1), k < l
               PROVE  rest[k].start <= rest[l].start
    BY <1>1 DEF Ascending
  <2>1. k + 1 \in 1..n /\ l + 1 \in 1..n /\ k + 1 < l + 1
    BY <1>1
  <2> QED
    BY <2>1, <1>1 DEF Ascending
<1>5. \A k \in 1..Len(rest) : s.start <= rest[k].start
  BY <1>1 DEF Ascending
<1>6. \A b : b \in Bytes(spans) <=> b \in SpanBytes(s) \/ b \in Bytes(rest)
  <2> SUFFICES ASSUME NEW b, b \in Int
               PROVE (\E k \in 1..n : spans[k].start <= b /\ b < spans[k].end) <=>
                     \/ s.start <= b /\ b < s.end
                     \/ \E k \in 1..(n - 1) : rest[k].start <= b /\ b < rest[k].end
    <3>1. \A c : c \in SpanBytes(s) <=> c \in Int /\ s.start <= c /\ c < s.end
      BY <1>2, SpanEnds DEF SpanBytes
    <3> QED
      BY <3>1, <1>1, BytesIn
  <2>1. ASSUME NEW k \in 1..n, spans[k].start <= b, b < spans[k].end
        PROVE  \/ s.start <= b /\ b < s.end
               \/ \E l \in 1..(n - 1) : rest[l].start <= b /\ b < rest[l].end
    <3>1. CASE k = 1
      BY <3>1, <2>1, <1>1
    <3>2. CASE k # 1
      <4>1. k - 1 \in 1..(n - 1) /\ (k - 1) + 1 = k
        BY <3>2, <1>1
      <4> QED
        BY <4>1, <2>1, <1>1
    <3> QED
      BY <3>1, <3>2
  <2> QED
    BY <2>1, <1>1
<1> QED
  BY <1>1, <1>2, <1>3, <1>4, <1>5, <1>6

-----------------------------------------------------------------------------
\* The empty list of spans has no bytes and every property of a list.
LEMMA NoSpans ==
  /\ <<>> \in Seq(Span) /\ Bytes(<<>>) = {}
  /\ Within(<<>>) /\ Apart(<<>>) /\ Ascending(<<>>)
  /\ \A rest : Behind(<<>>, rest)
  /\ \A merged : Behind(merged, <<>>)
<1>1. <<>> \in Seq(Span) /\ Len(<<>>) = 0 /\ 1..0 = {}
  OBVIOUS
<1>2. Bytes(<<>>) = {}
  BY <1>1, BytesIn
<1> QED
  BY <1>1, <1>2 DEF Within, Apart, Ascending, Behind

LEMMA InitInv == BoundsInit => BoundsInv
BY NoSpans DEF BoundsInit, BoundsInv, BoundsTypeOK

\* A read keeps the invariant, in order or out of order.
LEMMA CheckKeeps ==
  ASSUME BoundsInv, NEW offset \in Int, NEW length \in Int, Check(offset, length)
  PROVE  BoundsInv'
<1> DEFINE s == [start |-> offset, end |-> offset + length]
<1>0. /\ size \in Nat /\ covered \in Seq(Span) /\ loose = <<>> /\ touched \in SUBSET (0..(size - 1))
      /\ Within(covered) /\ Apart(covered) /\ Bytes(covered) = touched
  BY NoSpans DEF BoundsInv, BoundsTypeOK, Check
<1>1. /\ s \in Span /\ s.start <= s.end /\ s.end <= size
      /\ touched' = touched \cup SpanBytes(s) /\ size' = size
      /\ CoverForward(s) \/ CoverBack(s)
  BY DEF Check, Fits, Span
<1>2. touched' \in SUBSET (0..(size' - 1))
  BY <1>0, <1>1, SpanEnds DEF SpanBytes
<1>3. CASE CoverForward(s)
  <2>1. covered' = Joined(covered, s) /\ loose' = <<>>
        /\ (covered # <<>> => covered[Len(covered)].start <= s.start)
    <3>1. covered # <<>> => covered[Len(covered)].start \in Nat /\ s.start \in Nat
      BY <1>0, <1>1, SpanEnds
    <3> QED
      BY <1>3, <1>0, <3>1 DEF CoverForward, InOrder
  <2>2. /\ covered' \in Seq(Span) /\ Within(covered)' /\ Apart(covered)'
        /\ Bytes(covered') = touched'
    <3> HIDE DEF s
    <3>1. /\ Joined(covered, s) \in Seq(Span)
          /\ Within(Joined(covered, s)) /\ Apart(Joined(covered, s))
          /\ Bytes(Joined(covered, s)) = Bytes(covered) \cup SpanBytes(s)
      BY <2>1, <1>0, <1>1, JoinedAdds
    <3> QED
      BY <3>1, <2>1, <1>0, <1>1 DEF Within, Apart
  <2> QED
    BY <2>1, <2>2, <1>0, <1>1, <1>2, NoSpans
       DEF BoundsInv, BoundsTypeOK, Within, Ascending, Behind
<1>4. CASE CoverBack(s)
  <2>1. PICK k \in 0..Len(covered) :
          /\ \A x \in 1..k : Before(covered[x], s)
          /\ \A x \in (k + 1)..Len(covered) : ~Before(covered[x], s)
          /\ loose' = Inserted(covered, s, k)
    BY <1>4 DEF CoverBack
  <2>2. covered' = <<>>
    BY <1>4 DEF CoverBack
  <2>3. /\ loose' \in Seq(Span) /\ Within(loose)' /\ Ascending(loose)'
        /\ Bytes(loose') = touched'
    <3> HIDE DEF s
    <3>1. /\ Inserted(covered, s, k) \in Seq(Span)
          /\ Within(Inserted(covered, s, k)) /\ Ascending(Inserted(covered, s, k))
          /\ Bytes(Inserted(covered, s, k)) = Bytes(covered) \cup SpanBytes(s)
      BY <2>1, <1>0, <1>1, InsertedAdds
    <3> QED
      BY <3>1, <2>1, <1>0, <1>1 DEF Within, Ascending
  <2> QED
    BY <2>2, <2>3, <1>0, <1>1, <1>2, NoSpans
       DEF BoundsInv, BoundsTypeOK, Within, Apart, Behind
<1> QED
  BY <1>1, <1>3, <1>4

\* So does an iteration of the merge loop.
LEMMA MergeKeeps ==
  ASSUME BoundsInv, Merge
  PROVE  BoundsInv'
<1> DEFINE s == Head(loose)
<1>0. /\ size \in Nat /\ covered \in Seq(Span) /\ loose \in Seq(Span) /\ loose # <<>>
      /\ touched \in SUBSET (0..(size - 1)) /\ Within(covered) /\ Within(loose)
      /\ Apart(covered) /\ Ascending(loose) /\ Behind(covered, loose)
      /\ Bytes(covered) \cup Bytes(loose) = touched
      /\ covered' = Joined(covered, s) /\ loose' = Tail(loose) /\ UNCHANGED <<size, touched>>
  BY DEF BoundsInv, BoundsTypeOK, Merge
<1>1. /\ s \in Span /\ Tail(loose) \in Seq(Span) /\ s.start <= s.end /\ s.end <= size
      /\ Within(Tail(loose)) /\ Ascending(Tail(loose))
      /\ \A k \in 1..Len(Tail(loose)) : s.start <= Tail(loose)[k].start
      /\ Bytes(loose) = SpanBytes(s) \cup Bytes(Tail(loose))
  BY <1>0, TailLeaves
<1>2. covered # <<>> => covered[Len(covered)].start <= s.start
  <2>1. s = loose[1] /\ 1 \in 1..Len(loose)
    BY <1>0
  <2> QED
    BY <2>1, <1>0 DEF Behind
<1> HIDE DEF s
<1>3. /\ Joined(covered, s) \in Seq(Span) /\ Joined(covered, s) # <<>>
      /\ Within(Joined(covered, s)) /\ Apart(Joined(covered, s))
      /\ Joined(covered, s)[Len(Joined(covered, s))].start <= s.start
      /\ Bytes(Joined(covered, s)) = Bytes(covered) \cup SpanBytes(s)
  BY <1>0, <1>1, <1>2, JoinedAdds
<1>4. Behind(covered', loose')
  <2> DEFINE new == Joined(covered, s)
  <2>1. new[Len(new)].start \in Nat
    BY <1>3, SpanEnds
  <2>2. \A k \in 1..Len(Tail(loose)) : Tail(loose)[k].start \in Nat
    BY <1>1, SpanEnds
  <2>3. s.start \in Nat
    BY <1>1, SpanEnds
  <2>4. \A k \in 1..Len(Tail(loose)) : new[Len(new)].start <= Tail(loose)[k].start
    BY <2>1, <2>2, <2>3, <1>1, <1>3
  <2> QED
    BY <2>4, <1>0 DEF Behind
<1> QED
  BY <1>0, <1>1, <1>3, <1>4 DEF BoundsInv, BoundsTypeOK, Within, Apart, Ascending, Behind

LEMMA NextInv == BoundsInv /\ [BoundsNext]_boundsVars => BoundsInv'
<1> SUFFICES ASSUME BoundsInv, [BoundsNext]_boundsVars
             PROVE  BoundsInv'
  OBVIOUS
<1>1. CASE size' \in Nat /\ New(size')
  BY <1>1, NoSpans DEF New, BoundsInv, BoundsTypeOK, Within, Apart, Ascending, Behind
<1>2. CASE \E offset, length \in 0..size : Check(offset, length)
  BY <1>2, CheckKeeps
<1>3. CASE Merge
  BY <1>3, MergeKeeps
<1>4. CASE UNCHANGED boundsVars
  BY <1>4 DEF boundsVars, BoundsInv, BoundsTypeOK, Within, Apart, Ascending, Behind
<1> QED
  BY <1>1, <1>2, <1>3, <1>4 DEF BoundsNext

-----------------------------------------------------------------------------
\* A set of natural numbers that is not empty has a least element.
LEMMA LeastNat ==
  ASSUME NEW T, T \subseteq Nat, T # {}
  PROVE  \E m \in T : \A k \in T : m <= k
<1>1. \E m \in T : \A k \in T : ~(<<k, m>> \in OpToRel(<, Nat))
  BY NatLessThanWellFounded, WFMin
<1>2. PICK m \in T : \A k \in T : ~(<<k, m>> \in OpToRel(<, Nat))
  BY <1>1
<1>3. ASSUME NEW k \in T
      PROVE  m <= k
  <2>1. k \in Nat /\ m \in Nat
    BY <1>2, <1>3
  <2>2. ~(k < m)
    BY <1>2, <1>3, <2>1 DEF OpToRel
  <2> QED
    BY <2>1, <2>2
<1> QED
  BY <1>3

\* The cursor in front of a span is where the span before it ends.
LEMMA CursorIs ==
  ASSUME BoundsInv, NEW x \in 1..(Len(covered) + 1)
  PROVE  Cursor(x) = IF x = 1 THEN 0 ELSE covered[x - 1].end
<1> DEFINE c == IF x = 1 THEN 0 ELSE covered[x - 1].end
<1>0. /\ Len(covered) \in Nat /\ Within(covered) /\ Apart(covered)
      /\ \A k \in 1..Len(covered) : covered[k].start \in Nat /\ covered[k].end \in Nat
  BY SpanEnds DEF BoundsInv, BoundsTypeOK
<1>1. c \in Ends(x) /\ c \in Nat
  <2>1. CASE x = 1
    BY <2>1 DEF Ends
  <2>2. CASE x # 1
    <3>1. x - 1 \in 1..(x - 1) /\ x - 1 \in 1..Len(covered)
      BY <2>2, <1>0
    <3> QED
      BY <3>1, <2>2, <1>0 DEF Ends
  <2> QED
    BY <2>1, <2>2
<1>2. \A d \in Ends(x) : d \in Nat /\ d <= c
  <2> SUFFICES ASSUME NEW d \in Ends(x)
               PROVE  d \in Nat /\ d <= c
    OBVIOUS
  <2>1. CASE d = 0
    BY <2>1, <1>1
  <2>2. CASE \E j \in 1..(x - 1) : d = covered[j].end
    <3>1. PICK j \in 1..(x - 1) : d = covered[j].end
      BY <2>2
    <3>2. /\ j \in 1..Len(covered) /\ x - 1 \in 1..Len(covered) /\ x # 1
          /\ j = x - 1 \/ j < x - 1
      BY <3>1, <1>0
    <3>3. CASE j = x - 1
      BY <3>1, <3>2, <3>3, <1>0
    <3>4. CASE j < x - 1
      <4>1. covered[j].end < covered[x - 1].start
        BY <3>2, <3>4, <1>0 DEF Apart
      <4>2. covered[x - 1].start <= covered[x - 1].end
        BY <3>2, <1>0 DEF Within
      <4> QED
        BY <4>1, <4>2, <3>1, <3>2, <1>0
    <3> QED
      BY <3>2, <3>3, <3>4
  <2> QED
    BY <2>1, <2>2 DEF Ends
<1> HIDE DEF c
<1>3. Cursor(x) \in Ends(x) /\ \A d \in Ends(x) : d <= Cursor(x)
  BY <1>1, <1>2 DEF Cursor
<1>4. Cursor(x) = c
  <2>1. Cursor(x) \in Nat /\ Cursor(x) <= c
    BY <1>2, <1>3
  <2>2. c <= Cursor(x)
    BY <1>1, <1>3
  <2> QED
    BY <1>1, <2>1, <2>2
<1> QED
  BY <1>4 DEF c

\* Between two reads, the gaps are the unread bytes.
LEMMA GapsExact == BoundsInv => GapsAreUnread
<1> SUFFICES ASSUME BoundsInv, loose = <<>>
             PROVE  /\ UNION {GapBytes(g) : g \in Gaps} = (0..(size - 1)) \ touched
                    /\ \A g, h \in Gaps : g # h => GapBytes(g) \cap GapBytes(h) = {}
  BY DEF GapsAreUnread
<1> DEFINE n == Len(covered)
           C(x) == IF x = 1 THEN 0 ELSE covered[x - 1].end
           G(x) == [offset |-> C(x), size |-> StartOf(x) - C(x)]
           I == {x \in 1..(n + 1) : StartOf(x) > C(x)}
<1>0. /\ n \in Nat /\ size \in Nat /\ covered \in Seq(Span)
      /\ Within(covered) /\ Apart(covered) /\ Bytes(covered) = touched
      /\ \A k \in 1..n : /\ covered[k].start \in Nat /\ covered[k].end \in Nat
                         /\ covered[k].start <= covered[k].end /\ covered[k].end <= size
  BY SpanEnds, NoSpans DEF BoundsInv, BoundsTypeOK, Within
<1>1. \A x \in 1..(n + 1) : Cursor(x) = C(x)
  BY CursorIs
<1>2. Gaps = {G(x) : x \in I}
  BY <1>1 DEF Gaps
<1>3. \A x \in 1..(n + 1) :
        /\ C(x) \in Nat /\ StartOf(x) \in Nat
        /\ x <= n => x \in 1..n /\ StartOf(x) = covered[x].start
        /\ StartOf(x) <= size
  <2> SUFFICES ASSUME NEW x \in 1..(n + 1)
               PROVE  /\ C(x) \in Nat /\ StartOf(x) \in Nat
                      /\ x <= n => x \in 1..n /\ StartOf(x) = covered[x].start
                      /\ StartOf(x) <= size
    OBVIOUS
  <2>1. C(x) \in Nat
    <3>1. x # 1 => x - 1 \in 1..n
      BY <1>0
    <3> QED
      BY <3>1, <1>0
  <2>2. CASE x <= n
    BY <2>1, <2>2, <1>0 DEF StartOf
  <2>3. CASE x > n
    BY <2>1, <2>3, <1>0 DEF StartOf
  <2> QED
    BY <2>2, <2>3, <1>0
<1>4. ASSUME NEW x \in 1..(n + 1), NEW j \in 1..(n + 1), x < j
      PROVE  x \in 1..n /\ StartOf(x) <= covered[x].end /\ covered[x].end <= C(j)
  <2>1. x \in 1..n /\ StartOf(x) = covered[x].start /\ j - 1 \in 1..n /\ C(j) = covered[j - 1].end
    BY <1>3, <1>4, <1>0
  <2>2. CASE x = j - 1
    BY <2>1, <2>2, <1>0
  <2>3. CASE x # j - 1
    <3>1. x < j - 1
      BY <2>3, <1>4, <1>0
    <3>2. covered[x].end < covered[j - 1].start
      BY <3>1, <2>1, <1>0 DEF Apart
    <3> QED
      BY <3>2, <2>1, <1>0
  <2> QED
    BY <2>2, <2>3
<1>5. \A x \in I : \A b : b \in GapBytes(G(x)) <=> b \in Int /\ C(x) <= b /\ b < StartOf(x)
  <2> SUFFICES ASSUME NEW x \in I, NEW b
               PROVE  b \in GapBytes(G(x)) <=> b \in Int /\ C(x) <= b /\ b < StartOf(x)
    OBVIOUS
  <2>1. C(x) \in Nat /\ StartOf(x) \in Nat
    BY <1>3
  <2>2. GapBytes(G(x)) = C(x)..(C(x) + (StartOf(x) - C(x)) - 1)
    BY DEF GapBytes
  <2> HIDE DEF C, I
  <2> QED
    BY <2>1, <2>2
<1>6. ASSUME NEW x \in I, NEW b \in GapBytes(G(x))
      PROVE  b \in (0..(size - 1)) \ touched
  <2>1. b \in Int /\ C(x) <= b /\ b < StartOf(x) /\ x \in 1..(n + 1)
    BY <1>5, <1>6
  <2>2. b \in 0..(size - 1)
    BY <2>1, <1>3, <1>0
  <2>3. ASSUME NEW k \in 1..n, covered[k].start <= b, b < covered[k].end
        PROVE  FALSE
    <3>0. k \in 1..(n + 1)
      BY <1>0
    <3>1. CASE k < x
      <4>1. covered[k].end <= C(x)
        BY <3>0, <3>1, <2>1, <1>4
      <4> QED
        BY <4>1, <2>3, <2>1, <1>3, <1>0
    <3>2. CASE k = x
      BY <3>2, <2>1, <2>3, <1>3, <1>0
    <3>3. CASE x < k
      <4>1. x \in 1..n /\ StartOf(x) <= covered[x].end
        BY <3>0, <3>3, <2>1, <1>4
      <4>2. covered[x].end < covered[k].start
        BY <4>1, <2>3, <3>3, <1>0 DEF Apart
      <4> QED
        BY <4>1, <4>2, <2>1, <2>3, <1>3, <1>0
    <3> QED
      BY <3>1, <3>2, <3>3, <2>1, <1>0
  <2>4. b \notin touched
    BY <2>3, <1>0, BytesIn
  <2> QED
    BY <2>2, <2>4
<1>7. ASSUME NEW b \in (0..(size - 1)) \ touched
      PROVE  \E x \in I : b \in GapBytes(G(x))
  <2> DEFINE T == {x \in 1..(n + 1) : StartOf(x) > b}
  <2>1. b \in Int /\ 0 <= b /\ b < size /\ ~\E k \in 1..n : covered[k].start <= b /\ b < covered[k].end
    BY <1>0, BytesIn
  <2>2. n + 1 \in T
    BY <2>1, <1>0 DEF StartOf
  <2>3. T \subseteq Nat /\ T # {}
    BY <2>2, <1>0
  <2>4. PICK x \in T : \A k \in T : x <= k
    <3> HIDE DEF T
    <3> QED
      BY <2>3, LeastNat
  <2>5. x \in 1..(n + 1) /\ b < StartOf(x)
    BY <2>1, <1>3
  <2>6. C(x) <= b
    <3>1. CASE x = 1
      BY <3>1, <2>1
    <3>2. CASE x # 1
      <4>1. x - 1 \in 1..n /\ x - 1 \in 1..(n + 1) /\ x - 1 < x
        BY <3>2, <2>5, <1>0
      <4>2. x - 1 \notin T
        <5> HIDE DEF T
        <5>1. x \in Nat /\ ~(x <= x - 1)
          BY <2>5, <1>0
        <5> QED
          BY <5>1, <2>4
      <4>3. covered[x - 1].start <= b
        BY SMTT(30), <4>1, <4>2, <2>1, <1>3, <1>0
      <4>4. covered[x - 1].end <= b
        BY <4>1, <4>3, <2>1, <1>0
      <4> QED
        BY <4>4, <3>2
    <3> QED
      BY <3>1, <3>2
  <2>7. x \in I
    BY <2>1, <2>5, <2>6, <1>3
  <2> QED
    BY <2>1, <2>5, <2>6, <2>7, <1>5
<1>8. ASSUME NEW x \in I, NEW j \in I, x < j
      PROVE  GapBytes(G(x)) \cap GapBytes(G(j)) = {}
  <2>1. StartOf(x) <= C(j)
    <3>1. x \in 1..n /\ StartOf(x) <= covered[x].end /\ covered[x].end <= C(j)
      BY <1>4, <1>8
    <3>2. StartOf(x) \in Nat /\ C(j) \in Nat /\ covered[x].end \in Nat
      BY <3>1, <1>3, <1>0
    <3> HIDE DEF C
    <3> QED
      BY <3>1, <3>2
  <2>2. x \in 1..(n + 1) /\ j \in 1..(n + 1) /\ StartOf(x) \in Nat /\ C(j) \in Nat
    BY <1>3
  <2>3. ASSUME NEW b, b \in GapBytes(G(x)), b \in GapBytes(G(j))
        PROVE  FALSE
    <3>1. b \in Int /\ b < StartOf(x) /\ C(j) <= b
      BY <2>3, <1>5
    <3> HIDE DEF C
    <3> QED
      BY <3>1, <2>1, <2>2
  <2> QED
    BY <2>3
<1>9. UNION {GapBytes(g) : g \in Gaps} = (0..(size - 1)) \ touched
  <2> HIDE DEF I, G, C
  <2> QED
    BY <1>2, <1>6, <1>7
<1>10. ASSUME NEW g \in Gaps, NEW h \in Gaps, g # h
       PROVE  GapBytes(g) \cap GapBytes(h) = {}
  <2> HIDE DEF G, C
  <2>1. PICK x \in I : g = G(x)
    BY <1>2
  <2>2. PICK j \in I : h = G(j)
    BY <1>2
  <2>3. x < j \/ j < x
    BY <2>1, <2>2, <1>10, <1>0
  <2>4. CASE x < j
    BY <2>1, <2>2, <2>4, <1>8
  <2>5. CASE j < x
    <3>1. GapBytes(G(j)) \cap GapBytes(G(x)) = {}
      BY <2>5, <1>8
    <3> QED
      BY <3>1, <2>1, <2>2
  <2> QED
    BY <2>3, <2>4, <2>5
<1> QED
  BY <1>9, <1>10

\* Whatever is read in whatever order, gaps() names every byte that was not
\* read and no other, so that nothing in a file can hide from the residue.
THEOREM GapsComplete == BoundsSpec => []GapsAreUnread
<1>1. BoundsSpec => []BoundsInv
  BY InitInv, NextInv, PTL DEF BoundsSpec
<1> QED
  BY <1>1, GapsExact, PTL

-----------------------------------------------------------------------------
\* The parser.

\* Where a read of _parse_body is due, and where any step of it is.
Reading == {"version", "header", "fields", "section", "runcount", "metrics",
            "trace_chains", "names", "pair", "exec_path", "entry", "volume"}
InBody  == Reading \cup {"signature", "totals", "residue"}

\* A step of _parse_body that leaves the verdict open.
Continues ==
  /\ pc \in InBody /\ pc' \in InBody \cup {"stamp"}
  /\ UNCHANGED outside
  /\ pf'.failed = pf.failed /\ pf'.stamp = pf.stamp
  /\ pf'.decoder = pf.decoder /\ pf'.trailing = pf.trailing
  /\ \A q \in pf'.problems : q \in pf.problems \/ ~q.fatal

\* A step that ends the parse.
Fails ==
  \E stage \in Stages :
    /\ pc \in InBody \cup {"container"} /\ pc' = "stamp"
    /\ UNCHANGED outside
    /\ pf'.failed = stage /\ pf'.stamp = pf.stamp
    /\ pf'.problems = {Problem(stage, TRUE)} \cup (pf'.problems \cap pf.problems)
    /\ pf'.decoder = pf.decoder /\ pf'.trailing = pf.trailing
    /\ stage = "trace_chains" => input.coff < 0

-----------------------------------------------------------------------------
\* The bytes a read of _parse_body wants are given by two integers.
LEMMA WantedIsIntegers ==
  ASSUME ParserAssumption, input \in Inputs, size \in Nat, i \in Nat, pc \in Reading
  PROVE  Wanted[1] \in Int /\ Wanted[2] \in Int
<1>1. /\ input.moff \in Int /\ input.coff \in Int /\ input.ccount \in Int /\ input.noff \in Int
      /\ input.nsize \in Int /\ input.name \in Int /\ input.voff \in Int /\ input.data \in Int
  BY DEF ParserAssumption
<1>2. Usable \in Int /\ NamesEnd \in Int /\ HeaderSize \in Int
  BY <1>1 DEF Usable, Available, NamesEnd, HeaderSize
<1>3. CASE pc = "version"
  BY <1>2, <1>3 DEF Wanted
<1>4. CASE pc = "header"
  BY <1>4 DEF Wanted
<1>5. CASE pc = "fields"
  BY <1>2, <1>5 DEF Wanted
<1>6. CASE pc = "section"
  BY <1>1, <1>2, <1>6 DEF Wanted
<1>7. CASE pc = "runcount"
  BY <1>1, <1>7 DEF Wanted
<1>8. CASE pc = "metrics"
  BY <1>1, <1>8 DEF Wanted
<1>9. CASE pc = "trace_chains"
  BY <1>1, <1>2, <1>9 DEF Wanted
<1>10. CASE pc = "names"
  BY <1>1, <1>10 DEF Wanted
<1>11. CASE pc = "pair"
  BY <1>1, <1>11 DEF Wanted
<1>12. CASE pc = "exec_path"
  BY <1>1, <1>2, <1>12 DEF Wanted
<1>13. CASE pc = "entry"
  BY <1>1, <1>13 DEF Wanted
<1>14. CASE pc = "volume"
  BY <1>1, <1>14 DEF Wanted
<1> QED
  BY <1>3, <1>4, <1>5, <1>6, <1>7, <1>8, <1>9, <1>10, <1>11, <1>12, <1>13, <1>14
     DEF Reading

\* Trace chains that fit are read, whatever their count: only an offset in
\* front of the file is refused.
LEMMA ChainsFit ==
  ASSUME ParserAssumption, input \in Inputs, size \in Nat, pc = "trace_chains",
         ~Skips, ~WantedFits
  PROVE  input.coff < 0
<1>1. input.coff \in Int /\ input.ccount \in Int
  BY DEF ParserAssumption
<1>2. Usable > 0
  BY <1>1 DEF Skips, Usable, Available
<1>3. ~Fits(input.coff, Usable)
  BY DEF WantedFits, Wanted
<1> QED
  BY <1>1, <1>2, <1>3 DEF Fits, Usable, Available

\* The steps of the reader are steps of module Bounds.
LEMMA StepsOfBounds ==
  ASSUME ParserAssumption, input \in Inputs, size \in Nat, i \in Nat, held \in Nat, Next
  PROVE  [BoundsNext]_boundsVars
<1>1. ASSUME NEW keeps, NEW next, pc \in Reading, Reads(keeps, next)
      PROVE  BoundsNext
  <2>1. Wanted[1] \in Int /\ Wanted[2] \in Int
    BY <1>1, WantedIsIntegers
  <2>2. Wanted[1] \in 0..size /\ Wanted[2] \in 0..size
    BY <1>1, <2>1 DEF Reads, WantedFits, Fits
  <2> QED
    BY <1>1, <2>2 DEF Reads, BoundsNext
<1>2. ASSUME NEW length \in Nat, NEW decoder, NEW trailing, Body(length, decoder, trailing)
      PROVE  BoundsNext
  BY <1>2 DEF Body, New, BoundsNext
<1>3. CASE NotAContainer \/ PureDecodes \/ OsDecodes
  <2>1. input.declared \in Nat /\ input.written \in Nat
    BY DEF ParserAssumption
  <2> QED
    BY <2>1, <1>2, <1>3 DEF NotAContainer, PureDecodes, OsDecodes
<1>4. CASE Version \/ Header \/ Fields \/ Section \/ RunCount \/ Metric
  BY <1>1, <1>4 DEF Version, Header, Fields, Section, RunCount, Metric, Reading
<1>5. CASE TraceChains \/ Names \/ Pair \/ ExecPath \/ VolumeEntry \/ VolumeData
  BY <1>1, <1>5 DEF TraceChains, Names, Pair, ExecPath, VolumeEntry, VolumeData, Reading
<1>6. CASE MergeReads
  BY <1>6 DEF MergeReads, BoundsNext
<1>7. CASE StatRefuses \/ TooLong \/ Stat \/ OpenFails \/ ReadTooMuch \/ Read \/ StampSource
           \/ StampRaises \/ NotUnpacked \/ Grow
  BY <1>7 DEF StatRefuses, TooLong, Stat, OpenFails, ReadTooMuch, Read, StampSource,
     StampRaises, NotUnpacked, Grow, NotReadStamped, NotRead, Escapes, locals
<1>8. CASE OutOfFile \/ Signature \/ NotPrefetch \/ SkipSection \/ SectionTooShort
           \/ MetricsDone \/ NoTraceChains \/ PairNameless \/ PairsDone
  BY <1>8 DEF OutOfFile, Signature, NotPrefetch, SkipSection, SectionTooShort, MetricsDone,
     NoTraceChains, PairNameless, PairsDone, Raise, locals
<1>9. CASE NoExecPath \/ VolumesDone \/ Totals \/ Residue \/ ResidueDone
  BY <1>9 DEF NoExecPath, VolumesDone, Totals, Residue, ResidueDone, locals
<1> QED
  BY <1>3, <1>4, <1>5, <1>6, <1>7, <1>8, <1>9 DEF Next, ParseFile

-----------------------------------------------------------------------------
\* A record with a note on it is the same record but for that note.
LEMMA NoteAdds ==
  ASSUME pf \in Records, NEW stage \in Stages
  PROVE  /\ Note(stage) \in Records
         /\ Note(stage).problems = pf.problems \cup {Problem(stage, FALSE)}
         /\ Note(stage).failed = pf.failed /\ Note(stage).stamp = pf.stamp
         /\ Note(stage).decoder = pf.decoder /\ Note(stage).trailing = pf.trailing
<1>1. Problem(stage, FALSE) \in Problems /\ pf.problems \in SUBSET Problems
  BY DEF Problem, Problems, Records
<1> QED
  BY <1>1 DEF Note, Records

\* Every step of _parse_body goes on or fails.
LEMMA BodySteps ==
  ASSUME ParserAssumption, input \in Inputs, size \in Nat, pf \in Records,
         \/ OutOfFile \/ Version \/ Signature \/ NotPrefetch \/ Header \/ Fields
         \/ Section \/ SkipSection \/ SectionTooShort \/ RunCount \/ Metric \/ MetricsDone
         \/ TraceChains \/ NoTraceChains \/ Names \/ Pair \/ PairNameless \/ PairsDone
         \/ ExecPath \/ NoExecPath \/ VolumeEntry \/ VolumeData \/ VolumesDone \/ Totals
         \/ Residue \/ ResidueDone
  PROVE  Continues \/ Fails
<1>1. CASE Version \/ Fields \/ Section \/ RunCount \/ Metric \/ ExecPath \/ VolumeEntry
  BY <1>1 DEF Version, Fields, Section, RunCount, Metric, ExecPath, VolumeEntry, Reads,
     Continues, InBody, Reading
<1>2. CASE Signature \/ SkipSection \/ MetricsDone \/ PairsDone \/ NoExecPath \/ VolumesDone
  BY <1>2 DEF Signature, SkipSection, MetricsDone, PairsDone, NoExecPath, VolumesDone, At,
     Continues, InBody, Reading
<1>n. ASSUME NEW stage \in Stages, pf' = Note(stage)
      PROVE  /\ pf'.failed = pf.failed /\ pf'.stamp = pf.stamp
             /\ pf'.decoder = pf.decoder /\ pf'.trailing = pf.trailing
             /\ \A q \in pf'.problems : q \in pf.problems \/ ~q.fatal
  BY <1>n, NoteAdds DEF Problem
<1>s. {"header", "trace_chains", "filenames", "volumes"} \subseteq Stages
  BY DEF Stages
<1>3. CASE Header
  <2>1. pf' = pf \/ pf' = Note("header")
    BY <1>3 DEF Header
  <2>2. pc \in InBody /\ pc' \in InBody /\ UNCHANGED outside
    BY <1>3 DEF Header, Reads, InBody, Reading
  <2> QED
    BY <2>1, <2>2, <1>n, <1>s DEF Continues
<1>4. CASE TraceChains \/ NoTraceChains
  <2>1. pf' = pf \/ pf' = Note("trace_chains")
    BY <1>4 DEF TraceChains, NoTraceChains, ChainNote
  <2>2. pc \in InBody /\ pc' \in InBody /\ UNCHANGED outside
    BY <1>4 DEF TraceChains, NoTraceChains, At, Reads, InBody, Reading
  <2> QED
    BY <2>1, <2>2, <1>n, <1>s DEF Continues
<1>5. CASE Names
  <2>1. pf' = pf \/ pf' = Note("filenames")
    BY <1>5 DEF Names
  <2>2. pc \in InBody /\ pc' \in InBody /\ UNCHANGED outside
    BY <1>5 DEF Names, Reads, InBody, Reading
  <2> QED
    BY <2>1, <2>2, <1>n, <1>s DEF Continues
<1>6. CASE Pair \/ VolumeData \/ Totals
  <2>1. /\ pf'.failed = pf.failed /\ pf'.stamp = pf.stamp /\ pf'.problems = pf.problems
        /\ pf'.decoder = pf.decoder /\ pf'.trailing = pf.trailing
    BY <1>6 DEF Pair, VolumeData, Totals, Paired, Records
  <2>2. pc \in InBody /\ pc' \in InBody /\ UNCHANGED outside
    BY <1>6 DEF Pair, VolumeData, Totals, At, Reads, InBody, Reading
  <2> QED
    BY <2>1, <2>2 DEF Continues
<1>7. CASE PairNameless
  <2> SUFFICES ASSUME NEW noted, noted = Note("filenames"),
                      pf' = [noted EXCEPT !.metrics = @ + 1]
               PROVE  Continues
    BY <1>7 DEF PairNameless, Paired
  <2>1. /\ noted \in Records /\ noted.problems = pf.problems \cup {Problem("filenames", FALSE)}
        /\ noted.failed = pf.failed /\ noted.stamp = pf.stamp
        /\ noted.decoder = pf.decoder /\ noted.trailing = pf.trailing
    BY <1>s, NoteAdds
  <2>2. /\ pf'.failed = pf.failed /\ pf'.stamp = pf.stamp
        /\ pf'.problems = pf.problems \cup {Problem("filenames", FALSE)}
        /\ pf'.decoder = pf.decoder /\ pf'.trailing = pf.trailing
    BY <2>1 DEF Records
  <2>3. pc \in InBody /\ pc' \in InBody /\ UNCHANGED outside
    BY <1>7 DEF PairNameless, At, InBody, Reading, outside
  <2> QED
    BY <2>2, <2>3 DEF Continues, Problem
<1>8. CASE Residue
  <2>1. /\ pf'.failed = pf.failed /\ pf'.stamp = pf.stamp /\ pf'.problems = pf.problems
        /\ pf'.decoder = pf.decoder /\ pf'.trailing = pf.trailing
    <3>1. PICK g : \/ pf' = pf
                   \/ pf' = [pf EXCEPT !.skipped = @ + g.size]
                   \/ pf' = Retained(g)
      BY <1>8 DEF Residue
    <3> QED
      BY <3>1 DEF Retained, Records
  <2>2. pc \in InBody /\ pc' \in InBody /\ UNCHANGED outside
    BY <1>8 DEF Residue, At, InBody, Reading
  <2> QED
    BY <2>1, <2>2 DEF Continues
<1>9. CASE ResidueDone
  <2>1. pf' = pf \/ pf' = Note("volumes")
    BY <1>9 DEF ResidueDone
  <2>2. pc \in InBody /\ pc' = "stamp" /\ UNCHANGED outside
    BY <1>9 DEF ResidueDone, At, InBody, Reading
  <2> QED
    BY <2>1, <2>2, <1>n, <1>s DEF Continues
<1>f. ASSUME NEW stage \in Stages, Raise(stage), pc \in InBody,
             stage = "trace_chains" => input.coff < 0
      PROVE  Fails
  <2>1. /\ pf'.failed = stage /\ pf'.stamp = pf.stamp
        /\ pf'.problems = pf.problems \cup {Problem(stage, TRUE)}
        /\ pf'.decoder = pf.decoder /\ pf'.trailing = pf.trailing
    BY <1>f DEF Raise, Records
  <2>2. pf'.problems = {Problem(stage, TRUE)} \cup (pf'.problems \cap pf.problems)
    BY <2>1
  <2> QED
    BY <1>f, <2>1, <2>2 DEF Fails, Raise
<1>10. CASE OutOfFile
  <2>1. pc \in Reading /\ StageOf(pc) \in Stages /\ (StageOf(pc) = "trace_chains" => pc = "trace_chains")
    BY <1>10 DEF OutOfFile, Reading, StageOf, Stages
  <2>2. pc = "trace_chains" => input.coff < 0
    BY <1>10, ChainsFit DEF OutOfFile
  <2> QED
    BY <1>10, <1>f, <2>1, <2>2 DEF OutOfFile, InBody
<1>11. CASE NotPrefetch
  BY <1>11, <1>f DEF NotPrefetch, At, InBody, Stages
<1>12. CASE SectionTooShort
  BY <1>12, <1>f DEF SectionTooShort, At, InBody, Reading, Stages
<1> QED
  BY <1>1, <1>2, <1>3, <1>4, <1>5, <1>6, <1>7, <1>8, <1>9, <1>10, <1>11, <1>12

-----------------------------------------------------------------------------
\* A gap has an offset and a size, and the size is not zero.
LEMMA GapsAreRegions ==
  ASSUME BoundsInv
  PROVE  Gaps \subseteq Regions
<1> SUFFICES ASSUME NEW k \in 1..(Len(covered) + 1), StartOf(k) > Cursor(k)
             PROVE  [offset |-> Cursor(k), size |-> StartOf(k) - Cursor(k)] \in Regions
  BY DEF Gaps
<1>0. /\ Len(covered) \in Nat /\ size \in Nat
      /\ \A l \in 1..Len(covered) : covered[l].start \in Nat /\ covered[l].end \in Nat
  BY SpanEnds DEF BoundsInv, BoundsTypeOK
<1>1. Cursor(k) \in Nat
  <2>1. CASE k = 1
    BY <2>1, CursorIs
  <2>2. CASE k # 1
    <3>1. k - 1 \in 1..Len(covered)
      BY <2>2, <1>0
    <3> QED
      BY <3>1, <2>2, CursorIs, <1>0
  <2> QED
    BY <2>1, <2>2
<1>2. StartOf(k) \in Nat
  BY <1>0 DEF StartOf
<1>3. StartOf(k) - Cursor(k) \in Nat \ {0}
  BY <1>1, <1>2
<1> QED
  BY <1>1, <1>3 DEF Regions

\* What is said here of a state besides the invariant of the reader.
Plain ==
  /\ grown \in 0..(MaxBytes + 1) /\ readOnce \in BOOLEAN
  /\ pc \in Places
  /\ st \in Stats \cup {None}
  /\ held \in Nat /\ i \in Nat /\ metrics \in Nat
  /\ stored \in {None, "path", "package"}
  /\ pf \in Records
  /\ onRecord \in SUBSET Int

\* The steps of parse_file keep the types.
LEMMA FileTypes ==
  ASSUME ParserAssumption, input \in Inputs, Plain,
         \/ Grow \/ StatRefuses \/ TooLong \/ Stat \/ OpenFails \/ ReadTooMuch \/ Read
         \/ StampSource \/ StampRaises
  PROVE  Plain'
<1>1. /\ MaxBytes \in Nat /\ Length \in Nat /\ ReadsLimited \in Nat /\ Stamp(Length) \in Stats
      /\ "read" \in Stages /\ Problem("read", TRUE) \in Problems
  BY DEF Plain, ParserAssumption, Length, ReadsLimited, Stamp, Stats, Stages, Problem, Problems
<1>2. ASSUME NEW how \in Stats \cup {None}, NotRead(how)
      PROVE  /\ pf' \in Records /\ pc' \in Places
             /\ UNCHANGED <<grown, i, metrics, stored, onRecord>>
  BY <1>1, <1>2 DEF Plain, NotRead, Records, Places, locals
<1>3. CASE Grow
  BY <1>1, <1>3 DEF Plain, Grow, locals
<1>4. CASE StatRefuses \/ OpenFails
  BY <1>2, <1>4 DEF Plain, StatRefuses, OpenFails
<1>e. ASSUME Escapes
      PROVE  /\ pf' \in Records /\ pc' \in Places
             /\ UNCHANGED <<grown, i, metrics, stored, onRecord>>
  BY <1>e DEF Plain, Escapes, Places, locals
<1>5. CASE TooLong \/ ReadTooMuch
  <2>1. PICK how \in Stats \cup {None} : NotReadStamped(how)
    BY <1>1, <1>5 DEF Plain, TooLong, ReadTooMuch
  <2>2. /\ pf' \in Records /\ pc' \in Places
        /\ UNCHANGED <<grown, i, metrics, stored, onRecord>>
    BY <1>2, <1>e, <2>1 DEF NotReadStamped
  <2> QED
    BY <1>1, <1>5, <2>2 DEF Plain, TooLong, ReadTooMuch
<1>6. CASE Stat \/ Read
  BY <1>1, <1>6 DEF Plain, Stat, Read, Places, locals
<1>7. CASE StampSource
  BY <1>7 DEF Plain, StampSource, Places, Records, locals
<1>8. CASE StampRaises
  BY <1>e, <1>8 DEF Plain, StampRaises
<1> QED
  BY <1>3, <1>4, <1>5, <1>6, <1>7, <1>8

\* The steps of container.load keep the types.
LEMMA ContainerTypes ==
  ASSUME ParserAssumption, input \in Inputs, Plain,
         NotAContainer \/ PureDecodes \/ OsDecodes \/ NotUnpacked
  PROVE  Plain'
<1>1. Slack \in Nat
  BY DEF Plain, ParserAssumption, Slack
<1>2. /\ Problem("container", FALSE) \in Problems /\ Problem("container", TRUE) \in Problems
      /\ "container" \in Stages
  BY DEF Problem, Problems, Stages
<1>3. ASSUME NEW length, NEW decoder \in {"none", "pure", "ntdll"},
             NEW trailing \in Nat \cup {None}, Body(length, decoder, trailing)
      PROVE  Plain'
  <2>0. (IF trailing # None /\ trailing > Padding THEN {Problem("container", FALSE)} ELSE {})
          \in SUBSET Problems
    BY <1>2
  <2>1. PICK noted \in SUBSET Problems :
          pf' = [pf EXCEPT !.decoder = decoder, !.trailing = trailing, !.problems = noted]
    BY <1>3, <2>0 DEF Body
  <2>2. pf' \in Records
    <3>1. PICK first : first = [pf EXCEPT !.decoder = decoder]
      OBVIOUS
    <3>2. first \in Records
      BY <1>3, <3>1 DEF Plain, Records
    <3>3. PICK second : second = [first EXCEPT !.trailing = trailing]
      OBVIOUS
    <3>4. second \in Records
      BY <1>3, <3>2, <3>3 DEF Records
    <3>5. pf' = [second EXCEPT !.problems = noted]
      BY <2>1, <3>1, <3>3
    <3> QED
      BY <3>4, <3>5 DEF Records
  <2> QED
    BY <2>2, <1>3 DEF Plain, Body, Places, outside
<1>4. CASE NotAContainer \/ PureDecodes \/ OsDecodes
  BY <1>1, <1>3, <1>4 DEF NotAContainer, PureDecodes, OsDecodes
<1>5. CASE NotUnpacked
  <2>1. pf' \in Records
    BY <1>2, <1>5 DEF Plain, NotUnpacked, Records
  <2> QED
    BY <2>1, <1>5 DEF Plain, NotUnpacked, Places, locals, outside
<1> QED
  BY <1>4, <1>5

\* The steps of _parse_body keep the types.
LEMMA BodyTypes ==
  ASSUME ParserAssumption, input \in Inputs, BoundsInv, Plain,
         \/ OutOfFile \/ MergeReads \/ Version \/ Signature \/ NotPrefetch \/ Header \/ Fields
         \/ Section \/ SkipSection \/ SectionTooShort \/ RunCount \/ Metric \/ MetricsDone
         \/ TraceChains \/ NoTraceChains \/ Names \/ Pair \/ PairNameless \/ PairsDone
         \/ ExecPath \/ NoExecPath \/ VolumeEntry \/ VolumeData \/ VolumesDone \/ Totals
         \/ Residue \/ ResidueDone
  PROVE  Plain'
<1>0. /\ input.moff \in Int /\ input.noff \in Int /\ input.nsize \in Int /\ input.text \in Int
      /\ input.tail \in {"path", "package", "padding"} /\ size \in Nat
      /\ pf \in Records /\ i \in Nat
  BY DEF ParserAssumption, Plain, BoundsInv, BoundsTypeOK
<1>s. {"header", "trace_chains", "filenames", "volumes"} \subseteq Stages
  BY DEF Stages
<1>r. ASSUME NEW keeps, NEW next \in Places, pc \in Reading, Reads(keeps, next)
      PROVE  /\ UNCHANGED <<grown, readOnce, st, held>> /\ pc' \in Places
             /\ keeps \in SUBSET Int => onRecord' \in SUBSET Int
  BY <1>r DEF Reads, Plain, outside
<1>w. pc \in Reading => WantedBytes \in SUBSET Int
  <2> SUFFICES ASSUME pc \in Reading PROVE WantedBytes \in SUBSET Int
    OBVIOUS
  <2>1. Wanted[1] \in Int /\ Wanted[2] \in Int
    BY <1>0, WantedIsIntegers
  <2> QED
    BY <2>1 DEF WantedBytes
<1>f. ASSUME NEW stage \in Stages, Raise(stage)
      PROVE  Plain'
  <2>1. Problem(stage, TRUE) \in Problems
    BY DEF Problem, Problems
  <2>2. pf' \in Records
    BY <1>0, <1>f, <2>1 DEF Raise, Records
  <2> QED
    BY <1>f, <2>2 DEF Raise, Plain, Places, locals, outside
<1>1. CASE Version \/ Fields \/ Section \/ RunCount \/ VolumeEntry
  <2>1. WantedBytes \in SUBSET Int /\ pc \in Reading
    BY <1>1, <1>w DEF Version, Fields, Section, RunCount, VolumeEntry, Reading
  <2>2. \E next \in Places : Reads(WantedBytes, next)
    BY <1>1 DEF Version, Fields, Section, RunCount, VolumeEntry, Places
  <2>3. /\ UNCHANGED <<grown, readOnce, st, held>> /\ pc' \in Places
        /\ onRecord' \in SUBSET Int
    BY <2>1, <2>2, <1>r
  <2>4. i' \in Nat /\ UNCHANGED <<metrics, stored, pf>>
    BY <1>1, <1>0 DEF Version, Fields, Section, RunCount, VolumeEntry
  <2> QED
    BY <2>3, <2>4 DEF Plain
<1>2. CASE Header \/ TraceChains \/ Names \/ VolumeData
  <2>1. WantedBytes \in SUBSET Int /\ pc \in Reading
    BY <1>2, <1>w DEF Header, TraceChains, Names, VolumeData, Reading
  <2>2. \E next \in Places : Reads(WantedBytes, next)
    BY <1>2 DEF Header, TraceChains, Names, VolumeData, Places
  <2>3. /\ UNCHANGED <<grown, readOnce, st, held>> /\ pc' \in Places
        /\ onRecord' \in SUBSET Int
    BY <2>1, <2>2, <1>r
  <2>4. pf' \in Records
    <3>1. CASE VolumeData
      BY <3>1, <1>0 DEF VolumeData, Records
    <3>2. CASE Header \/ TraceChains \/ Names
      BY <3>2, <1>0, <1>s, NoteAdds DEF Header, TraceChains, Names, ChainNote
    <3> QED
      BY <3>1, <3>2, <1>2
  <2>5. i' \in Nat /\ UNCHANGED <<metrics, stored>>
    BY <1>2, <1>0 DEF Header, TraceChains, Names, VolumeData
  <2> QED
    BY <2>3, <2>4, <2>5 DEF Plain
<1>3. CASE Metric \/ Pair \/ ExecPath
  <2>1. pc \in Reading
    BY <1>3 DEF Metric, Pair, ExecPath, Reading
  <2>2. \E next \in Places, keeps \in SUBSET Int : Reads(keeps, next)
    <3>1. CASE Metric
      BY <3>1 DEF Metric, Places
    <3>2. CASE Pair
      <4>1. input.moff + i \in Int
        BY <1>0
      <4>2. WantedBytes \cup {input.moff + i} \in SUBSET Int /\ "pair" \in Places
        BY <4>1, <2>1, <1>w DEF Places
      <4> QED
        BY <3>2, <4>2 DEF Pair
    <3>3. CASE ExecPath
      <4>1. NamesEnd..(NamesEnd + input.text - 1) \in SUBSET Int
        BY <1>0 DEF NamesEnd
      <4>2. "entry" \in Places
        BY DEF Places
      <4> QED
        BY <3>3, <4>1, <4>2 DEF ExecPath
    <3> QED
      BY <1>3, <3>1, <3>2, <3>3
  <2>3. /\ UNCHANGED <<grown, readOnce, st, held>> /\ pc' \in Places
        /\ onRecord' \in SUBSET Int
    BY <2>1, <2>2, <1>r
  <2>4. i' \in Nat /\ metrics' \in Nat /\ stored' \in {None, "path", "package"} /\ pf' \in Records
    <3>1. CASE Metric
      BY <3>1, <1>0 DEF Metric, Plain
    <3>2. CASE Pair
      <4>1. pf' \in Records
        BY <3>2, <1>0 DEF Pair, Paired, Records
      <4> QED
        BY <3>2, <4>1, <1>0 DEF Pair, Plain
    <3>3. CASE ExecPath
      BY <3>3, <1>0 DEF ExecPath, Plain
    <3> QED
      BY <1>3, <3>1, <3>2, <3>3
  <2> QED
    BY <2>3, <2>4 DEF Plain
<1>4. CASE Signature \/ SkipSection \/ MetricsDone \/ PairsDone \/ VolumesDone
  <2>1. /\ UNCHANGED <<grown, readOnce, st, held, i, metrics, stored, pf, onRecord>>
        /\ pc' \in {"header", "runcount", "trace_chains", "exec_path", "totals"}
    BY <1>4 DEF Signature, SkipSection, MetricsDone, PairsDone, VolumesDone, locals, outside
  <2>2. pc' \in Places
    BY <2>1 DEF Places
  <2> QED
    BY <2>1, <2>2 DEF Plain
<1>m. CASE MergeReads
  BY <1>m DEF MergeReads, Plain, outside
<1>p. CASE NoExecPath
  BY <1>p DEF NoExecPath, Plain, Places, outside
<1>5. CASE NoTraceChains \/ ResidueDone
  <2>1. pf' \in Records
    BY <1>5, <1>0, <1>s, NoteAdds DEF NoTraceChains, ChainNote, ResidueDone
  <2> QED
    BY <1>5, <2>1 DEF NoTraceChains, ResidueDone, Plain, Places, locals, outside
<1>6. CASE PairNameless
  <2> SUFFICES ASSUME NEW noted, noted = Note("filenames"),
                      pf' = [noted EXCEPT !.metrics = @ + 1]
               PROVE  Plain'
    BY <1>6 DEF PairNameless, Paired
  <2>1. noted \in Records
    BY <1>0, <1>s, NoteAdds
  <2>2. pf' \in Records
    BY <2>1 DEF Records
  <2> QED
    BY <1>6, <1>0, <2>2 DEF PairNameless, Plain, Places, outside
<1>7. CASE Totals
  <2>1. ResolvedPath \in PathSources
    BY DEF ResolvedPath, PathSources
  <2>2. pf' \in Records
    BY <1>7, <1>0, <2>1 DEF Totals, Records
  <2> QED
    BY <1>7, <2>2 DEF Totals, Plain, Places, outside
<1>8. CASE Residue
  <2>1. PICK g \in Gaps :
          /\ i' = g.offset + g.size
          /\ \/ pf' = pf
             \/ pf' = [pf EXCEPT !.skipped = @ + g.size]
             \/ pf' = Retained(g)
    BY <1>8 DEF Residue
  <2>2. g \in Regions /\ g.offset \in Nat /\ g.size \in Nat
    BY <2>1, GapsAreRegions DEF Regions
  <2>3. pf.kept \in 0..MaxKept /\ pf.skipped \in Nat /\ pf.residue \in SUBSET Regions
    BY <1>0 DEF Records
  <2>4. pf.kept + (IF g.size < Room THEN g.size ELSE Room) \in 0..MaxKept
    BY <2>2, <2>3 DEF Room, ParserAssumption
  <2>5. pf' \in Records
    <3>1. CASE pf' = pf
      BY <3>1, <1>0
    <3>2. CASE pf' = [pf EXCEPT !.skipped = @ + g.size]
      BY <3>2, <1>0, <2>2, <2>3 DEF Records
    <3>3. CASE pf' = Retained(g)
      BY <3>3, <1>0, <2>2, <2>3, <2>4 DEF Retained, Records
    <3> QED
      BY <2>1, <3>1, <3>2, <3>3
  <2> QED
    BY <1>8, <2>1, <2>2, <2>5 DEF Residue, Plain, outside
<1>9. CASE OutOfFile \/ NotPrefetch \/ SectionTooShort
  <2>1. \E stage \in Stages : Raise(stage)
    BY <1>9 DEF OutOfFile, NotPrefetch, SectionTooShort, StageOf, Stages
  <2> QED
    BY <2>1, <1>f
<1> QED
  BY <1>1, <1>2, <1>3, <1>4, <1>m, <1>p, <1>5, <1>6, <1>7, <1>8, <1>9

-----------------------------------------------------------------------------
Ended == pc \in {"stamp", "done", "raised"}

\* The fatal problems are those of the stage that failed.
FatalIsFailed ==
  {p.stage : p \in {q \in pf.problems : q.fatal}} = IF pf.failed = None THEN {} ELSE {pf.failed}

\* A parse that goes on has not failed, and was stamped by nobody: the stat
\* behind every stamp is older than the read.
ParserInv ==
  /\ input \in Inputs
  /\ BoundsInv /\ Plain
  /\ ~Ended => pf.failed = None
  /\ FatalIsFailed
  /\ pc \in {"stat", "open"} => readOnce = FALSE
  /\ st # None => st.accessed = FALSE
  /\ pf.stamp # None => pf.stamp.accessed = FALSE
  /\ MemoryIsBounded
  /\ BadCountLosesNothing

\* On a record that has not failed no problem is fatal.
LEMMA NoFatal ==
  ASSUME FatalIsFailed, pf.failed = None
  PROVE  \A q \in pf.problems : ~q.fatal
<1>1. {p.stage : p \in {q \in pf.problems : q.fatal}} = {}
  BY DEF FatalIsFailed
<1> SUFFICES ASSUME NEW q \in pf.problems, q.fatal
             PROVE  FALSE
  OBVIOUS
<1>2. q \in {x \in pf.problems : x.fatal}
  OBVIOUS
<1>3. q.stage \in {p.stage : p \in {x \in pf.problems : x.fatal}}
  BY <1>2
<1> QED
  BY <1>1, <1>3

\* A step that goes on keeps what is said of the record.
LEMMA ContinuesKeeps ==
  ASSUME ParserAssumption, ParserInv, pf' \in Records, Continues
  PROVE  /\ ~Ended' => pf'.failed = None
         /\ FatalIsFailed'
         /\ pf'.stamp # None => pf'.stamp.accessed = FALSE
         /\ BadCountLosesNothing' /\ MemoryIsBounded'
         /\ ~(pc' \in {"stat", "open"}) /\ UNCHANGED <<input, st>>
<1>1. /\ pf.failed = None /\ pf'.failed = None
      /\ ~(pc' \in {"stat", "open"}) /\ UNCHANGED <<input, st, held>>
  BY DEF ParserInv, Continues, Ended, InBody, Reading, outside
<1>2. \A q \in pf.problems : ~q.fatal
  BY <1>1, NoFatal DEF ParserInv
<1>3. \A q \in pf'.problems : ~q.fatal
  BY <1>2 DEF Continues
<1>4. FatalIsFailed'
  BY <1>1, <1>3 DEF FatalIsFailed
<1>5. BadCountLosesNothing'
  BY <1>1 DEF BadCountLosesNothing, ParserAssumption, Stages
<1> QED
  BY <1>1, <1>4, <1>5 DEF ParserInv, Continues, MemoryIsBounded

\* So does a step that fails.
LEMMA FailsKeeps ==
  ASSUME ParserAssumption, ParserInv, pf' \in Records, Fails
  PROVE  /\ ~Ended' => pf'.failed = None
         /\ FatalIsFailed'
         /\ pf'.stamp # None => pf'.stamp.accessed = FALSE
         /\ BadCountLosesNothing' /\ MemoryIsBounded'
         /\ ~(pc' \in {"stat", "open"}) /\ UNCHANGED <<input, st>>
<1>1. PICK stage \in Stages :
        /\ pc \in InBody \cup {"container"} /\ pc' = "stamp"
        /\ UNCHANGED outside
        /\ pf'.failed = stage /\ pf'.stamp = pf.stamp
        /\ pf'.problems = {Problem(stage, TRUE)} \cup (pf'.problems \cap pf.problems)
        /\ stage = "trace_chains" => input.coff < 0
  BY DEF Fails
<1>2. pf.failed = None
  BY <1>1 DEF ParserInv, Ended, InBody, Reading
<1>3. \A q \in pf.problems : ~q.fatal
  BY <1>2, NoFatal DEF ParserInv
<1>4. /\ Problem(stage, TRUE) \in pf'.problems
      /\ Problem(stage, TRUE).fatal /\ Problem(stage, TRUE).stage = stage
      /\ \A q \in pf'.problems : q.fatal => q = Problem(stage, TRUE)
  BY <1>1, <1>3 DEF Problem
<1>5. stage # None
  BY DEF ParserAssumption
<1>6. FatalIsFailed'
  BY <1>1, <1>4, <1>5 DEF FatalIsFailed
<1> QED
  BY <1>1, <1>6 DEF ParserInv, Ended, MemoryIsBounded, BadCountLosesNothing, outside

\* The steps of parse_file and of load.
LEMMA FileKeeps ==
  ASSUME ParserAssumption, ParserInv,
         \/ Grow \/ StatRefuses \/ TooLong \/ Stat \/ OpenFails \/ ReadTooMuch \/ Read
         \/ StampSource \/ StampRaises \/ NotAContainer \/ PureDecodes \/ OsDecodes
  PROVE  /\ input' = input
         /\ ~Ended' => pf'.failed = None
         /\ FatalIsFailed'
         /\ pc' \in {"stat", "open"} => readOnce' = FALSE
         /\ st' # None => st'.accessed = FALSE
         /\ pf'.stamp # None => pf'.stamp.accessed = FALSE
         /\ MemoryIsBounded' /\ BadCountLosesNothing'
<1>0. /\ pf \in Records /\ MaxBytes \in Nat /\ Length \in Nat /\ None \notin Stages
      /\ readOnce \in BOOLEAN
  BY DEF ParserInv, Plain, ParserAssumption, Length
<1>1. ReadsLimited <= MaxBytes + 1
  BY <1>0 DEF ReadsLimited
<1>2. Stamp(Length).accessed = readOnce
  BY DEF Stamp
<1>3. ASSUME NEW how, NotRead(how), how # None => how.accessed = FALSE
      PROVE  /\ input' = input /\ Ended' /\ FatalIsFailed' /\ ~(pc' \in {"stat", "open"})
             /\ pf'.stamp # None => pf'.stamp.accessed = FALSE
             /\ BadCountLosesNothing'
  <2>1. /\ pf'.failed = "read" /\ pf'.problems = {Problem("read", TRUE)} /\ pf'.stamp = how
        /\ pc' = "done" /\ input' = input
    BY <1>0, <1>3 DEF NotRead, Records
  <2>2. "read" # None
    BY <1>0 DEF Stages
  <2>3. FatalIsFailed'
    <3>1. /\ Problem("read", TRUE) \in pf'.problems
          /\ Problem("read", TRUE).fatal /\ Problem("read", TRUE).stage = "read"
          /\ \A q \in pf'.problems : q = Problem("read", TRUE)
      BY <2>1 DEF Problem
    <3> QED
      BY <2>1, <2>2, <3>1 DEF FatalIsFailed
  <2> QED
    BY <1>3, <2>1, <2>3 DEF Ended, BadCountLosesNothing
<1>e. ASSUME Escapes
      PROVE  /\ input' = input /\ Ended' /\ FatalIsFailed' /\ ~(pc' \in {"stat", "open"})
             /\ pf'.stamp # None => pf'.stamp.accessed = FALSE
             /\ BadCountLosesNothing'
  BY <1>e DEF Escapes, Ended, ParserInv, FatalIsFailed, BadCountLosesNothing
<1>n. ASSUME NEW how, NotReadStamped(how), how # None => how.accessed = FALSE
      PROVE  /\ input' = input /\ Ended' /\ FatalIsFailed' /\ ~(pc' \in {"stat", "open"})
             /\ pf'.stamp # None => pf'.stamp.accessed = FALSE
             /\ BadCountLosesNothing'
  BY <1>3, <1>e, <1>n DEF NotReadStamped
<1>4. CASE Grow
  BY <1>4 DEF Grow, ParserInv, Ended, FatalIsFailed, MemoryIsBounded, BadCountLosesNothing, locals
<1>5. CASE StatRefuses \/ OpenFails
  BY <1>3, <1>5 DEF StatRefuses, OpenFails, ParserInv, MemoryIsBounded
<1>6. CASE TooLong
  BY <1>2, <1>n, <1>6 DEF TooLong, ParserInv, MemoryIsBounded
<1>7. CASE Stat
  BY <1>2, <1>7 DEF Stat, ParserInv, Ended, FatalIsFailed, MemoryIsBounded,
     BadCountLosesNothing, locals
<1>8. CASE ReadTooMuch
  BY <1>1, <1>n, <1>8 DEF ReadTooMuch, ParserInv, MemoryIsBounded
<1>9. CASE Read
  BY <1>1, <1>9 DEF Read, ParserInv, Ended, FatalIsFailed, MemoryIsBounded,
     BadCountLosesNothing, locals
<1>10. CASE StampSource
  <2>1. /\ pf'.failed = pf.failed /\ pf'.problems = pf.problems /\ pf'.stamp = st
        /\ pc' = "done" /\ UNCHANGED <<input, st, held>>
    BY <1>0, <1>10 DEF StampSource, Records
  <2> QED
    BY <2>1 DEF ParserInv, Ended, FatalIsFailed, MemoryIsBounded, BadCountLosesNothing
<1>11. CASE NotAContainer \/ PureDecodes \/ OsDecodes
  <2>1. PICK length, decoder, trailing : Body(length, decoder, trailing) /\ pc = "container"
    BY <1>11 DEF NotAContainer, PureDecodes, OsDecodes
  <2>2. /\ pf'.failed = pf.failed /\ pf'.stamp = pf.stamp /\ pf.failed = None
        /\ pf'.problems \in {{Problem("container", FALSE)}, {}}
        /\ pc' = "version" /\ UNCHANGED <<input, st, held>>
    BY <1>0, <2>1 DEF Body, Records, ParserInv, Ended, outside
  <2>3. FatalIsFailed'
    BY <2>2 DEF FatalIsFailed, Problem
  <2>4. BadCountLosesNothing'
    BY <2>2, <1>0 DEF BadCountLosesNothing, Stages
  <2> QED
    BY <2>2, <2>3, <2>4 DEF ParserInv, MemoryIsBounded
<1>12. CASE StampRaises
  BY <1>e, <1>12 DEF StampRaises, ParserInv, MemoryIsBounded
<1> QED
  BY <1>4, <1>5, <1>6, <1>7, <1>8, <1>9, <1>10, <1>11, <1>12

\* A container that cannot be unpacked fails the record like any stage.
LEMMA NotUnpackedFails ==
  ASSUME pf \in Records, NotUnpacked
  PROVE  Fails
<1>1. "container" \in Stages /\ "container" # "trace_chains"
  BY DEF Stages
<1>2. /\ pc = "container" /\ pc' = "stamp" /\ UNCHANGED outside
      /\ pf'.failed = "container" /\ pf'.stamp = pf.stamp
      /\ pf'.problems = {Problem("container", TRUE)}
      /\ pf'.decoder = pf.decoder /\ pf'.trailing = pf.trailing
  BY DEF NotUnpacked, Records
<1> QED
  BY <1>1, <1>2 DEF Fails

-----------------------------------------------------------------------------
\* The first state of a call.
LEMMA InitParser ==
  ASSUME ParserAssumption, Init
  PROVE  ParserInv
<1>1. EmptyRecord \in Records
  BY DEF EmptyRecord, Records, ParserAssumption
<1>2. BoundsInv
  BY InitInv DEF Init
<1>3. Plain
  <2>1. 0 \in 0..(MaxBytes + 1) /\ "stat" \in Places /\ {} \in SUBSET Int
    BY DEF ParserAssumption, Places
  <2>2. /\ grown = 0 /\ readOnce = FALSE /\ pc = "stat" /\ st = None /\ held = 0
        /\ i = 0 /\ metrics = 0 /\ stored = None /\ onRecord = {} /\ pf \in Records
    BY <1>1 DEF Init
  <2> QED
    BY <2>1, <2>2 DEF Plain
<1>4. pf.failed = None /\ pf.problems = {} /\ pf.stamp = None
  BY DEF Init, EmptyRecord
<1>5. FatalIsFailed
  BY <1>4 DEF FatalIsFailed
<1>6. MemoryIsBounded
  BY DEF Init, MemoryIsBounded, ParserAssumption
<1>7. BadCountLosesNothing
  BY <1>4 DEF BadCountLosesNothing, ParserAssumption, Stages
<1> QED
  BY <1>2, <1>3, <1>4, <1>5, <1>6, <1>7 DEF Init, ParserInv

\* Every step keeps the invariant.
LEMMA NextParser ==
  ASSUME ParserAssumption, ParserInv, [Next]_vars
  PROVE  ParserInv'
<1>0. /\ input \in Inputs /\ BoundsInv /\ Plain /\ pf \in Records
      /\ size \in Nat /\ i \in Nat /\ held \in Nat
  BY DEF ParserInv, Plain, BoundsInv, BoundsTypeOK
<1>1. BoundsInv'
  <2>1. [BoundsNext]_boundsVars
    BY <1>0, StepsOfBounds DEF vars
  <2> QED
    BY <1>0, <2>1, NextInv
<1>2. CASE UNCHANGED vars
  BY <1>1, <1>2 DEF ParserInv, Plain, Ended, FatalIsFailed, MemoryIsBounded,
     BadCountLosesNothing, vars
<1>3. CASE MergeReads
  <2>1. Plain'
    BY <1>0, <1>3, BodyTypes
  <2>2. UNCHANGED <<input, readOnce, pc, st, held, pf>>
    BY <1>3 DEF MergeReads, outside
  <2> QED
    BY <1>1, <2>1, <2>2 DEF ParserInv, Ended, FatalIsFailed, MemoryIsBounded,
       BadCountLosesNothing
<1>4. CASE \/ Grow \/ StatRefuses \/ TooLong \/ Stat \/ OpenFails \/ ReadTooMuch \/ Read
           \/ StampSource \/ StampRaises \/ NotAContainer \/ PureDecodes \/ OsDecodes
  <2>1. Plain'
    BY <1>0, <1>4, FileTypes, ContainerTypes
  <2> QED
    BY <1>0, <1>1, <1>4, <2>1, FileKeeps DEF ParserInv
<1>5. ASSUME Plain', Continues \/ Fails
      PROVE  ParserInv'
  <2>1. pf' \in Records
    BY <1>5 DEF Plain
  <2> QED
    BY <1>0, <1>1, <1>5, <2>1, ContinuesKeeps, FailsKeeps DEF ParserInv
<1>6. CASE NotUnpacked
  BY <1>0, <1>5, <1>6, ContainerTypes, NotUnpackedFails
<1>7. CASE \/ OutOfFile \/ Version \/ Signature \/ NotPrefetch \/ Header \/ Fields
           \/ Section \/ SkipSection \/ SectionTooShort \/ RunCount \/ Metric \/ MetricsDone
           \/ TraceChains \/ NoTraceChains \/ Names \/ Pair \/ PairNameless \/ PairsDone
           \/ ExecPath \/ NoExecPath \/ VolumeEntry \/ VolumeData \/ VolumesDone \/ Totals
           \/ Residue \/ ResidueDone
  <2>1. Plain'
    BY <1>0, <1>7, BodyTypes
  <2>2. Continues \/ Fails
    BY <1>0, <1>7, BodySteps
  <2> QED
    BY <2>1, <2>2, <1>5
<1> QED
  BY <1>2, <1>3, <1>4, <1>6, <1>7 DEF Next, ParseFile

\* The invariant holds in every state of every parse.
LEMMA ParserInvariant == Spec => []ParserInv
  BY ParserAssumption, InitParser, NextParser, PTL DEF Spec

-----------------------------------------------------------------------------
\* Whatever the file, the record and the locals have the types of the code.
THEOREM ParserTypes == Spec => []TypeOK
<1>1. ParserInv => TypeOK
  BY DEF ParserInv, Plain, BoundsInv, TypeOK
<1> QED
  BY <1>1, ParserInvariant, PTL

\* In every parse, wherever it stands, the gaps are the bytes no read asked for:
\* _residue looks at all that was not read.
THEOREM ParserGaps == Spec => []GapsAreUnread
<1>1. ParserInv => GapsAreUnread
  BY GapsExact DEF ParserInv
<1> QED
  BY <1>1, ParserInvariant, PTL

\* failed_stage and the fatal problems of a finished record never contradict
\* each other, whichever read or decoder failed.
THEOREM VerdictAgrees == Spec => []VerdictMatchesProblems
<1>1. ParserInv => VerdictMatchesProblems
  BY DEF ParserInv, FatalIsFailed, VerdictMatchesProblems
<1> QED
  BY <1>1, ParserInvariant, PTL

\* No declared number of trace chains, and no size of file, makes the parse end
\* in that stage: only an offset in front of the file does.
THEOREM TraceChainsNeverFatal == Spec => []BadCountLosesNothing
<1>1. ParserInv => BadCountLosesNothing
  BY DEF ParserInv
<1> QED
  BY <1>1, ParserInvariant, PTL

\* Another process may append any amount at any moment: one byte more than the
\* ceiling is all parse_file ever holds.
THEOREM MemoryCeiling == Spec => []MemoryIsBounded
<1>1. ParserInv => MemoryIsBounded
  BY DEF ParserInv
<1> QED
  BY <1>1, ParserInvariant, PTL

\* The access time on a record was taken before the tool read the file.
THEOREM StampPredatesRead == Spec => []AccessIsNotOurs
<1>1. ParserInv => AccessIsNotOurs
  BY DEF ParserInv, AccessIsNotOurs
<1> QED
  BY <1>1, ParserInvariant, PTL

-----------------------------------------------------------------------------
(* The decoder that is stated is the one that ran: it is put on the record  *)
(* when load returns, from a file that no longer grows for the reader, and  *)
(* no later stage touches it.                                               *)

DecoderInv ==
  /\ pc \in {"stat", "open", "container"} => pf.decoder = None
  /\ DecoderIsHonest

\* Every step keeps it.
LEMMA DecoderStep ==
  ASSUME ParserAssumption, ParserInv, DecoderInv, [Next]_vars
  PROVE  DecoderInv'
<1>0. /\ input \in Inputs /\ pf \in Records /\ size \in Nat
      /\ input.prefer \in {"auto", "ntdll", "pure"}
  BY DEF ParserInv, Plain, BoundsInv, BoundsTypeOK, ParserAssumption
<1>1. ASSUME UNCHANGED <<input, grown>>, pf'.decoder = pf.decoder, pf'.trailing = pf.trailing,
             pc' \in {"stat", "open", "container"} => pc \in {"stat", "open", "container"}
      PROVE  DecoderInv'
  BY <1>1 DEF DecoderInv, DecoderIsHonest, Slack
<1>2. CASE UNCHANGED vars
  BY <1>1, <1>2 DEF vars
<1>3. CASE Grow
  <2>1. pf' = pf /\ pf.decoder = None
    BY <1>3 DEF Grow, DecoderInv
  <2> QED
    BY <2>1 DEF DecoderInv, DecoderIsHonest
<1>4. CASE StatRefuses \/ TooLong \/ Stat \/ OpenFails \/ ReadTooMuch \/ Read
  <2>1. pf'.decoder = pf.decoder /\ pf'.trailing = pf.trailing /\ UNCHANGED <<input, grown>>
        /\ pc \in {"stat", "open"}
    BY <1>0, <1>4 DEF StatRefuses, TooLong, Stat, OpenFails, ReadTooMuch, Read, NotReadStamped,
       NotRead, Escapes, Records, locals
  <2> QED
    BY <1>1, <2>1
<1>5. CASE StampSource \/ StampRaises
  <2>1. pf'.decoder = pf.decoder /\ pf'.trailing = pf.trailing /\ UNCHANGED <<input, grown>>
        /\ pc' \in {"done", "raised"}
    BY <1>0, <1>5 DEF StampSource, StampRaises, Escapes, Records
  <2> QED
    BY <1>1, <2>1
<1>6. ASSUME NEW length, NEW decoder, NEW trailing, Body(length, decoder, trailing)
      PROVE  /\ pf'.decoder = decoder /\ pf'.trailing = trailing /\ UNCHANGED <<input, grown>>
             /\ pc' = "version"
  BY <1>0, <1>6 DEF Body, Records, outside
<1>7. CASE NotAContainer
  <2>1. /\ pf'.decoder = "none" /\ pf'.trailing = 0 /\ UNCHANGED <<input, grown>>
        /\ pc' = "version" /\ input.box = "plain"
    BY <1>6, <1>7 DEF NotAContainer
  <2> QED
    BY <2>1 DEF DecoderInv, DecoderIsHonest
<1>8. CASE PureDecodes
  <2>1. /\ pf'.decoder = "pure" /\ pf'.trailing = Slack /\ UNCHANGED <<input, grown>>
        /\ pc' = "version" /\ input.prefer \in {"auto", "pure"}
    BY <1>6, <1>8 DEF PureDecodes, PureChosen
  <2> QED
    BY <2>1 DEF DecoderInv, DecoderIsHonest, Slack
<1>9. CASE OsDecodes
  <2>1. /\ pf'.decoder = "ntdll" /\ pf'.trailing = None /\ UNCHANGED <<input, grown>>
        /\ pc' = "version" /\ input.prefer \in {"auto", "ntdll"}
    BY <1>0, <1>6, <1>9 DEF OsDecodes, OsChosen, PureChosen
  <2> QED
    BY <2>1 DEF DecoderInv, DecoderIsHonest
<1>10. CASE MergeReads
  BY <1>1, <1>10 DEF MergeReads, outside
<1>11. ASSUME Continues \/ Fails PROVE DecoderInv'
  <2>1. pf'.decoder = pf.decoder /\ pf'.trailing = pf.trailing /\ UNCHANGED <<input, grown>>
        /\ pc' \notin {"stat", "open", "container"}
    BY <1>11 DEF Continues, Fails, InBody, Reading, outside
  <2> QED
    BY <1>1, <2>1
<1>12. CASE NotUnpacked
  BY <1>0, <1>11, <1>12, NotUnpackedFails
<1>13. CASE \/ OutOfFile \/ Version \/ Signature \/ NotPrefetch \/ Header \/ Fields
            \/ Section \/ SkipSection \/ SectionTooShort \/ RunCount \/ Metric \/ MetricsDone
            \/ TraceChains \/ NoTraceChains \/ Names \/ Pair \/ PairNameless \/ PairsDone
            \/ ExecPath \/ NoExecPath \/ VolumeEntry \/ VolumeData \/ VolumesDone \/ Totals
            \/ Residue \/ ResidueDone
  BY <1>0, <1>11, <1>13, BodySteps
<1> QED
  BY <1>2, <1>3, <1>4, <1>5, <1>7, <1>8, <1>9, <1>10, <1>12, <1>13 DEF Next, ParseFile

\* A forced decoder is never replaced by another, and the bytes behind the stream
\* are what is there or "not measured", on every record and also while it is made.
THEOREM DecoderStated == Spec => []DecoderIsHonest
<1>1. Init => DecoderInv
  BY DEF Init, EmptyRecord, DecoderInv, DecoderIsHonest
<1>2. ParserInv /\ DecoderInv /\ [Next]_vars => DecoderInv'
  BY ParserAssumption, DecoderStep
<1>3. DecoderInv => DecoderIsHonest
  BY DEF DecoderInv
<1> QED
  BY <1>1, <1>2, <1>3, ParserInvariant, PTL DEF Spec

-----------------------------------------------------------------------------
(* Residue.  Gap by gap in the order of their offsets _residue keeps a       *)
(* region or counts its bytes; the gaps are disjoint, so one that was looked *)
(* at is behind `i` and every other one in front of it, and no byte is       *)
(* counted twice.                                                            *)

\* The gaps that hold something, and those of them _residue has looked at.
Telling == {g \in Gaps : ~(GapBytes(g) \subseteq input.zero)}
Passed  == {g \in Telling : g.offset < i}

\* Of the gaps `looked` at, each is retained or its bytes are counted.
Accounted(looked) ==
  /\ pf.residue \subseteq looked
  /\ pf.skipped = Cardinality(UNION {GapBytes(g) : g \in looked \ pf.residue})

ResidueInv ==
  /\ pc \in {"stat", "open", "container", "totals", "residue", "stamp", "done", "raised"} => loose = <<>>
  /\ pc \notin {"residue", "stamp", "done", "raised"} => pf.residue = {} /\ pf.skipped = 0
  /\ pc = "residue" => Accounted(Passed)
  /\ pc \in {"stamp", "done"} /\ pf.failed = None => Accounted(Telling)

\* Gaps are disjoint stretches of the file, with something in them.
LEMMA GapsApart ==
  ASSUME BoundsInv, loose = <<>>
  PROVE  /\ \A g \in Gaps : /\ g.offset \in Nat /\ g.size \in Nat \ {0}
                            /\ GapBytes(g) \subseteq 0 .. (size - 1)
         /\ \A g, h \in Gaps : g # h => GapBytes(g) \cap GapBytes(h) = {}
         /\ \A g, h \in Gaps : g # h /\ g.offset <= h.offset => g.offset + g.size <= h.offset
<1>1. \A g \in Gaps : g.offset \in Nat /\ g.size \in Nat \ {0}
  BY GapsAreRegions DEF Regions
<1>2. /\ UNION {GapBytes(g) : g \in Gaps} = (0 .. (size - 1)) \ touched
      /\ \A g, h \in Gaps : g # h => GapBytes(g) \cap GapBytes(h) = {}
  BY GapsExact DEF GapsAreUnread
<1>3. \A g \in Gaps : GapBytes(g) \subseteq 0 .. (size - 1)
  BY <1>2
<1>4. ASSUME NEW g \in Gaps, NEW h \in Gaps, g # h, g.offset <= h.offset
      PROVE  g.offset + g.size <= h.offset
  <2> SUFFICES ASSUME h.offset < g.offset + g.size PROVE FALSE
    BY <1>1
  <2>1. h.offset \in GapBytes(g) /\ h.offset \in GapBytes(h)
    BY <1>1, <1>4 DEF GapBytes
  <2> QED
    BY <1>2, <1>4, <2>1
<1> QED
  BY <1>1, <1>2, <1>3, <1>4

\* The bytes of the gaps not retained, with one more gap among them.
LEMMA BytesAdd ==
  ASSUME BoundsInv, loose = <<>>, NEW some \in SUBSET Gaps, NEW g \in Gaps, g \notin some
  PROVE  Cardinality(UNION {GapBytes(h) : h \in some \cup {g}})
           = Cardinality(UNION {GapBytes(h) : h \in some}) + g.size
<1> DEFINE A == UNION {GapBytes(h) : h \in some}
<1>1. /\ g.offset \in Nat /\ g.size \in Nat \ {0} /\ size \in Nat
      /\ A \subseteq 0 .. (size - 1) /\ A \cap GapBytes(g) = {}
  BY GapsApart DEF BoundsInv, BoundsTypeOK
<1>2. UNION {GapBytes(h) : h \in some \cup {g}} = A \cup GapBytes(g)
  OBVIOUS
<1> HIDE DEF A
<1>3. IsFiniteSet(A)
  <2>1. 0 \in Int /\ size - 1 \in Int
    BY <1>1
  <2>2. IsFiniteSet(0 .. (size - 1))
    BY <2>1, FS_Interval
  <2> QED
    BY <1>1, <2>2, FS_Subset
<1>4. IsFiniteSet(GapBytes(g)) /\ Cardinality(GapBytes(g)) = g.size
  <2>1. \A a, b \in Int : a <= b => IsFiniteSet(a .. b) /\ Cardinality(a .. b) = b - a + 1
    BY FS_Interval
  <2>2. PICK a \in Int, b \in Int : a = g.offset /\ b = g.offset + g.size - 1
    BY <1>1
  <2>3. a <= b /\ b - a + 1 = g.size
    BY <1>1, <2>2
  <2>4. GapBytes(g) = a .. b
    BY <2>2 DEF GapBytes
  <2> QED
    BY <2>1, <2>3, <2>4
<1>5. Cardinality(A) \in Nat
  BY <1>3, FS_CardinalityType
<1>6. Cardinality(A \cup GapBytes(g))
        = Cardinality(A) + Cardinality(GapBytes(g)) - Cardinality(A \cap GapBytes(g))
  BY <1>3, <1>4, FS_Union
<1>7. Cardinality(A \cap GapBytes(g)) = 0
  BY <1>1, FS_EmptySet
<1>8. Cardinality(A \cup GapBytes(g)) = Cardinality(A) + g.size
  BY <1>1, <1>4, <1>5, <1>6, <1>7
<1> QED
  BY <1>2, <1>8 DEF A

\* All but _residue leave the residue of the record alone.
LEMMA ResidueUntouched ==
  ASSUME pf \in Records, [Next]_vars, ~Residue
  PROVE  pf'.residue = pf.residue /\ pf'.skipped = pf.skipped
<1> DEFINE Same == pf'.residue = pf.residue /\ pf'.skipped = pf.skipped
<1>n. \A stage : Note(stage).residue = pf.residue /\ Note(stage).skipped = pf.skipped
  BY DEF Note, Records
<1>1. CASE UNCHANGED vars
  BY <1>1 DEF vars
<1>2. CASE \/ Grow \/ Stat \/ Read \/ MergeReads \/ Version \/ Signature \/ Fields \/ Section
           \/ SkipSection \/ RunCount \/ Metric \/ MetricsDone \/ PairsDone
  BY <1>2 DEF Grow, Stat, Read, MergeReads, Version, Signature, Fields, Section, SkipSection,
     RunCount, Metric, MetricsDone, PairsDone
<1>3. CASE ExecPath \/ NoExecPath \/ VolumeEntry \/ VolumesDone
  BY <1>3 DEF ExecPath, NoExecPath, VolumeEntry, VolumesDone
<1>4. CASE StatRefuses \/ TooLong \/ OpenFails \/ ReadTooMuch \/ StampSource \/ StampRaises
  BY <1>4 DEF StatRefuses, TooLong, OpenFails, ReadTooMuch, NotReadStamped, NotRead, Escapes,
     StampSource, StampRaises, Records
<1>5. CASE NotAContainer \/ PureDecodes \/ OsDecodes \/ NotUnpacked
  BY <1>5 DEF NotAContainer, PureDecodes, OsDecodes, NotUnpacked, Body, Records
<1>6. CASE OutOfFile \/ NotPrefetch \/ SectionTooShort
  BY <1>6 DEF OutOfFile, NotPrefetch, SectionTooShort, Raise, Records
<1>7. CASE Header \/ TraceChains \/ NoTraceChains \/ Names \/ ResidueDone
  BY <1>7, <1>n DEF Header, TraceChains, NoTraceChains, ChainNote, Names, ResidueDone
<1>8. CASE Pair \/ VolumeData \/ Totals
  BY <1>8 DEF Pair, Paired, VolumeData, Totals, Records
<1>9. CASE PairNameless
  <2> SUFFICES ASSUME NEW noted, noted = Note("filenames"),
                      pf' = [noted EXCEPT !.metrics = @ + 1]
               PROVE  Same
    BY <1>9 DEF PairNameless, Paired
  <2>1. noted \in Records
    BY NoteAdds DEF Stages
  <2> QED
    BY <1>n, <2>1 DEF Records
<1> QED
  BY <1>1, <1>2, <1>3, <1>4, <1>5, <1>6, <1>7, <1>8, <1>9 DEF Next, ParseFile

\* _residue passes one gap: it is the only one to get behind i.
LEMMA PassOne ==
  ASSUME BoundsInv, loose = <<>>, i \in Nat, NEW g \in Gaps, NextGap(g),
         UNCHANGED <<boundsVars, input>>, i' = g.offset + g.size
  PROVE  /\ Passed' = Passed \cup ({g} \cap Telling) /\ g \notin Passed
         /\ Passed \subseteq Gaps
<1>1. Gaps' = Gaps /\ Telling' = Telling
  <2>1. \A k : StartOf(k)' = StartOf(k) /\ Cursor(k)' = Cursor(k)
    BY DEF boundsVars, StartOf, Cursor, Ends
  <2>2. Gaps' = Gaps
    BY <2>1 DEF Gaps, boundsVars
  <2> QED
    BY <2>2 DEF Telling, GapBytes
<1>2. \A h \in Gaps : h.offset < i' <=> h.offset < i \/ h = g
  <2> SUFFICES ASSUME NEW h \in Gaps PROVE h.offset < i' <=> h.offset < i \/ h = g
    OBVIOUS
  <2>1. /\ g.offset \in Nat /\ g.size \in Nat \ {0} /\ h.offset \in Nat /\ g.offset >= i
        /\ h.offset >= i => g.offset <= h.offset
        /\ g # h /\ g.offset <= h.offset => g.offset + g.size <= h.offset
    BY GapsApart DEF NextGap
  <2> QED
    BY <2>1
<1>3. g.offset >= i /\ g.offset \in Nat
  BY GapsApart DEF NextGap
<1> QED
  BY <1>1, <1>2, <1>3 DEF Passed, Telling

\* A round of _residue: the gap is zero, is counted or is retained.
LEMMA ResidueRound ==
  ASSUME ParserInv, ResidueInv, Residue
  PROVE  Accounted(Passed)'
<1>1. PICK g \in Gaps :
        /\ NextGap(g) /\ i' = g.offset + g.size
        /\ pf' = CASE GapBytes(g) \subseteq input.zero -> pf
                   [] GapBytes(g) \ input.zero # {} /\ Capped -> [pf EXCEPT !.skipped = @ + g.size]
                   [] OTHER -> Retained(g)
  BY DEF Residue
<1>2. /\ pc = "residue" /\ loose = <<>> /\ UNCHANGED <<boundsVars, input>> /\ pf \in Records
      /\ BoundsInv /\ i \in Nat /\ Accounted(Passed)
  BY DEF Residue, At, ResidueInv, ParserInv, Plain, outside
<1>3. /\ Passed' = Passed \cup ({g} \cap Telling) /\ g \notin Passed /\ Passed \subseteq Gaps
  BY <1>1, <1>2, PassOne
<1>g. \A h : GapBytes(h)' = GapBytes(h)
  BY DEF GapBytes
<1>4. CASE GapBytes(g) \subseteq input.zero
  <2>1. pf' = pf /\ Passed' = Passed
    BY <1>1, <1>3, <1>4 DEF Telling
  <2> QED
    BY <1>2, <1>g, <2>1 DEF Accounted
<1>5. CASE ~(GapBytes(g) \subseteq input.zero) /\ Capped
  <2>1. /\ pf'.residue = pf.residue /\ pf'.skipped = pf.skipped + g.size
        /\ Passed' = Passed \cup {g}
    BY <1>1, <1>2, <1>3, <1>5 DEF Telling, Records
  <2>2. Passed' \ pf'.residue = (Passed \ pf.residue) \cup {g}
    BY <1>2, <1>3, <2>1 DEF Accounted
  <2>3. Cardinality(UNION {GapBytes(h) : h \in (Passed \ pf.residue) \cup {g}})
          = Cardinality(UNION {GapBytes(h) : h \in Passed \ pf.residue}) + g.size
    BY <1>2, <1>3, BytesAdd
  <2> QED
    BY <1>2, <1>g, <2>1, <2>2, <2>3 DEF Accounted
<1>6. CASE ~(GapBytes(g) \subseteq input.zero) /\ ~Capped
  <2>1. /\ pf'.residue = pf.residue \cup {g} /\ pf'.skipped = pf.skipped
        /\ Passed' = Passed \cup {g}
    BY <1>1, <1>2, <1>3, <1>6 DEF Telling, Records, Retained
  <2>2. Passed' \ pf'.residue = Passed \ pf.residue
    BY <1>3, <2>1
  <2> QED
    BY <1>2, <1>g, <2>1, <2>2 DEF Accounted
<1> QED
  BY <1>4, <1>5, <1>6

\* Every step keeps the residue's account.
LEMMA ResidueStep ==
  ASSUME ParserAssumption, ParserInv, ResidueInv, [Next]_vars
  PROVE  ResidueInv'
<1>0. pf \in Records /\ BoundsInv /\ i \in Nat
  BY DEF ParserInv, Plain
<1>1. CASE Residue
  <2>1. pc = "residue" /\ pc' = "residue" /\ loose' = <<>>
    BY <1>1 DEF Residue, At, boundsVars
  <2> QED
    BY <1>1, <2>1, ResidueRound DEF ResidueInv
<1>2. CASE ~Residue
  <2>0. pf'.residue = pf.residue /\ pf'.skipped = pf.skipped
    BY <1>0, <1>2, ResidueUntouched
  <2>1. CASE UNCHANGED vars
    <3>1. UNCHANGED <<boundsVars, input, i, pc, pf>>
      BY <2>1 DEF vars
    <3>2. Gaps' = Gaps
      BY <3>1 DEF Gaps, StartOf, Cursor, Ends, boundsVars
    <3>3. Telling' = Telling
      BY <3>1, <3>2 DEF Telling, GapBytes
    <3>4. Passed' = Passed
      BY <3>1, <3>3 DEF Passed
    <3> QED
      BY <3>1, <3>3, <3>4 DEF ResidueInv, Accounted, GapBytes, boundsVars
  <2>2. CASE Totals
    <3>1. pc' = "residue" /\ loose' = <<>> /\ i' = 0 /\ pf.residue = {} /\ pf.skipped = 0
          /\ UNCHANGED boundsVars
      BY <2>2 DEF Totals, At, ResidueInv, boundsVars
    <3>2. \A g \in Gaps : g.offset \in Nat
      BY <1>0, GapsAreRegions DEF Regions
    <3>3. Gaps' = Gaps
      BY <3>1 DEF Gaps, StartOf, Cursor, Ends, boundsVars
    <3>4. Passed' = {}
      BY <3>1, <3>2, <3>3 DEF Passed, Telling
    <3>5. Accounted(Passed)'
      BY <2>0, <3>1, <3>4, FS_EmptySet DEF Accounted
    <3> QED
      BY <3>1, <3>5 DEF ResidueInv
  <2>3. CASE ResidueDone
    <3>1. /\ pc = "residue" /\ pc' = "stamp" /\ UNCHANGED <<boundsVars, input, i>> /\ loose = <<>>
          /\ \A g \in Gaps : g.offset < i
      BY <2>3 DEF ResidueDone, At, locals, outside
    <3>2. Telling = Passed /\ Accounted(Passed)
      BY <3>1 DEF Passed, Telling, ResidueInv
    <3>3. Gaps' = Gaps
      BY <3>1 DEF Gaps, StartOf, Cursor, Ends, boundsVars
    <3>4. Telling' = Telling
      BY <3>1, <3>3 DEF Telling, GapBytes
    <3>5. Accounted(Telling)'
      BY <2>0, <3>2, <3>4 DEF Accounted, GapBytes
    <3> QED
      BY <3>1, <3>5 DEF ResidueInv, boundsVars
  <2>4. CASE StampSource
    <3>1. /\ pc = "stamp" /\ pc' = "done" /\ UNCHANGED <<boundsVars, input, i>>
          /\ pf'.failed = pf.failed
      BY <1>0, <2>4 DEF StampSource, locals, Records
    <3>2. Gaps' = Gaps
      BY <3>1 DEF Gaps, StartOf, Cursor, Ends, boundsVars
    <3>3. Telling' = Telling
      BY <3>1, <3>2 DEF Telling, GapBytes
    <3> QED
      BY <2>0, <3>1, <3>3 DEF ResidueInv, Accounted, GapBytes, boundsVars
  <2>e. CASE Escapes /\ pc \in {"stat", "open", "stamp"}
    <3>1. pc' = "raised" /\ loose' = loose
      BY <2>e DEF Escapes, locals, boundsVars
    <3> QED
      BY <2>0, <2>e, <3>1 DEF ResidueInv
  <2>5. CASE ~Escapes /\ (StatRefuses \/ TooLong \/ OpenFails \/ ReadTooMuch)
    <3>1. /\ pc \in {"stat", "open"} /\ pc' = "done" /\ loose' = loose /\ pf'.failed = "read"
      BY <1>0, <2>5 DEF StatRefuses, TooLong, OpenFails, ReadTooMuch, NotReadStamped, NotRead,
         locals, boundsVars, Records
    <3>2. "read" # None
      BY DEF ParserAssumption, Stages
    <3> QED
      BY <2>0, <3>1, <3>2 DEF ResidueInv
  <2>14. CASE StampRaises \/ StatRefuses \/ TooLong \/ OpenFails \/ ReadTooMuch
    BY <2>e, <2>5, <2>14 DEF StampRaises, StatRefuses, TooLong, OpenFails, ReadTooMuch
  <2>6. CASE OutOfFile \/ NotPrefetch \/ SectionTooShort \/ NotUnpacked
    <3>1. /\ pc \in (InBody \ {"totals", "residue"}) \cup {"container"} /\ pc' = "stamp" /\ loose' = <<>>
      <4>1. CASE OutOfFile \/ NotPrefetch \/ SectionTooShort
        BY <4>1 DEF OutOfFile, NotPrefetch, SectionTooShort, At, Raise, locals, boundsVars, InBody,
           Reading
      <4>2. CASE NotUnpacked
        BY <4>2 DEF NotUnpacked, locals, boundsVars, ResidueInv
      <4> QED
        BY <2>6, <4>1, <4>2
    <3>2. pf'.failed # None
      BY <1>0, <2>6 DEF OutOfFile, NotPrefetch, SectionTooShort, NotUnpacked, Raise, Records,
         StageOf, Stages, ParserAssumption
    <3> QED
      BY <2>0, <3>1, <3>2 DEF ResidueInv
  <2>7. CASE VolumesDone
    BY <2>0, <2>7 DEF VolumesDone, At, locals, boundsVars, ResidueInv
  <2>8. CASE Grow \/ Stat \/ Read
    BY <2>0, <2>8 DEF Grow, Stat, Read, locals, boundsVars, ResidueInv
  <2>9. CASE MergeReads
    <3>1. pc' = pc /\ loose # <<>>
      BY <2>9 DEF MergeReads, Merge
    <3> QED
      BY <2>0, <3>1 DEF ResidueInv
  <2>10. ASSUME pc \in (InBody \ {"totals", "residue"}) \cup {"container"},
                pc' \in InBody \ {"totals", "residue"}
         PROVE  ResidueInv'
    BY <2>0, <2>10 DEF ResidueInv, InBody, Reading
  <2>11. CASE NotAContainer \/ PureDecodes \/ OsDecodes
    <3>1. \E length, decoder, trailing : Body(length, decoder, trailing) /\ pc = "container"
      BY <2>11 DEF NotAContainer, PureDecodes, OsDecodes
    <3>2. pc = "container" /\ pc' = "version"
      BY <3>1 DEF Body
    <3> QED
      BY <2>10, <3>2 DEF InBody, Reading
  <2>12. CASE \/ Version \/ Signature \/ Header \/ Fields \/ Section \/ SkipSection \/ RunCount
              \/ Metric \/ MetricsDone
    BY <2>10, <2>12 DEF Version, Signature, Header, Fields, Section, SkipSection, RunCount, Metric,
       MetricsDone, Reads, At, InBody, Reading
  <2>13. CASE \/ TraceChains \/ NoTraceChains \/ Names \/ Pair \/ PairNameless \/ PairsDone
              \/ ExecPath \/ NoExecPath \/ VolumeEntry \/ VolumeData
    BY <2>10, <2>13 DEF TraceChains, NoTraceChains, Names, Pair, PairNameless, PairsDone, ExecPath,
       NoExecPath, VolumeEntry, VolumeData, Reads, At, InBody, Reading
  <2> QED
    BY <1>2, <2>1, <2>2, <2>3, <2>4, <2>14, <2>6, <2>7, <2>8, <2>9, <2>11, <2>12, <2>13
       DEF Next, ParseFile
<1> QED
  BY <1>1, <1>2

\* On a whole record every unread region that is not zero is there or its bytes are
\* counted, each once, for every geometry of the file and every limit.
THEOREM ResidueComplete == Spec => []UnreadIsAccounted
<1>1. Init => ResidueInv
  BY DEF Init, BoundsInit, EmptyRecord, ResidueInv
<1>2. ParserInv /\ ResidueInv /\ [Next]_vars => ResidueInv'
  BY ParserAssumption, ResidueStep
<1>3. ResidueInv => UnreadIsAccounted
  BY DEF ResidueInv, Accounted, Telling, UnreadIsAccounted, Done
<1> QED
  BY <1>1, <1>2, <1>3, ParserInvariant, PTL DEF Spec
===============================================================================
