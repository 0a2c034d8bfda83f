------------------------------- MODULE MCParser -------------------------------
(* One ordinary file - a metric at 4, a chain at 5, names at 6, the 5a     *)
(* string at 7, a volume at 8 and its data at 9 - and what becomes of it   *)
(* when one or two of its fields hold any other number.                    *)
EXTENDS Parser, TLC

Ordinary ==
  [kind |-> "regular", stats |-> TRUE, opens |-> TRUE, length |-> 10, times |-> "fit", box |-> "plain",
   prefer |-> "auto", ntdll |-> FALSE, os |-> "refuses", pure |-> TRUE, declared |-> 10,
   written |-> 10, slack |-> 0, magic |-> "scca", says |-> 10, modern |-> TRUE,
   moff |-> 4, mcount |-> 1, coff |-> 5, ccount |-> 1, noff |-> 6, nsize |-> 1,
   names |-> 1, name |-> 0, voff |-> 8, vcount |-> 1, data |-> 1, tail |-> "path",
   text |-> 1, candidates |-> 1, agrees |-> TRUE, zero |-> {}]

Numbers == {-1, 0, 1, 2, 3, 5, 7, 9, 11}
Offsets == {"moff", "coff", "noff", "voff"}
Counts  == {"mcount", "ccount", "vcount", "nsize"}

OneOff == {[Ordinary EXCEPT ![f] = n] : f \in Offsets \cup {"data"}, n \in Numbers}
            \cup {[Ordinary EXCEPT ![f] = n] : f \in Counts, n \in {-1, 0, 2, 7}}
TwoOff == {[g EXCEPT ![f] = n] : g \in OneOff, f \in Offsets, n \in Numbers}
Damaged == TwoOff \cup {[g EXCEPT !.length = n] : g \in OneOff, n \in {0, 1, 2, 3, 12, 14}}

\* Old versions, wrong magic, unread and zero bytes, and paths of every kind.
Varied ==
  {[Ordinary EXCEPT !.modern = m, !.magic = g, !.zero = z, !.length = n, !.voff = v] :
     m \in BOOLEAN, g \in {"scca", "other"}, z \in {{}, {10, 11}, {12}}, n \in {10, 13}, v \in {7, 8, 10}}
  \cup {[Ordinary EXCEPT !.tail = t, !.candidates = c, !.agrees = a, !.text = x, !.voff = v, !.length = 12] :
     t \in {"path", "package", "padding"}, c \in 0..2, a \in BOOLEAN, x \in {1, 2}, v \in {6, 8, 9}}
  \cup {[Ordinary EXCEPT !.mcount = 2, !.name = n] : n \in {0, 3, 9}}

Containers ==
  {[Ordinary EXCEPT !.box = b, !.prefer = p, !.ntdll = t, !.os = o, !.pure = u,
                    !.declared = d, !.written = w, !.slack = s, !.length = 3] :
     b \in {"mam", "cut"}, p \in {"auto", "ntdll", "pure"}, t \in BOOLEAN,
     o \in {"refuses", "raises", "decodes"}, u \in BOOLEAN, d \in {10, 21},
     w \in {1, 10}, s \in {0, 2}}

Disk == {[Ordinary EXCEPT !.kind = k, !.stats = s, !.opens = o, !.length = n, !.times = t] :
           k \in {"regular", "directory", "fifo"}, s \in BOOLEAN, o \in BOOLEAN, n \in {0, 10, 15, 16},
           t \in {"fit", "refused", "outside"}}

Everything == Damaged \cup Varied \cup Containers \cup Disk
===============================================================================
