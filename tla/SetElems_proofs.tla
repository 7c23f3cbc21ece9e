-------------------------- MODULE SetElems_proofs --------------------------
(***************************************************************************)
(* Proofs about SetElems, for every set of lengths, every limit and every  *)
(* number of elements and of messages held.                                *)
(***************************************************************************)
EXTENDS SetElems, SequenceTheorems, TLAPS

(***************************************************************************)
(* The nest of a message that carries the elements lo..h-1 of es: one      *)
(* attribute for each, laid end to end from the nest's header to byte n.   *)
(***************************************************************************)
Packed(es, attrs, n, lo, h) ==
    /\ attrs \in SUBSET Attr /\ n \in Nat
    /\ \A a \in attrs : /\ lo <= a.elem /\ a.elem < h
                        /\ a.to = a.from + es[a.elem + 1].len
                        /\ NestHdr <= a.from /\ a.to <= n
                        /\ a.elem = lo => a.from = NestHdr
                        /\ a.elem = h - 1 => a.to = n
    /\ \A i \in lo..(h - 1) : \E a \in attrs : a.elem = i
    /\ \A a, b \in attrs : /\ a.elem = b.elem => a = b
                           /\ a.elem + 1 = b.elem => a.to = b.from
                           /\ a.elem < b.elem => a.to <= b.from
    /\ h = lo => n = NestHdr

----------------------------------------------------------------------------
(* Nests.                                                                  *)

(* The length of an element is one of ElemLens, hence positive. *)
LEMMA ElemLength ==
    ASSUME NEW es \in Seq(Elem), NEW i \in Nat, i < Len(es)
    PROVE  es[i + 1].len \in ElemLens /\ es[i + 1].len \in Nat \ {0}
<1>1. i + 1 \in 1..Len(es)
  OBVIOUS
<1>2. es[i + 1] \in Elem
  BY <1>1
<1>3. es[i + 1].len \in ElemLens
  BY <1>2 DEF Elem
<1> QED BY <1>3, LengthAssumption

(* A nest has room for any two elements. *)
LEMMA PairFits ==
    ASSUME NEW l \in ElemLens, NEW m \in ElemLens
    PROVE  /\ NestHdr + l + m <= NestMax
           /\ NestHdr + l <= NestMax
           /\ NestHdr <= NestMax
<1>1. l \in Nat /\ m \in Nat /\ NestHdr \in Nat /\ NestMax \in Nat
  BY LengthAssumption
<1>2. NestHdr + l + m <= NestMax
  BY LengthAssumption
<1> QED BY <1>1, <1>2

(* The empty nest carries nothing and ends with its header. *)
LEMMA PackedEmpty ==
    ASSUME NEW es, NEW lo \in Nat
    PROVE  Packed(es, {}, NestHdr, lo, lo)
BY LengthAssumption DEF Packed

(* Appending the next element at byte n keeps a nest packed. *)
LEMMA PackedPush ==
    ASSUME NEW es \in Seq(Elem), NEW attrs, NEW n, NEW lo \in Nat, NEW h \in Nat,
           lo <= h, h < Len(es), Packed(es, attrs, n, lo, h)
    PROVE  LET m == n + es[h + 1].len
           IN  Packed(es, attrs \union {[elem |-> h, from |-> n, to |-> m]},
                      m, lo, h + 1)
<1> DEFINE m == n + es[h + 1].len
           new == [elem |-> h, from |-> n, to |-> m]
           all == attrs \union {new}
<1>1. es[h + 1].len \in Nat \ {0} /\ n \in Nat /\ m \in Nat /\ m > n
  BY ElemLength DEF Packed
<1>2. new \in Attr /\ new.elem = h /\ new.from = n /\ new.to = m
  BY <1>1 DEF Attr
<1> HIDE DEF new
<1>3. all \in SUBSET Attr
  BY <1>2 DEF Packed
<1>4. NestHdr <= n
  <2>1. CASE h = lo
    BY <2>1, LengthAssumption DEF Packed
  <2>2. CASE h # lo
    <3>1. PICK a \in attrs : a.elem = lo
      BY <2>2 DEF Packed
    <3>2. /\ a \in Attr /\ a.elem < h
          /\ NestHdr <= a.from /\ a.to <= n
          /\ a.to = a.from + es[a.elem + 1].len
      BY <3>1 DEF Packed
    <3>3. a.from \in Nat /\ a.elem \in Nat
      BY <3>2 DEF Attr
    <3>4. es[a.elem + 1].len \in Nat
      BY <3>2, <3>3, ElemLength
    <3>5. NestHdr \in Nat /\ n \in Nat /\ a.to \in Nat
      <4>1. a.to \in Nat
        BY <3>2 DEF Attr
      <4> QED BY <4>1, <1>1, LengthAssumption
    <3>6. a.from <= a.to
      BY <3>2, <3>3, <3>4
    <3> QED BY <3>2, <3>3, <3>5, <3>6
  <2> QED BY <2>1, <2>2
<1>5. \A a \in attrs : a.elem = h - 1 => a.to = n
  BY DEF Packed
<1>6. h = lo => n = NestHdr
  BY DEF Packed
<1>7. ASSUME NEW a \in all
      PROVE  /\ lo <= a.elem /\ a.elem < h + 1
             /\ a.to = a.from + es[a.elem + 1].len
             /\ NestHdr <= a.from /\ a.to <= m
             /\ a.elem = lo => a.from = NestHdr
             /\ a.elem = (h + 1) - 1 => a.to = m
  <2>1. CASE a \in attrs
    BY <2>1, <1>1 DEF Packed, Attr
  <2>2. CASE a = new
    BY <2>2, <1>1, <1>2, <1>4, <1>6
  <2> QED BY <2>1, <2>2
<1>8. ASSUME NEW i \in lo..((h + 1) - 1)
      PROVE  \E a \in all : a.elem = i
  <2>1. CASE i = h
    BY <2>1, <1>2
  <2>2. CASE i # h
    BY <2>2 DEF Packed
  <2> QED BY <2>1, <2>2
<1>9. ASSUME NEW a \in all, NEW b \in all
      PROVE  /\ a.elem = b.elem => a = b
             /\ a.elem + 1 = b.elem => a.to = b.from
             /\ a.elem < b.elem => a.to <= b.from
  <2>1. CASE a \in attrs /\ b \in attrs
    BY <2>1 DEF Packed
  <2>2. CASE a \in attrs /\ b = new
    <3>1. a.elem \in Nat /\ a.elem < h /\ a.to <= n
      BY <2>2 DEF Packed, Attr
    <3>2. a.elem = h - 1 => a.to = n
      BY <2>2, <1>5
    <3>3. b.elem = h /\ b.from = n
      BY <2>2, <1>2
    <3> QED BY <3>1, <3>2, <3>3
  <2>3. CASE a = new /\ b \in attrs
    BY <2>3, <1>2 DEF Packed, Attr
  <2>4. CASE a = new /\ b = new
    BY <2>4, <1>2
  <2> QED BY <2>1, <2>2, <2>3, <2>4
<1>10. Packed(es, all, m, lo, h + 1)
  <2> HIDE DEF m, all
  <2> QED BY <1>1, <1>3, <1>7, <1>8, <1>9 DEF Packed
<1> QED BY <1>10 DEF new

(***************************************************************************)
(* Shrinking a nest by the length of its last element takes exactly that   *)
(* element away.                                                           *)
(***************************************************************************)
LEMMA PackedUndo ==
    ASSUME NEW es \in Seq(Elem), NEW attrs, NEW n, NEW lo \in Nat, NEW h \in Nat,
           lo < h, h <= Len(es), Packed(es, attrs, n, lo, h)
    PROVE  LET m == n - es[h].len
           IN  /\ m \in Nat
               /\ Packed(es, Within(attrs, m), m, lo, h - 1)
<1> DEFINE m == n - es[h].len
           left == Within(attrs, m)
<1>1. es[h].len \in Nat \ {0} /\ n \in Nat
  <2>1. h - 1 \in Nat /\ h - 1 < Len(es) /\ (h - 1) + 1 = h
    OBVIOUS
  <2>2. es[(h - 1) + 1].len \in Nat \ {0}
    BY <2>1, ElemLength
  <2> QED BY <2>1, <2>2 DEF Packed
<1>2. PICK z \in attrs : z.elem = h - 1
  BY DEF Packed
<1>3. z \in Attr /\ z.to = n /\ z.from = m /\ m \in Nat /\ m < n /\ NestHdr <= m
  <2>1. z \in Attr /\ z.to = n /\ z.to = z.from + es[z.elem + 1].len /\ NestHdr <= z.from
    BY <1>2 DEF Packed
  <2>2. z.from \in Nat /\ z.elem + 1 = h
    BY <1>2, <2>1 DEF Attr
  <2> QED BY <1>1, <2>1, <2>2
<1>4. ASSUME NEW a \in attrs
      PROVE  a \in left <=> a.elem < h - 1
  <2>1. a.elem \in Nat /\ a.to \in Nat /\ a.elem < h
    BY DEF Packed, Attr
  <2>2. a.elem = z.elem => a = z
    BY <1>2 DEF Packed
  <2>3. a.elem < z.elem => a.to <= z.from
    BY <1>2 DEF Packed
  <2> QED BY <2>1, <2>2, <2>3, <1>2, <1>3 DEF Within
<1>5. left \subseteq attrs /\ attrs \subseteq Attr
  BY DEF Within, Packed
<1>6. ASSUME NEW a \in left
      PROVE  /\ lo <= a.elem /\ a.elem < h - 1
             /\ a.to = a.from + es[a.elem + 1].len
             /\ NestHdr <= a.from /\ a.to <= m
             /\ a.elem = lo => a.from = NestHdr
             /\ a.elem = (h - 1) - 1 => a.to = m
  <2>1. a \in attrs /\ a \in Attr /\ a.to <= m
    BY <1>5 DEF Within
  <2>2. a.elem < h - 1
    BY <2>1, <1>4
  <2>3. /\ lo <= a.elem
        /\ a.to = a.from + es[a.elem + 1].len
        /\ NestHdr <= a.from
        /\ a.elem = lo => a.from = NestHdr
    BY <2>1 DEF Packed
  <2>4. a.elem = (h - 1) - 1 => a.to = z.from
    <3>1. a.elem \in Nat
      BY <2>1 DEF Attr
    <3>2. a.elem + 1 = z.elem => a.to = z.from
      BY <2>1, <1>2 DEF Packed
    <3>3. a.elem = (h - 1) - 1 => a.elem + 1 = z.elem
      BY <3>1, <1>2, SMTT(30)
    <3> QED BY <3>2, <3>3
  <2>5. a.elem = (h - 1) - 1 => a.to = m
    BY <2>4, <1>3
  <2>6. a.to <= m
    BY <2>1
  <2> HIDE DEF m, left
  <2> QED BY <2>2, <2>3, <2>5, <2>6
<1>7. ASSUME NEW i \in lo..((h - 1) - 1)
      PROVE  \E a \in left : a.elem = i
  <2>1. i \in lo..(h - 1) /\ i < h - 1
    OBVIOUS
  <2> QED BY <2>1, <1>4 DEF Packed
<1>8. \A a, b \in left : /\ a.elem = b.elem => a = b
                         /\ a.elem + 1 = b.elem => a.to = b.from
                         /\ a.elem < b.elem => a.to <= b.from
  BY <1>5 DEF Packed
<1>9. h - 1 = lo => m = NestHdr
  BY <1>2, <1>3 DEF Packed
<1>10. Packed(es, left, m, lo, h - 1)
  <2> HIDE DEF m, left
  <2> QED BY <1>3, <1>5, <1>6, <1>7, <1>8, <1>9 DEF Packed
<1> QED BY <1>3, <1>10

(* Shrinking by the lengths of the last two elements takes both away. *)
LEMMA PackedUndoPair ==
    ASSUME NEW es \in Seq(Elem), NEW attrs, NEW n, NEW lo \in Nat, NEW h \in Nat,
           lo + 1 < h, h <= Len(es), Packed(es, attrs, n, lo, h)
    PROVE  LET m == n - (es[h].len + es[h - 1].len)
           IN  /\ m \in Nat
               /\ Packed(es, Within(attrs, m), m, lo, h - 2)
<1> DEFINE k == n - es[h].len
           m == n - (es[h].len + es[h - 1].len)
<1>1. k \in Nat /\ Packed(es, Within(attrs, k), k, lo, h - 1)
  BY PackedUndo
<1>2. h - 1 \in Nat /\ lo < h - 1 /\ h - 1 <= Len(es)
  OBVIOUS
<1> HIDE DEF k
<1>3. /\ k - es[h - 1].len \in Nat
      /\ Packed(es, Within(Within(attrs, k), k - es[h - 1].len),
                k - es[h - 1].len, lo, (h - 1) - 1)
  BY <1>1, <1>2, PackedUndo
<1>4. n \in Nat /\ es[h].len \in Nat /\ es[h - 1].len \in Nat
  <2>1. h - 1 < Len(es) /\ h - 2 \in Nat /\ h - 2 < Len(es)
        /\ (h - 1) + 1 = h /\ (h - 2) + 1 = h - 1
    OBVIOUS
  <2>2. es[(h - 1) + 1].len \in Nat /\ es[(h - 2) + 1].len \in Nat
    BY <1>2, <2>1, ElemLength
  <2> QED BY <2>1, <2>2 DEF Packed
<1>5. k - es[h - 1].len = m /\ m <= k
  BY <1>4 DEF k
<1>6. Within(Within(attrs, k), m) = Within(attrs, m)
  BY <1>1, <1>3, <1>5 DEF Within, Packed, Attr
<1>7. (h - 1) - 1 = h - 2
  OBVIOUS
<1> HIDE DEF m
<1>8. m \in Nat /\ Packed(es, Within(attrs, m), m, lo, h - 2)
  BY <1>3, <1>5, <1>6, <1>7
<1> QED BY <1>8 DEF m

(* The elements a nest carries. *)
Carried(attrs) == {a.elem : a \in attrs}

(* A packed nest is tiled by the elements it carries. *)
LEMMA PackedTiled ==
    ASSUME NEW es, NEW attrs, NEW n, NEW lo, NEW h,
           es \in Seq(Elem), lo \in Nat, h \in Nat, lo <= h, h <= Len(es), Packed(es, attrs, n, lo, h)
    PROVE  Tiled(attrs, n) /\ Carried(attrs) = lo..(h - 1)
<1>1. ASSUME NEW a \in attrs
      PROVE  /\ a.elem \in lo..(h - 1)
             /\ a.from = NestHdr \/ \E b \in attrs : b.to = a.from
             /\ a.to = n \/ \E b \in attrs : b.from = a.to
             /\ a.from < a.to /\ a.to <= n
  <2>1. a.elem \in Nat /\ a.from \in Nat /\ lo <= a.elem /\ a.elem < h
    BY DEF Packed, Attr
  <2>2. a.to = a.from + es[a.elem + 1].len /\ a.to <= n
    BY DEF Packed
  <2>3. es[a.elem + 1].len \in Nat \ {0}
    BY <2>1, ElemLength
  <2>4. a.from = NestHdr \/ \E b \in attrs : b.to = a.from
    <3>1. CASE a.elem = lo
      BY <3>1 DEF Packed
    <3>2. CASE a.elem # lo
      <4>1. PICK b \in attrs : b.elem = a.elem - 1
        BY <2>1, <3>2 DEF Packed
      <4>2. b.elem + 1 = a.elem
        BY <2>1, <4>1
      <4> QED BY <4>2 DEF Packed
    <3> QED BY <3>1, <3>2
  <2>5. a.to = n \/ \E b \in attrs : b.from = a.to
    <3>1. CASE a.elem = h - 1
      BY <3>1 DEF Packed
    <3>2. CASE a.elem # h - 1
      <4>1. PICK b \in attrs : b.elem = a.elem + 1
        BY <2>1, <3>2 DEF Packed
      <4> QED BY <4>1 DEF Packed
    <3> QED BY <3>1, <3>2
  <2> QED BY <2>1, <2>2, <2>3, <2>4, <2>5
<1>2. \A a, b \in attrs : a.elem < b.elem => a.to <= b.from
  BY DEF Packed
<1>3. attrs = {} => n \in {0, NestHdr}
  BY DEF Packed
<1>4. Carried(attrs) = lo..(h - 1)
  BY <1>1 DEF Packed, Carried
<1> QED BY <1>1, <1>2, <1>3, <1>4 DEF Tiled

(* The nest of the message being written carries the elements from next. *)
LEMMA OpenNestCarries ==
    ASSUME elems \in Seq(Elem), next \in Nat, NEW i \in Nat, NEW attrs, NEW n,
           next <= i, i <= Len(elems), Packed(elems, attrs, n, next, i)
    PROVE  Carried(attrs) = next..(i - 1)
BY PackedTiled

----------------------------------------------------------------------------
(* The inductive invariant.                                                *)

(* An end element follows the element it closes, which is not an end. *)
EndsFollowStarts ==
    \A i \in 0..(Len(elems) - 1) : At(i).end => i > 0 /\ ~At(i - 1).end

(* The elements before n can be sent without the rest. *)
Boundary(n) == n < Len(elems) => ~At(n).end

Writing == pc \in {"push", "test"}

(* The elements in the message being written are next..hi-1. *)
hi == IF pc = "test" THEN idx + 1 ELSE idx

(* The locals of write() while it runs. *)
WriteInv ==
    Writing =>
        /\ held > 0 /\ next < Len(elems)
        /\ next <= idx /\ hi <= Len(elems)
        /\ prevLen = IF idx > next /\ ~elems[idx].end
                     THEN elems[idx].len ELSE NoLen
        /\ Packed(elems, nest, nestLen, next, hi)
        /\ pc = "push" => nestLen <= NestMax
        /\ pc = "test" => nestLen - At(idx).len <= NestMax

(* The iterator's cells, wherever the program is. *)
CellsInv ==
    /\ Boundary(next)
    /\ pc = "adding" => next = 0 /\ ret = 1 /\ msgs = <<>>
    /\ ret = 0 => next = Len(elems)
    /\ pc = "done" => next = Len(elems)

ClosedNestsFit == \A k \in DOMAIN msgs : msgs[k].len <= NestMax

(* The messages written so far. *)
MsgsInv == SentOnceInOrder /\ PairsIntact /\ MessagesTiled /\ ClosedNestsFit

IInv == TypeOK /\ EndsFollowStarts /\ CellsInv /\ WriteInv /\ MsgsInv

(***************************************************************************)
(* One more message keeps the invariant of the messages if it carries the  *)
(* next elements, up to a boundary, in a tiled nest that fits.             *)
(***************************************************************************)
LEMMA MessageAdded ==
    ASSUME IInv, elems' = elems,
           NEW m \in Msg,
           msgs' = Append(msgs, m),
           NEW h \in Nat, next' = h, next <= h, h <= Len(elems), Boundary(h),
           Sent(m) = next..(h - 1),
           Tiled(m.attrs, m.len), m.len <= NestMax
    PROVE  MsgsInv'
<1>0. /\ TypeOK /\ CellsInv /\ MsgsInv
      /\ elems \in Seq(Elem) /\ msgs \in Seq(Msg)
  BY DEF IInv, TypeOK
<1>1. /\ DOMAIN msgs = 1..Len(msgs)
      /\ DOMAIN msgs' = 1..(Len(msgs) + 1) /\ Len(msgs) \in Nat
      /\ \A k \in 1..Len(msgs) : msgs'[k] = msgs[k]
      /\ msgs'[Len(msgs) + 1] = m
  BY <1>0
<1>2. \A k \in DOMAIN msgs' : k \in DOMAIN msgs \/ k = Len(msgs) + 1
  BY <1>1
<1>3. Len(elems) \in Nat /\ next \in Nat
  BY <1>0 DEF TypeOK
<1>4. \A k \in DOMAIN msgs : \A i \in Sent(msgs[k]) : i \in Nat /\ i < next
  <2> SUFFICES ASSUME NEW k \in DOMAIN msgs, NEW i \in Sent(msgs[k])
               PROVE  i \in Nat /\ i < next
    OBVIOUS
  <2>0. msgs[k] \in Msg
    BY <1>0
  <2>1. msgs[k].attrs \in SUBSET Attr
    BY <2>0 DEF Msg
  <2>2. i \in Nat
    BY <2>1 DEF Sent, Attr
  <2> QED BY <1>0, <2>2 DEF MsgsInv, SentOnceInOrder
<1>5. SentOnceInOrder'
  <2>1. ASSUME NEW k \in DOMAIN msgs', NEW i \in Sent(msgs'[k])
        PROVE  i < h
    BY <1>1, <1>2, <1>3, <1>4
  <2>2. ASSUME NEW i \in 1..h
        PROVE  \E k \in DOMAIN msgs' : i - 1 \in Sent(msgs'[k])
    <3>1. CASE i <= next
      <4>1. PICK k \in DOMAIN msgs : i - 1 \in Sent(msgs[k])
        BY <1>0, <3>1, <1>3 DEF MsgsInv, SentOnceInOrder
      <4> QED BY <4>1, <1>1
    <3>2. CASE ~(i <= next)
      <4>1. i - 1 \in next..(h - 1)
        BY <3>2, <1>3
      <4>2. Len(msgs) + 1 \in DOMAIN msgs' /\ i - 1 \in Sent(msgs'[Len(msgs) + 1])
        BY <4>1, <1>1
      <4> QED BY <4>2
    <3> QED BY <3>1, <3>2
  <2>3. ASSUME NEW j \in DOMAIN msgs', NEW k \in DOMAIN msgs', j < k,
               NEW a \in Sent(msgs'[j]), NEW b \in Sent(msgs'[k])
        PROVE  a < b
    <3>1. j \in DOMAIN msgs
      BY <2>3, <1>1
    <3>2. CASE k \in DOMAIN msgs
      BY <1>0, <2>3, <3>1, <3>2, <1>1 DEF MsgsInv, SentOnceInOrder
    <3>3. CASE k = Len(msgs) + 1
      <4>1. a \in Nat /\ a < next
        BY <3>1, <1>1, <1>4
      <4>2. b \in next..(h - 1)
        BY <3>3, <1>1
      <4> QED BY <4>1, <4>2, <1>3
    <3> QED BY <3>2, <3>3, <1>2
  <2> QED BY <2>1, <2>2, <2>3 DEF SentOnceInOrder, Sent
<1>6. PairsIntact'
  <2> SUFFICES ASSUME NEW k \in DOMAIN msgs', NEW i \in Sent(msgs'[k])
               PROVE  /\ At(i).end => i - 1 \in Sent(msgs'[k])
                      /\ Opens(i) => i + 1 \in Sent(msgs'[k])
    BY DEF PairsIntact, Sent, At, Opens
  <2>1. CASE k \in DOMAIN msgs
    BY <1>0, <2>1, <1>1 DEF MsgsInv, PairsIntact
  <2>2. CASE k = Len(msgs) + 1
    <3>1. Sent(msgs'[k]) = next..(h - 1) /\ i \in next..(h - 1)
      BY <2>2, <1>1
    <3>2. At(i).end => i # next
      <4>1. i < Len(elems)
        <5>1. i \in Int /\ i <= h - 1
          BY <3>1, <1>3
        <5> QED BY <5>1, <1>3
      <4> QED BY <1>0, <4>1 DEF CellsInv, Boundary
    <3>3. Opens(i) => i + 1 # h
      BY <3>1, <1>3 DEF Boundary, Opens
    <3>4. i \in Nat
      BY <3>1, <1>3
    <3>5. i # next => i - 1 \in next..(h - 1)
      BY <3>1, <3>4, <1>3
    <3>6. Opens(i) => i + 1 \in next..(h - 1)
      BY <3>1, <3>3, <3>4, <1>3
    <3> QED BY <3>1, <3>2, <3>5, <3>6
  <2> QED BY <2>1, <2>2, <1>2
<1>7. MessagesTiled' /\ ClosedNestsFit'
  BY <1>0, <1>1, <1>2 DEF MsgsInv, MessagesTiled, ClosedNestsFit, Tiled
<1> QED BY <1>5, <1>6, <1>7 DEF MsgsInv

LEMMA InitInv == Init => IInv
<1> SUFFICES ASSUME Init PROVE IInv
  OBVIOUS
<1>1. TypeOK
  BY BoundAssumption DEF Init, TypeOK, Phase
<1>2. EndsFollowStarts /\ CellsInv /\ WriteInv
  BY DEF Init, EndsFollowStarts, CellsInv, Boundary, WriteInv, Writing
<1>3. MsgsInv
  BY DEF Init, MsgsInv, SentOnceInOrder, PairsIntact, MessagesTiled, ClosedNestsFit
<1> QED BY <1>1, <1>2, <1>3 DEF IInv

(* The invariant of the messages depends on these three variables only. *)
LEMMA MessagesKept ==
    ASSUME MsgsInv, elems' = elems, msgs' = msgs, next' = next
    PROVE  MsgsInv'
BY DEF MsgsInv, SentOnceInOrder, PairsIntact, MessagesTiled, ClosedNestsFit,
       At, Opens

(* Adding keys and intervals to the set. *)
LEMMA AddKeepsInv ==
    ASSUME IInv, NEW l \in ElemLens, NEW m \in ElemLens,
           AddElement(l) \/ AddInterval(l, m)
    PROVE  IInv'
<1>1. /\ TypeOK /\ EndsFollowStarts /\ CellsInv
      /\ elems \in Seq(Elem) /\ Len(elems) \in Nat
      /\ pc = "adding" /\ msgs = <<>> /\ next = 0 /\ ret = 1
      /\ UNCHANGED <<pc, next, ret, held, msgs, idx, prevLen, nest, nestLen>>
  BY DEF IInv, TypeOK, CellsInv, AddElement, AddInterval, writeVars
<1> DEFINE key == [len |-> l, end |-> FALSE]
           close == [len |-> m, end |-> TRUE]
<1>2. key \in Elem /\ close \in Elem /\ ~key.end
  BY DEF Elem
<1> HIDE DEF key, close
<1>3. elems' = Append(elems, key) \/ elems' = Append(Append(elems, key), close)
  BY DEF AddElement, AddInterval, key, close
<1>4. /\ elems' \in Seq(Elem) /\ Len(elems) <= Len(elems')
      /\ Len(elems') <= MaxElems
  <2>1. CASE AddElement(l)
    BY <2>1, <1>1, <1>2, BoundAssumption DEF AddElement, key
  <2>2. CASE AddInterval(l, m)
    <3>1. elems' = Append(Append(elems, key), close)
      BY <2>2 DEF AddInterval, key, close
    <3>2. Len(elems) + 1 < MaxElems
      BY <2>2 DEF AddInterval
    <3> QED BY <3>1, <3>2, <1>1, <1>2, BoundAssumption
  <2> QED BY <2>1, <2>2
<1>5. TypeOK'
  BY <1>1, <1>4 DEF TypeOK
<1>6. EndsFollowStarts'
  <2>1. CASE elems' = Append(elems, key)
    BY <2>1, <1>1, <1>2 DEF EndsFollowStarts, At
  <2>2. CASE elems' = Append(Append(elems, key), close)
    <3>1. /\ Len(elems') = Len(elems) + 2
          /\ \A i \in 1..Len(elems) : elems'[i] = elems[i]
          /\ elems'[Len(elems) + 1] = key
      BY <2>2, <1>1, <1>2
    <3> QED BY <3>1, <1>1, <1>2 DEF EndsFollowStarts, At
  <2> QED BY <2>1, <2>2, <1>3
<1>7. CellsInv'
  <2>1. Boundary(next)'
    BY <1>1, <1>4, <1>6 DEF EndsFollowStarts, Boundary, At
  <2> QED BY <2>1, <1>1 DEF CellsInv
<1>8. WriteInv'
  BY <1>1 DEF WriteInv, Writing
<1>9. MsgsInv'
  BY <1>1 DEF MsgsInv, SentOnceInOrder, PairsIntact, MessagesTiled, ClosedNestsFit
<1> QED BY <1>5, <1>6, <1>7, <1>8, <1>9 DEF IInv

(* The iterator's own steps: taking messages and ending. *)
LEMMA IterKeepsInv ==
    ASSUME IInv, ElemsIter \/ IterSome \/ IterNone
    PROVE  IInv'
<1>1. /\ TypeOK /\ EndsFollowStarts /\ CellsInv /\ MsgsInv
      /\ elems' = elems /\ msgs' = msgs /\ next' = next /\ ret' = ret
      /\ UNCHANGED <<idx, prevLen, nest, nestLen>>
      /\ ~Writing' /\ pc' # "adding"
  BY DEF IInv, CellsInv, ElemsIter, IterSome, IterNone, writeVars, Writing
<1>2. TypeOK'
  <2>1. pc' \in Phase
    BY <1>1 DEF TypeOK, Phase, ElemsIter, IterSome, IterNone
  <2>2. held' \in 0..MaxHeld
    BY <1>1, BoundAssumption DEF TypeOK, ElemsIter, IterSome, IterNone
  <2> QED BY <1>1, <2>1, <2>2 DEF TypeOK
<1>3. EndsFollowStarts' /\ Boundary(next)'
  BY <1>1 DEF EndsFollowStarts, CellsInv, Boundary, At
<1>4. pc' = "done" => next = Len(elems)
  <2>1. ret <= 0 => ret = 0
    BY <1>1 DEF TypeOK
  <2>2. next \in Nat /\ Len(elems) \in Nat /\ next <= Len(elems)
    BY <1>1 DEF TypeOK
  <2> QED BY <1>1, <2>1, <2>2 DEF CellsInv, IterNone, IterSome, ElemsIter, IterEnds
<1>5. CellsInv'
  BY <1>1, <1>3, <1>4 DEF CellsInv
<1>6. WriteInv'
  BY <1>1 DEF WriteInv
<1>7. MsgsInv'
  BY <1>1, MessagesKept
<1> QED BY <1>2, <1>3, <1>5, <1>6, <1>7 DEF IInv

(* A write() that finds no element left. *)
LEMMA WriteNothingKeepsInv == ASSUME IInv, WriteNothing PROVE IInv'
<1>1. /\ TypeOK /\ EndsFollowStarts /\ CellsInv /\ elems \in Seq(Elem)
      /\ elems' = elems /\ next' = next /\ pc = "iterating" /\ pc' = pc
      /\ ret' = 0 /\ held' = held - 1 /\ held > 0 /\ next >= Len(elems)
      /\ UNCHANGED <<idx, prevLen, nest, nestLen>>
  BY DEF IInv, TypeOK, WriteNothing, writeVars
<1> DEFINE m == [attrs |-> {}, len |-> 0]
<1>2. m \in Msg /\ m.attrs = {} /\ m.len = 0
  BY DEF Msg
<1>3. msgs' = Append(msgs, m)
  BY DEF WriteNothing
<1> HIDE DEF m
<1>4. next = Len(elems) /\ next \in Nat
  BY <1>1 DEF TypeOK
<1>5. TypeOK'
  <2>1. msgs \in Seq(Msg) /\ msgs' \in Seq(Msg)
    BY <1>1, <1>2, <1>3 DEF TypeOK
  <2>2. held' \in 0..MaxHeld
    BY <1>1, BoundAssumption DEF TypeOK
  <2> QED BY <1>1, <2>1, <2>2 DEF TypeOK
<1>6. EndsFollowStarts' /\ CellsInv' /\ WriteInv'
  BY <1>1, <1>4 DEF EndsFollowStarts, CellsInv, Boundary, At, WriteInv, Writing
<1>7. Sent(m) = next..(next - 1)
  BY <1>2, <1>4 DEF Sent
<1>8. Tiled(m.attrs, m.len) /\ m.len <= NestMax
  BY <1>2, LengthAssumption DEF Tiled
<1>9. MsgsInv'
  <2>1. Boundary(next) /\ next' = next /\ next <= next /\ next <= Len(elems)
    BY <1>1, <1>4 DEF CellsInv
  <2> QED BY <1>1, <1>2, <1>3, <1>4, <1>7, <1>8, <2>1, MessageAdded
<1> QED BY <1>5, <1>6, <1>9 DEF IInv

(* A write() opens its nest. *)
LEMMA WriteStartKeepsInv == ASSUME IInv, WriteStart PROVE IInv'
<1>1. /\ TypeOK /\ EndsFollowStarts /\ CellsInv /\ MsgsInv
      /\ elems' = elems /\ msgs' = msgs /\ next' = next /\ ret' = ret
      /\ held' = held /\ held > 0 /\ next < Len(elems)
      /\ pc = "iterating" /\ pc' = "push"
      /\ idx' = next /\ prevLen' = NoLen /\ nest' = {} /\ nestLen' = NestHdr
  BY DEF IInv, WriteStart
<1>2. TypeOK'
  BY <1>1, LengthAssumption DEF TypeOK, Phase
<1>3. EndsFollowStarts' /\ CellsInv'
  BY <1>1 DEF EndsFollowStarts, CellsInv, Boundary, At
<1>4. Packed(elems, {}, NestHdr, next, next)
  BY <1>1, PackedEmpty DEF TypeOK
<1>5. NestHdr <= NestMax
  <2>1. elems[next + 1].len \in ElemLens
    BY <1>1, ElemLength DEF TypeOK
  <2> QED BY <2>1, PairFits
<1>6. WriteInv'
  <2>1. ~(idx' > next')
    BY <1>1 DEF TypeOK
  <2>2. hi' = next' /\ next' \in Nat
    BY <1>1 DEF hi, TypeOK
  <2> QED BY <1>1, <1>4, <1>5, <2>1, <2>2 DEF WriteInv, Writing, TypeOK
<1>7. MsgsInv'
  BY <1>1, MessagesKept
<1> QED BY <1>2, <1>3, <1>6, <1>7 DEF IInv

(* An element is serialized. *)
LEMMA PushKeepsInv == ASSUME IInv, Push PROVE IInv'
<1>1. /\ TypeOK /\ EndsFollowStarts /\ CellsInv /\ MsgsInv /\ WriteInv
      /\ elems \in Seq(Elem)
      /\ elems' = elems /\ msgs' = msgs /\ next' = next /\ ret' = ret
      /\ held' = held /\ idx' = idx /\ prevLen' = prevLen
      /\ pc = "push" /\ pc' = "test" /\ idx < Len(elems)
  BY DEF IInv, TypeOK, Push
<1>2. /\ next \in Nat /\ idx \in Nat /\ next <= idx /\ held > 0
      /\ next < Len(elems)
      /\ Packed(elems, nest, nestLen, next, idx) /\ nestLen <= NestMax
      /\ prevLen = IF idx > next /\ ~elems[idx].end
                   THEN elems[idx].len ELSE NoLen
  BY <1>1 DEF WriteInv, Writing, hi, TypeOK
<1>3. nestLen' = nestLen + elems[idx + 1].len
  BY DEF Push, At
<1>4. nest' = nest \union {[elem |-> idx, from |-> nestLen, to |-> nestLen']}
  BY DEF Push
<1>5. Packed(elems, nest', nestLen', next, idx + 1)
  BY <1>1, <1>2, <1>3, <1>4, PackedPush
<1>6. TypeOK'
  BY <1>1, <1>5 DEF TypeOK, Phase, Packed
<1>7. EndsFollowStarts' /\ CellsInv'
  BY <1>1 DEF EndsFollowStarts, CellsInv, Boundary, At
<1>8. WriteInv'
  <2>1. nestLen \in Nat /\ elems[idx + 1].len \in Nat
    BY <1>1, <1>2, ElemLength DEF TypeOK
  <2>2. nestLen' - elems[idx + 1].len <= NestMax
    BY <1>2, <1>3, <2>1
  <2>3. hi' = idx + 1
    BY <1>1 DEF hi
  <2> QED BY <1>1, <1>2, <1>5, <2>2, <2>3 DEF WriteInv, Writing, At, TypeOK
<1>9. MsgsInv'
  BY <1>1, MessagesKept
<1> QED BY <1>6, <1>7, <1>8, <1>9 DEF IInv

(* The element fits. *)
LEMMA FitsKeepsInv == ASSUME IInv, Fits PROVE IInv'
<1>1. /\ TypeOK /\ EndsFollowStarts /\ CellsInv /\ MsgsInv /\ WriteInv
      /\ elems \in Seq(Elem)
      /\ elems' = elems /\ msgs' = msgs /\ next' = next /\ ret' = ret
      /\ held' = held /\ idx' = idx + 1
      /\ prevLen' = IF At(idx).end THEN NoLen ELSE At(idx).len
      /\ nest' = nest /\ nestLen' = nestLen /\ nestLen <= NestMax
      /\ pc = "test" /\ pc' = "push"
  BY DEF IInv, TypeOK, Fits
<1>2. /\ next \in Nat /\ idx \in Nat /\ next <= idx /\ held > 0
      /\ next < Len(elems) /\ idx + 1 <= Len(elems)
      /\ Packed(elems, nest, nestLen, next, idx + 1)
  BY <1>1 DEF WriteInv, Writing, hi, TypeOK
<1>3. At(idx).len \in ElemLens
  BY <1>1, <1>2, ElemLength DEF At
<1>4. TypeOK'
  BY <1>1, <1>2, <1>3 DEF TypeOK, Phase
<1>5. EndsFollowStarts' /\ CellsInv'
  BY <1>1 DEF EndsFollowStarts, CellsInv, Boundary, At
<1>6. WriteInv'
  <2>1. hi' = idx + 1 /\ idx' > next'
    BY <1>1, <1>2 DEF hi
  <2> QED BY <1>1, <1>2, <2>1 DEF WriteInv, Writing, At
<1>7. MsgsInv'
  BY <1>1, MessagesKept
<1> QED BY <1>4, <1>5, <1>6, <1>7 DEF IInv

(***************************************************************************)
(* A write() closes its nest on the elements next..i-1, which end at a     *)
(* boundary.                                                               *)
(***************************************************************************)
LEMMA CloseKeepsInv ==
    ASSUME IInv, Writing,
           NEW i \in Nat, NEW attrs, NEW n, NEW overflow \in {0, 1},
           Close(i, attrs, n, overflow),
           Packed(elems, attrs, n, next, i),
           next <= i, i <= Len(elems), Boundary(i), n <= NestMax,
           overflow = 0 => i = Len(elems)
    PROVE  IInv'
<1>1. /\ TypeOK /\ EndsFollowStarts /\ CellsInv /\ MsgsInv /\ WriteInv
      /\ elems \in Seq(Elem) /\ next \in Nat /\ held > 0
      /\ elems' = elems /\ next' = i /\ ret' = overflow
      /\ held' = held - 1 /\ idx' = i /\ prevLen' = prevLen
      /\ nest' = attrs /\ nestLen' = n
      /\ pc' = "iterating"
  BY DEF IInv, TypeOK, WriteInv, Close
<1> DEFINE m == [attrs |-> attrs, len |-> n]
<1>2. attrs \in SUBSET Attr /\ n \in Nat
  BY DEF Packed
<1>3. m \in Msg /\ m.attrs = attrs /\ m.len = n
  BY <1>2 DEF Msg
<1>4. msgs' = Append(msgs, m)
  BY DEF Close
<1>5. Sent(m) = next..(i - 1) /\ Tiled(m.attrs, m.len)
  BY <1>1, <1>3, PackedTiled DEF Sent, Carried
<1> HIDE DEF m
<1>6. TypeOK'
  <2>1. msgs \in Seq(Msg) /\ msgs' \in Seq(Msg)
    BY <1>1, <1>3, <1>4 DEF TypeOK
  <2>2. held' \in 0..MaxHeld
    BY <1>1, BoundAssumption DEF TypeOK
  <2>3. i \in 0..Len(elems)
    BY <1>1
  <2> QED BY <1>1, <1>2, <2>1, <2>2, <2>3 DEF TypeOK, Phase
<1>7. EndsFollowStarts' /\ CellsInv' /\ WriteInv'
  BY <1>1 DEF EndsFollowStarts, CellsInv, Boundary, At, WriteInv, Writing
<1>8. MsgsInv'
  BY <1>1, <1>3, <1>4, <1>5, MessageAdded
<1> QED BY <1>6, <1>7, <1>8 DEF IInv

(* The last element of the set has been written. *)
LEMMA WriteLastKeepsInv == ASSUME IInv, WriteLast PROVE IInv'
<1>1. /\ TypeOK /\ WriteInv /\ pc = "push" /\ Writing /\ idx >= Len(elems)
      /\ Close(idx, nest, nestLen, 0)
  BY DEF IInv, WriteLast, Writing
<1>2. /\ idx \in Nat /\ next \in Nat /\ next <= idx /\ idx = Len(elems)
      /\ Packed(elems, nest, nestLen, next, idx) /\ nestLen <= NestMax
  BY <1>1 DEF WriteInv, TypeOK, hi
<1>3. Boundary(idx)
  BY <1>2 DEF Boundary
<1> QED BY <1>1, <1>2, <1>3, CloseKeepsInv

(***************************************************************************)
(* What an overflow leaves in the nest: everything before the element that *)
(* did not fit, or before its interval when that element closes one.  The  *)
(* start of the interval is in the nest, because a message starts at a     *)
(* boundary.                                                               *)
(***************************************************************************)
LEMMA OverflowLeaves ==
    ASSUME IInv, pc = "test"
    PROVE  LET i == IF At(idx).end THEN idx - 1 ELSE idx
               n == nestLen - Undone
           IN  /\ At(idx).end <=> Rewinds
               /\ i \in Nat /\ next <= i /\ i <= Len(elems) /\ Boundary(i)
               /\ Packed(elems, Within(nest, n), n, next, i)
               /\ n <= NestMax
<1>1. /\ elems \in Seq(Elem) /\ EndsFollowStarts /\ Boundary(next)
      /\ next \in Nat /\ idx \in Nat /\ next <= idx /\ idx + 1 <= Len(elems)
      /\ prevLen = IF idx > next /\ ~elems[idx].end
                   THEN elems[idx].len ELSE NoLen
      /\ Packed(elems, nest, nestLen, next, idx + 1)
      /\ nestLen - At(idx).len <= NestMax
  BY DEF IInv, TypeOK, CellsInv, WriteInv, Writing, hi
<1>2. At(idx).len \in Nat /\ nestLen \in Nat
  BY <1>1, ElemLength DEF At, Packed
<1>3. CASE At(idx).end
  <2>1. idx > next
    BY <1>1, <1>3 DEF Boundary
  <2>2. idx - 1 \in 0..(Len(elems) - 1) /\ idx \in 0..(Len(elems) - 1)
    BY <1>1, <2>1
  <2>3. ~elems[idx].end
    BY <1>1, <1>3, <2>2 DEF EndsFollowStarts, At
  <2>4. elems[idx].len \in Nat \ {0}
    <3> DEFINE j == idx - 1
    <3>1. j \in Nat /\ j < Len(elems) /\ j + 1 = idx
      BY <1>1, <2>1
    <3> HIDE DEF j
    <3>2. elems[j + 1].len \in Nat \ {0}
      BY <1>1, <3>1, ElemLength
    <3> QED BY <3>1, <3>2
  <2>5. prevLen = elems[idx].len
    BY <1>1, <2>1, <2>3
  <2>6. Rewinds /\ Undone = elems[idx + 1].len + elems[(idx + 1) - 1].len
    BY <1>1, <1>3, <2>4, <2>5 DEF Rewinds, Undone, NoLen, At
  <2>7. Packed(elems, Within(nest, nestLen - Undone), nestLen - Undone,
               next, (idx + 1) - 2)
    BY <1>1, <2>1, <2>6, PackedUndoPair
  <2>8. (idx + 1) - 2 = idx - 1 /\ (idx + 1) - 1 = idx
    BY <1>1
  <2>9. nestLen - Undone <= NestMax
    <3>1. Undone = At(idx).len + elems[idx].len
      BY <2>6, <2>8 DEF At
    <3> QED BY <1>1, <1>2, <2>4, <3>1, LengthAssumption
  <2>10. Boundary(idx - 1)
    BY <1>1, <2>3 DEF Boundary, At
  <2> QED BY <1>1, <1>3, <2>1, <2>2, <2>6, <2>7, <2>8, <2>9, <2>10
<1>4. CASE ~At(idx).end
  <2>1. ~Rewinds /\ Undone = elems[idx + 1].len
    BY <1>2, <1>4 DEF Rewinds, Undone, At
  <2>2. Packed(elems, Within(nest, nestLen - Undone), nestLen - Undone,
               next, (idx + 1) - 1)
    BY <1>1, <2>1, PackedUndo
  <2>3. (idx + 1) - 1 = idx /\ idx <= Len(elems)
    BY <1>1
  <2>4. Boundary(idx) /\ nestLen - Undone <= NestMax
    BY <1>1, <1>4, <2>1 DEF Boundary, At
  <2> QED BY <1>1, <1>4, <2>1, <2>2, <2>3, <2>4
<1> QED BY <1>3, <1>4

(* An element that does not fit is undone and left to the next message. *)
LEMMA OverflowsKeepsInv == ASSUME IInv, Overflows PROVE IInv'
<1> DEFINE i == IF At(idx).end THEN idx - 1 ELSE idx
           n == nestLen - Undone
<1>1. pc = "test" /\ Writing
  BY DEF Overflows, Writing
<1>2. /\ At(idx).end <=> Rewinds
      /\ i \in Nat /\ next <= i /\ i <= Len(elems) /\ Boundary(i)
      /\ Packed(elems, Within(nest, n), n, next, i) /\ n <= NestMax
  BY <1>1, OverflowLeaves
<1>3. Close(i, Within(nest, n), n, 1)
  BY <1>2 DEF Overflows
<1> HIDE DEF i, n
<1> QED BY <1>1, <1>2, <1>3, CloseKeepsInv

LEMMA StepKeepsInv == IInv /\ [Next]_vars => IInv'
<1> SUFFICES ASSUME IInv, [Next]_vars PROVE IInv'
  OBVIOUS
<1>1. CASE \E l \in ElemLens : AddElement(l)
  BY <1>1, AddKeepsInv
<1>2. CASE \E l, m \in ElemLens : AddInterval(l, m)
  BY <1>2, AddKeepsInv
<1>3. CASE ElemsIter \/ IterSome \/ IterNone
  BY <1>3, IterKeepsInv
<1>4. CASE Write
  BY <1>4, WriteNothingKeepsInv, WriteStartKeepsInv, PushKeepsInv,
     FitsKeepsInv, OverflowsKeepsInv, WriteLastKeepsInv DEF Write
<1>5. CASE UNCHANGED vars
  <2>1. /\ TypeOK' /\ EndsFollowStarts' /\ CellsInv'
        /\ elems' = elems /\ msgs' = msgs /\ next' = next
    BY <1>5 DEF vars, IInv, TypeOK, EndsFollowStarts, CellsInv, Boundary, At
  <2>2. WriteInv'
    BY <1>5 DEF vars, IInv, WriteInv, Writing, hi, At
  <2> QED BY <2>1, <2>2, MessagesKept DEF IInv
<1> QED BY <1>1, <1>2, <1>3, <1>4, <1>5 DEF Next, Iterate

----------------------------------------------------------------------------
(* The theorems.                                                           *)

(***************************************************************************)
(* The inductive invariant holds: of the element list, of the shared cells *)
(* and of write()'s locals, for every number of messages held at a time.   *)
(***************************************************************************)
THEOREM InductiveInvariant == Spec => []IInv
<1>1. Init => IInv
  BY InitInv
<1>2. IInv /\ [Next]_vars => IInv'
  BY StepKeepsInv
<1> QED BY <1>1, <1>2, PTL DEF Spec

(* Every variable keeps its type; no length and no index becomes negative. *)
THEOREM TypeCorrect == Spec => []TypeOK
<1>1. IInv => TypeOK
  BY DEF IInv
<1> QED BY <1>1, InductiveInvariant, PTL

(* write() never separates the two elements of an interval. *)
THEOREM PairsStayIntact == Spec => []PairsIntact
<1>1. IInv => PairsIntact
  BY DEF IInv, MsgsInv
<1> QED BY <1>1, InductiveInvariant, PTL

(* No element is lost, sent twice or sent out of order. *)
THEOREM ElementsSentOnceInOrder == Spec => []SentOnceInOrder
<1>1. IInv => SentOnceInOrder
  BY DEF IInv, MsgsInv
<1> QED BY <1>1, InductiveInvariant, PTL

(* shrink() never leaves a part of an element in a message. *)
THEOREM MessagesAreTiled == Spec => []MessagesTiled
<1>1. IInv => MessagesTiled
  BY DEF IInv, MsgsInv
<1> QED BY <1>1, InductiveInvariant, PTL

(* The message being written stays within the room for it. *)
LEMMA BoundsFromInv == ASSUME IInv PROVE WritesInBounds
<1>1. ASSUME pc = "push" PROVE MsgHdr + nestLen <= MsgMax
  <2>1. nestLen \in Nat /\ nestLen <= NestMax /\ next < Len(elems)
        /\ next \in Nat /\ elems \in Seq(Elem)
    BY <1>1 DEF IInv, TypeOK, WriteInv, Writing
  <2>2. PICK l \in ElemLens : l = elems[next + 1].len
    BY <2>1, ElemLength
  <2>3. l \in Nat /\ MsgHdr + NestMax + l <= MsgMax
    BY SlackAssumption, LengthAssumption
  <2> QED BY <2>1, <2>3, LengthAssumption
<1>2. ASSUME pc = "test" PROVE MsgHdr + nestLen <= MsgMax
  <2>1. /\ nestLen \in Nat /\ idx \in Nat /\ idx + 1 <= Len(elems)
        /\ nestLen - elems[idx + 1].len <= NestMax /\ elems \in Seq(Elem)
    BY <1>2 DEF IInv, TypeOK, WriteInv, Writing, hi, At
  <2>2. PICK l \in ElemLens : l = elems[idx + 1].len
    <3>1. idx < Len(elems)
      BY <2>1
    <3> QED BY <2>1, <3>1, ElemLength
  <2>3. l \in Nat /\ MsgHdr + NestMax + l <= MsgMax
    BY SlackAssumption, LengthAssumption
  <2> QED BY <2>1, <2>2, <2>3, LengthAssumption
<1> QED BY <1>1, <1>2
        DEF IInv, MsgsInv, ClosedNestsFit, WritesInBounds

(***************************************************************************)
(* A message stays within the room for it while an element that does not   *)
(* fit is in it, and its nest within its length field when it is closed.   *)
(***************************************************************************)
THEOREM WritesStayInBounds == Spec => []WritesInBounds
<1>1. IInv => WritesInBounds
  BY BoundsFromInv
<1> QED BY <1>1, InductiveInvariant, PTL

(* The iterator ends only when every element has been sent. *)
THEOREM IterationIsComplete == Spec => []AllSent
<1>1. IInv => AllSent
  BY DEF IInv, CellsInv, AllSent
<1> QED BY <1>1, InductiveInvariant, PTL

----------------------------------------------------------------------------
(***************************************************************************)
(* Every message is needed, and the iterator implements ElemStream.        *)
(***************************************************************************)

(* The element that comes next did not fit into the last message. *)
FirstDidNotFit ==
    Len(msgs) > 0 /\ next < Len(elems) =>
        msgs[Len(msgs)].len + UnitLen(next) > NestMax

(***************************************************************************)
(* Messages at hand when everything is sent were taken before the last     *)
(* element was: they are fewer than MaxHeld, with those written since.     *)
(***************************************************************************)
EmptyAreHeld ==
    /\ next = Len(elems) => held <= MaxHeld - 1
    /\ \A k \in DOMAIN msgs : msgs[k].attrs = {} =>
           next = Len(elems) /\ Len(msgs) - k + held < MaxHeld - 1

NeededInv ==
    /\ pc = "adding" => held = 0
    /\ FirstDidNotFit
    /\ EmptyAreHeld
    /\ MessagesNeeded

(* What OverflowLeaves does not say: the message is not empty, and full. *)
LEMMA OverflowIsNeeded ==
    ASSUME IInv, Overflows
    PROVE  LET i == IF At(idx).end THEN idx - 1 ELSE idx
               n == nestLen - Undone
           IN  next < i /\ i < Len(elems) /\ n + UnitLen(i) > NestMax
<1> DEFINE i == IF At(idx).end THEN idx - 1 ELSE idx
           n == nestLen - Undone
<1>1. pc = "test" /\ nestLen > NestMax /\ elems \in Seq(Elem)
      /\ idx \in Nat /\ next \in Nat /\ nestLen \in Nat /\ idx < Len(elems)
  BY DEF Overflows, IInv, TypeOK, WriteInv, Writing, hi
<1>2. /\ At(idx).end <=> Rewinds
      /\ i \in Nat /\ next <= i /\ Packed(elems, Within(nest, n), n, next, i)
  BY <1>1, OverflowLeaves
<1>3. PICK l \in ElemLens : l = elems[idx + 1].len
  BY <1>1, ElemLength
<1>4. l \in Nat \ {0}
  BY LengthAssumption
<1>5. CASE At(idx).end
  <2>1. i = idx - 1 /\ i + 1 = idx /\ i < Len(elems)
    BY <1>1, <1>2, <1>5
  <2>2. Rewinds /\ prevLen = elems[i + 1].len
    BY <1>1, <1>2, <1>5, <2>1 DEF IInv, WriteInv, Writing, Rewinds, NoLen
  <2>3. PICK p \in ElemLens : p = elems[i + 1].len
    BY <1>1, <1>2, <2>1, ElemLength
  <2>4. p \in Nat \ {0} /\ NestHdr + p + l <= NestMax
    BY PairFits, LengthAssumption
  <2>5. UnitLen(i) = p + l
    BY <1>1, <1>3, <1>5, <2>1, <2>3 DEF UnitLen, Opens, At
  <2>6. n = nestLen - (l + p)
    BY <1>3, <2>2, <2>3 DEF Undone, At
  <2>7. n + UnitLen(i) > NestMax
    BY <1>1, <1>4, <2>4, <2>5, <2>6, LengthAssumption
  <2>8. i # next
    <3>1. i = next => n = NestHdr
      BY <1>2 DEF Packed
    <3> HIDE DEF n, i
    <3> QED BY <3>1, <1>4, <2>4, <2>5, <2>7, LengthAssumption
  <2> QED BY <1>1, <1>2, <2>1, <2>7, <2>8
<1>6. CASE ~At(idx).end
  <2>1. i = idx /\ n = nestLen - l
    BY <1>2, <1>3, <1>4, <1>6 DEF Undone, At
  <2>2. UnitLen(idx) \in Nat /\ l <= UnitLen(idx) /\ NestHdr + UnitLen(idx) <= NestMax
    <3>1. CASE Opens(idx)
      <4>1. PICK p \in ElemLens : p = elems[(idx + 1) + 1].len
        BY <3>1, <1>1, ElemLength DEF Opens
      <4>2. UnitLen(idx) = l + p
        BY <3>1, <4>1, <1>3 DEF UnitLen, At
      <4>3. p \in Nat /\ NestHdr + l + p <= NestMax
        BY PairFits, LengthAssumption
      <4> QED BY <4>2, <4>3, <1>4, LengthAssumption
    <3>2. CASE ~Opens(idx)
      <4>1. UnitLen(idx) = l
        BY <3>2, <1>3, <1>4 DEF UnitLen, At
      <4> QED BY <4>1, <1>4, PairFits
    <3> QED BY <3>1, <3>2
  <2>3. n + UnitLen(idx) > NestMax
    BY <1>1, <1>4, <2>1, <2>2, LengthAssumption
  <2>4. idx # next
    <3>1. idx = next => n = NestHdr
      BY <1>2, <2>1 DEF Packed
    <3> HIDE DEF n, i
    <3> QED BY <3>1, <2>2, <2>3, LengthAssumption
  <2> QED BY <1>1, <1>2, <2>1, <2>3, <2>4
<1> QED BY <1>5, <1>6

(* A message with elements, after one the first of them did not fit in. *)
LEMMA CloseKeepsNeeded ==
    ASSUME IInv, NeededInv, Writing,
           NEW i \in Nat, NEW attrs, NEW n \in Nat, NEW overflow,
           Close(i, attrs, n, overflow),
           Packed(elems, attrs, n, next, i), next < i, i <= Len(elems),
           i < Len(elems) => n + UnitLen(i) > NestMax
    PROVE  NeededInv'
<1>1. /\ held' = held - 1 /\ elems' = elems /\ next' = i
      /\ held \in 0..MaxHeld /\ MaxHeld \in Nat
      /\ next \in Nat /\ next < Len(elems) /\ elems \in Seq(Elem)
      /\ pc' = "iterating" /\ msgs \in Seq(Msg) /\ Len(msgs) \in Nat
  <2>1. /\ held' = held - 1 /\ elems' = elems /\ next' = i /\ pc' = "iterating"
    BY DEF Close
  <2>2. /\ next \in Nat /\ elems \in Seq(Elem) /\ held \in 0..MaxHeld
        /\ msgs \in Seq(Msg) /\ Len(msgs) \in Nat /\ Len(elems) \in Nat
    BY DEF IInv, TypeOK
  <2> QED BY <2>1, <2>2, BoundAssumption
<1> DEFINE m == [attrs |-> attrs, len |-> n]
<1>2. Sent(m) = next..(i - 1)
  <2>1. next <= i /\ next \in Nat /\ elems \in Seq(Elem)
    BY <1>1
  <2>2. Carried(attrs) = next..(i - 1)
    BY <2>1, OpenNestCarries
  <2>3. m.attrs = attrs
    OBVIOUS
  <2> HIDE DEF m
  <2> QED BY <2>2, <2>3 DEF Sent, Carried
<1>3. m.len = n /\ m.attrs = attrs /\ msgs' = Append(msgs, m)
  BY DEF Close
<1>4. m \in Msg
  BY DEF Msg, Packed
<1> HIDE DEF m
<1>5. /\ DOMAIN msgs = 1..Len(msgs)
      /\ Len(msgs') = Len(msgs) + 1 /\ DOMAIN msgs' = 1..(Len(msgs) + 1)
      /\ \A k \in 1..Len(msgs) : msgs'[k] = msgs[k]
      /\ msgs'[Len(msgs) + 1] = m
  BY <1>1, <1>3, <1>4
<1>6. FirstDidNotFit'
  BY <1>1, <1>3, <1>5 DEF FirstDidNotFit, UnitLen, Opens, At
<1>7. next \in Sent(m) /\ \A j \in Sent(m) : next <= j
  BY <1>1, <1>2
<1>8. \A k \in DOMAIN msgs' : msgs'[k].attrs # {}
  <2>1. m.attrs # {}
    BY <1>7 DEF Sent
  <2>2. \A k \in 1..Len(msgs) : msgs[k].attrs # {}
    BY <1>1, <1>5 DEF NeededInv, EmptyAreHeld
  <2>3. \A k \in DOMAIN msgs' : k \in 1..Len(msgs) \/ k = Len(msgs) + 1
    BY <1>1, <1>5
  <2> QED BY <1>5, <2>1, <2>2, <2>3
<1>9. EmptyAreHeld'
  <2>1. held' <= MaxHeld - 1
    BY <1>1
  <2> QED BY <2>1, <1>8 DEF EmptyAreHeld
<1>10. MessagesNeeded'
  <2> SUFFICES ASSUME NEW k \in DOMAIN msgs', k > 1
               PROVE  \E e \in Sent(msgs'[k]) :
                            /\ \A j \in Sent(msgs'[k]) : e <= j
                            /\ msgs'[k - 1].len + UnitLen(e) > NestMax
    BY <1>1, <1>8 DEF MessagesNeeded, Sent, UnitLen, Opens, At
  <2>1. CASE k \in DOMAIN msgs
    <3>1. k - 1 \in 1..Len(msgs) /\ msgs[k].attrs # {}
      BY <2>1, <1>1, <1>5, <1>8
    <3> QED BY <2>1, <3>1, <1>5 DEF NeededInv, MessagesNeeded
  <2>2. CASE k = Len(msgs) + 1
    <3>1. msgs'[k - 1].len + UnitLen(next) > NestMax
      <4>1. k - 1 = Len(msgs) /\ Len(msgs) > 0
        BY <2>2, <1>1
      <4> QED BY <4>1, <1>1, <1>5 DEF NeededInv, FirstDidNotFit
    <3> QED BY <2>2, <3>1, <1>5, <1>7
  <2> QED BY <2>1, <2>2, <1>1, <1>5
<1> QED BY <1>1, <1>6, <1>10, <1>9 DEF NeededInv

(* An empty message uses up one that was taken too early. *)
LEMMA NothingKeepsNeeded ==
    ASSUME IInv, NeededInv, WriteNothing PROVE NeededInv'
<1> DEFINE m == [attrs |-> {}, len |-> 0]
<1>1. /\ elems' = elems /\ next' = next /\ pc' = pc /\ held' = held - 1
      /\ held \in Nat /\ held > 0 /\ MaxHeld \in Nat
      /\ next \in Nat /\ next = Len(elems) /\ pc = "iterating"
      /\ msgs \in Seq(Msg) /\ Len(msgs) \in Nat
  <2>1. /\ next \in 0..Len(elems) /\ held \in 0..MaxHeld
        /\ msgs \in Seq(Msg) /\ Len(msgs) \in Nat /\ Len(elems) \in Nat
    BY DEF IInv, TypeOK
  <2> QED BY <2>1, BoundAssumption DEF WriteNothing
<1>2. m \in Msg /\ msgs' = Append(msgs, m) /\ m.attrs = {}
  BY DEF WriteNothing, Msg
<1> HIDE DEF m
<1>3. /\ DOMAIN msgs = 1..Len(msgs)
      /\ Len(msgs') = Len(msgs) + 1 /\ DOMAIN msgs' = 1..(Len(msgs) + 1)
      /\ \A k \in 1..Len(msgs) : msgs'[k] = msgs[k]
      /\ msgs'[Len(msgs) + 1] = m
  BY <1>1, <1>2
<1>4. held <= MaxHeld - 1
  BY <1>1 DEF NeededInv, EmptyAreHeld
<1>5. \A k \in DOMAIN msgs' : msgs'[k].attrs = {} =>
          Len(msgs') - k + held' < MaxHeld - 1
  <2> SUFFICES ASSUME NEW k \in DOMAIN msgs', msgs'[k].attrs = {}
               PROVE  Len(msgs') - k + held' < MaxHeld - 1
    OBVIOUS
  <2>1. CASE k \in 1..Len(msgs)
    <3>1. Len(msgs) - k + held < MaxHeld - 1
      BY <2>1, <1>3 DEF NeededInv, EmptyAreHeld
    <3> QED BY <3>1, <2>1, <1>1, <1>3
  <2>2. CASE k = Len(msgs) + 1
    BY <2>2, <1>1, <1>3, <1>4
  <2> QED BY <2>1, <2>2, <1>1, <1>3
<1>6. EmptyAreHeld'
  BY <1>1, <1>4, <1>5 DEF EmptyAreHeld
<1>7. FirstDidNotFit'
  BY <1>1 DEF FirstDidNotFit
<1>8. MessagesNeeded'
  <2> SUFFICES ASSUME NEW k \in DOMAIN msgs'
               PROVE  /\ msgs'[k].attrs = {} => Len(msgs') < k + MaxHeld - 1
                      /\ k > 1 /\ msgs'[k].attrs # {} =>
                            \E e \in Sent(msgs'[k]) :
                               /\ \A j \in Sent(msgs'[k]) : e <= j
                               /\ msgs'[k - 1].len + UnitLen(e) > NestMax
    BY <1>1 DEF MessagesNeeded, Sent, UnitLen, Opens, At
  <2>1. msgs'[k].attrs = {} => Len(msgs') < k + MaxHeld - 1
    BY <1>1, <1>3, <1>5
  <2>2. ASSUME k > 1, msgs'[k].attrs # {}
        PROVE  \E e \in Sent(msgs'[k]) :
                  /\ \A j \in Sent(msgs'[k]) : e <= j
                  /\ msgs'[k - 1].len + UnitLen(e) > NestMax
    <3>1. k \in 1..Len(msgs) /\ k - 1 \in 1..Len(msgs)
      BY <2>2, <1>1, <1>2, <1>3
    <3> QED BY <3>1, <2>2, <1>3 DEF NeededInv, MessagesNeeded
  <2> QED BY <2>1, <2>2
<1> QED BY <1>1, <1>6, <1>7, <1>8 DEF NeededInv

LEMMA StepKeepsNeeded ==
    ASSUME IInv, NeededInv, [Next]_vars PROVE NeededInv'
<1>1. CASE \E l, m \in ElemLens : AddElement(l) \/ AddInterval(l, m)
  <2>1. /\ held' = held /\ pc' = pc /\ msgs' = msgs /\ msgs = <<>>
        /\ pc = "adding" /\ held = 0
    BY <1>1 DEF AddElement, AddInterval, IInv, CellsInv, NeededInv, writeVars
  <2> QED BY <2>1, BoundAssumption
          DEF NeededInv, FirstDidNotFit, EmptyAreHeld, MessagesNeeded
<1>2. CASE ElemsIter \/ IterSome \/ IterNone
  <2>1. elems' = elems /\ msgs' = msgs /\ next' = next /\ pc' # "adding"
    BY <1>2 DEF ElemsIter, IterSome, IterNone, IInv, CellsInv
  <2>2. held' = held \/ next < Len(elems)
    <3>1. next \in Nat /\ Len(elems) \in Nat
      BY DEF IInv, TypeOK
    <3> QED BY <1>2, <3>1 DEF ElemsIter, IterSome, IterNone, IterEnds
  <2>3. next \in Nat /\ Len(elems) \in Nat
    BY DEF IInv, TypeOK
  <2>4. EmptyAreHeld'
    BY <2>1, <2>2, <2>3 DEF NeededInv, EmptyAreHeld
  <2> QED BY <2>1, <2>4
          DEF NeededInv, FirstDidNotFit, MessagesNeeded, Sent, UnitLen, Opens, At
<1>3. CASE WriteNothing
  BY <1>3, NothingKeepsNeeded
<1>4. CASE WriteStart \/ Push \/ Fits \/ UNCHANGED vars
  <2>1. /\ elems' = elems /\ msgs' = msgs /\ next' = next /\ held' = held
        /\ pc' = pc \/ pc' # "adding"
    BY <1>4 DEF WriteStart, Push, Fits, vars
  <2> QED BY <2>1
          DEF NeededInv, FirstDidNotFit, EmptyAreHeld, MessagesNeeded, Sent,
              UnitLen, Opens, At
<1>5. CASE Overflows
  <2> DEFINE i == IF At(idx).end THEN idx - 1 ELSE idx
             n == nestLen - Undone
  <2>1. pc = "test" /\ Writing
    BY <1>5 DEF Overflows, Writing
  <2>2. /\ At(idx).end <=> Rewinds
        /\ i \in Nat /\ i <= Len(elems)
        /\ Packed(elems, Within(nest, n), n, next, i)
    BY <2>1, OverflowLeaves
  <2>3. next < i /\ n + UnitLen(i) > NestMax
    BY <1>5, OverflowIsNeeded
  <2>4. Close(i, Within(nest, n), n, 1)
    BY <1>5, <2>2 DEF Overflows
  <2>5. n \in Nat
    BY <2>2 DEF Packed
  <2> HIDE DEF i, n
  <2> QED BY <2>1, <2>2, <2>3, <2>4, <2>5, CloseKeepsNeeded
<1>6. CASE WriteLast
  <2>1. /\ Writing /\ Close(idx, nest, nestLen, 0) /\ idx \in Nat
        /\ Packed(elems, nest, nestLen, next, idx) /\ nestLen \in Nat
        /\ next < Len(elems) /\ idx = Len(elems)
    BY <1>6 DEF WriteLast, Writing, IInv, TypeOK, WriteInv, hi
  <2>2. next < idx /\ idx <= Len(elems) /\ ~(idx < Len(elems))
    BY <2>1
  <2> QED BY <2>1, <2>2, CloseKeepsNeeded
<1> QED BY <1>1, <1>2, <1>3, <1>4, <1>5, <1>6 DEF Next, Iterate, Write

(***************************************************************************)
(* No message of the iterator begins with an interval or key that its      *)
(* predecessor had room for, and none is empty but those that were taken   *)
(* before the last element was written, of which there are few.            *)
(***************************************************************************)
THEOREM EveryMessageIsNeeded == Spec => []MessagesNeeded
<1>1. Init => NeededInv
  BY BoundAssumption DEF Init, NeededInv, FirstDidNotFit, EmptyAreHeld, MessagesNeeded
<1>2. IInv /\ NeededInv /\ [Next]_vars => NeededInv'
  BY StepKeepsNeeded
<1>3. NeededInv => MessagesNeeded
  BY DEF NeededInv
<1> QED BY <1>1, <1>2, <1>3, InductiveInvariant, PTL DEF Spec

----------------------------------------------------------------------------
(* Messages without elements, which a program may get that holds several.  *)

LEMMA MessageKeepsEmptyAtEnd ==
    ASSUME IInv, EmptyOnlyAtEnd, elems' = elems,
           NEW m \in Msg, msgs' = Append(msgs, m),
           m.attrs = {} => next = Len(elems)
    PROVE  EmptyOnlyAtEnd'
<1>1. msgs \in Seq(Msg) /\ Len(msgs) \in Nat /\ elems \in Seq(Elem)
  BY DEF IInv, TypeOK
<1>2. /\ DOMAIN msgs = 1..Len(msgs) /\ DOMAIN msgs' = 1..(Len(msgs) + 1)
      /\ \A k \in 1..Len(msgs) : msgs'[k] = msgs[k]
      /\ msgs'[Len(msgs) + 1] = m
  BY <1>1
<1> SUFFICES ASSUME NEW k \in DOMAIN msgs', msgs'[k].attrs = {},
                    NEW i \in DOMAIN elems'
             PROVE  \E j \in 1..(k - 1) : i - 1 \in Sent(msgs'[j])
  BY DEF EmptyOnlyAtEnd, Sent
<1>3. CASE k \in 1..Len(msgs)
  <2>1. PICK j \in 1..(k - 1) : i - 1 \in Sent(msgs[j])
    BY <1>2, <1>3 DEF EmptyOnlyAtEnd
  <2>2. j \in 1..Len(msgs)
    BY <1>1, <1>3
  <2> QED BY <1>2, <2>1, <2>2
<1>4. CASE k = Len(msgs) + 1
  <2>1. i \in 1..next
    BY <1>1, <1>2, <1>4
  <2>2. PICK j \in DOMAIN msgs : i - 1 \in Sent(msgs[j])
    BY <2>1 DEF IInv, MsgsInv, SentOnceInOrder
  <2>3. j \in 1..(k - 1) /\ msgs'[j] = msgs[j]
    BY <1>1, <1>2, <1>4, <2>2
  <2> QED BY <2>2, <2>3
<1> QED BY <1>1, <1>2, <1>3, <1>4

(* A message that write() closes with some elements is not empty. *)
LEMMA CloseKeepsEmptyAtEnd ==
    ASSUME IInv, EmptyOnlyAtEnd,
           NEW i \in Nat, NEW attrs, NEW n, NEW overflow,
           Close(i, attrs, n, overflow),
           Packed(elems, attrs, n, next, i), next < i
    PROVE  EmptyOnlyAtEnd'
<1> DEFINE m == [attrs |-> attrs, len |-> n]
<1>1. m \in Msg /\ msgs' = Append(msgs, m) /\ elems' = elems
  BY DEF Msg, Packed, Close
<1>2. m.attrs # {}
  <2>1. next \in next..(i - 1)
    BY DEF IInv, TypeOK
  <2>2. PICK a \in attrs : a.elem = next
    BY <2>1 DEF Packed
  <2> QED BY <2>2
<1> HIDE DEF m
<1> QED BY <1>1, <1>2, MessageKeepsEmptyAtEnd

LEMMA WriteKeepsEmptyAtEnd ==
    ASSUME IInv, EmptyOnlyAtEnd, WriteNothing \/ Overflows \/ WriteLast
    PROVE  EmptyOnlyAtEnd'
<1>1. CASE WriteNothing
  <2> DEFINE m == [attrs |-> {}, len |-> 0]
  <2>1. m \in Msg /\ msgs' = Append(msgs, m) /\ elems' = elems
    BY <1>1 DEF WriteNothing, Msg
  <2>2. next = Len(elems)
    <3>1. next \in 0..Len(elems) /\ Len(elems) \in Nat
      BY DEF IInv, TypeOK
    <3> QED BY <1>1, <3>1 DEF WriteNothing
  <2> HIDE DEF m
  <2> QED BY <2>1, <2>2, MessageKeepsEmptyAtEnd
<1>2. CASE Overflows
  <2> DEFINE i == IF At(idx).end THEN idx - 1 ELSE idx
             n == nestLen - Undone
  <2>1. pc = "test" /\ Writing
    BY <1>2 DEF Overflows, Writing
  <2>2. /\ At(idx).end <=> Rewinds
        /\ i \in Nat /\ Packed(elems, Within(nest, n), n, next, i)
    BY <2>1, OverflowLeaves
  <2>3. next < i
    BY <1>2, OverflowIsNeeded
  <2>4. Close(i, Within(nest, n), n, 1)
    BY <1>2, <2>2 DEF Overflows
  <2> HIDE DEF i, n
  <2> QED BY <2>2, <2>3, <2>4, CloseKeepsEmptyAtEnd
<1>3. CASE WriteLast
  <2>1. /\ Writing /\ Close(idx, nest, nestLen, 0) /\ idx \in Nat
        /\ Packed(elems, nest, nestLen, next, idx) /\ next < Len(elems) /\ idx = Len(elems)
    BY <1>3 DEF WriteLast, Writing, IInv, TypeOK, WriteInv, hi
  <2>2. next < idx
    BY <2>1
  <2> QED BY <2>1, <2>2, CloseKeepsEmptyAtEnd
<1> QED BY <1>1, <1>2, <1>3

LEMMA StepKeepsEmptyAtEnd ==
    ASSUME IInv, EmptyOnlyAtEnd, [Next]_vars PROVE EmptyOnlyAtEnd'
<1>1. CASE \E l, m \in ElemLens : AddElement(l) \/ AddInterval(l, m)
  <2>1. msgs' = <<>>
    BY <1>1 DEF AddElement, AddInterval, IInv, CellsInv
  <2> QED BY <2>1 DEF EmptyOnlyAtEnd
<1>2. CASE ElemsIter \/ IterSome \/ IterNone \/ WriteStart \/ Push \/ Fits \/ UNCHANGED vars
  <2>1. msgs' = msgs /\ elems' = elems
    BY <1>2 DEF ElemsIter, IterSome, IterNone, WriteStart, Push, Fits, vars
  <2> QED BY <2>1 DEF EmptyOnlyAtEnd, Sent
<1>3. CASE WriteNothing \/ Overflows \/ WriteLast
  BY <1>3, WriteKeepsEmptyAtEnd
<1> QED BY <1>1, <1>2, <1>3 DEF Next, Iterate, Write

(***************************************************************************)
(* However many messages a program holds, none is empty while an element   *)
(* is yet to be sent.                                                      *)
(***************************************************************************)
THEOREM EmptyMessagesComeLast == Spec => []EmptyOnlyAtEnd
<1>1. Init => EmptyOnlyAtEnd
  BY DEF Init, EmptyOnlyAtEnd
<1>2. IInv /\ EmptyOnlyAtEnd /\ [Next]_vars => EmptyOnlyAtEnd'
  BY StepKeepsEmptyAtEnd
<1> QED BY <1>1, <1>2, InductiveInvariant, PTL DEF Spec

----------------------------------------------------------------------------
outBar == [k \in DOMAIN msgs |-> Sent(msgs[k])]
phaseBar == IF pc \in {"adding", "done"} THEN pc ELSE "sending"

(* Appending, element by element. *)
LEMMA AppendEqual ==
    ASSUME NEW S, NEW s \in Seq(S), NEW x \in S, NEW t \in Seq(S),
           Len(t) = Len(s) + 1, t[Len(s) + 1] = x,
           \A k \in 1..Len(s) : t[k] = s[k]
    PROVE  t = Append(s, x)
<1>1. /\ Append(s, x) \in Seq(S) /\ Len(Append(s, x)) = Len(t) /\ Len(s) \in Nat
      /\ \A k \in 1..Len(s) : Append(s, x)[k] = s[k]
      /\ Append(s, x)[Len(s) + 1] = x
  OBVIOUS
<1>2. \A k \in 1..Len(t) : k \in 1..Len(s) \/ k = Len(s) + 1
  BY <1>1
<1>3. \A k \in 1..Len(t) : t[k] = Append(s, x)[k]
  BY <1>1, <1>2
<1> QED BY <1>1, <1>3, SeqEqual

(* A message in the terms of the stream. *)
LEMMA SentIsSet == ASSUME NEW m \in Msg PROVE Sent(m) \in SUBSET Nat
BY DEF Msg, Sent, Attr

(* A message that is written is one message of the stream. *)
LEMMA StreamAppends ==
    ASSUME IInv, NEW m \in Msg, msgs' = Append(msgs, m)
    PROVE  outBar' = Append(outBar, Sent(m))
<1>1. msgs \in Seq(Msg) /\ Len(msgs) \in Nat
  BY DEF IInv, TypeOK
<1>2. /\ DOMAIN msgs = 1..Len(msgs) /\ DOMAIN msgs' = 1..(Len(msgs) + 1)
      /\ \A k \in 1..Len(msgs) : msgs'[k] = msgs[k]
      /\ msgs'[Len(msgs) + 1] = m
  BY <1>1
<1>3. \A k \in 1..Len(msgs) : Sent(msgs[k]) \in SUBSET Nat
  BY <1>1, SentIsSet
<1>4. outBar \in Seq(SUBSET Nat) /\ Len(outBar) = Len(msgs)
  BY <1>1, <1>2, <1>3 DEF outBar
<1>5. /\ outBar' \in Seq(SUBSET Nat) /\ Len(outBar') = Len(msgs) + 1
      /\ \A k \in 1..Len(msgs) : outBar'[k] = outBar[k]
      /\ outBar'[Len(msgs) + 1] = Sent(m)
  <2>1. msgs' \in Seq(Msg) /\ Len(msgs') = Len(msgs) + 1
    BY <1>1
  <2>2. \A k \in 1..(Len(msgs) + 1) : Sent(msgs'[k]) \in SUBSET Nat
    BY <2>1, SentIsSet
  <2>3. outBar' = [k \in 1..(Len(msgs) + 1) |-> Sent(msgs'[k])]
    BY <1>2 DEF outBar, Sent
  <2> QED BY <1>1, <1>2, <2>2, <2>3 DEF outBar
<1>6. Sent(m) \in SUBSET Nat
  BY SentIsSet
<1> QED BY <1>4, <1>5, <1>6, AppendEqual

(* A closed message is a Send of the abstract stream. *)
LEMMA CloseSends ==
    ASSUME IInv, Writing,
           NEW i \in Nat, NEW attrs, NEW n \in Nat, NEW overflow,
           Close(i, attrs, n, overflow),
           Packed(elems, attrs, n, next, i),
           next < i, i <= Len(elems), Boundary(i)
    PROVE  Stream!Next
<1>1. /\ next \in Nat /\ elems \in Seq(Elem) /\ Len(elems) \in Nat
      /\ elems' = elems /\ next' = i /\ phaseBar = "sending" /\ phaseBar' = "sending"
  BY DEF IInv, TypeOK, Close, phaseBar, Writing
<1> DEFINE m == [attrs |-> attrs, len |-> n]
<1>2. Sent(m) = next..(i - 1)
  <2>1. next <= i /\ next \in Nat /\ elems \in Seq(Elem)
    BY <1>1
  <2>2. Carried(attrs) = next..(i - 1)
    BY <2>1, OpenNestCarries
  <2>3. m.attrs = attrs
    OBVIOUS
  <2> HIDE DEF m
  <2> QED BY <2>2, <2>3 DEF Sent, Carried
<1>3. m \in Msg /\ msgs' = Append(msgs, m)
  BY DEF Msg, Packed, Close
<1> HIDE DEF m
<1>4. outBar' = Append(outBar, Sent(m))
  BY <1>3, StreamAppends
<1>5. Stream!Boundary(i)
  BY <1>1 DEF Boundary, Stream!Boundary, At
<1>6. Stream!Send(i)
  BY <1>1, <1>2, <1>4, <1>5 DEF Stream!Send, outBar, phaseBar
<1>7. i \in (next + 1)..Len(elems)
  BY <1>1
<1> QED BY <1>6, <1>7 DEF Stream!Next

(* A message taken too early is a SendNothing of the abstract stream. *)
LEMMA NothingSends == ASSUME IInv, WriteNothing PROVE Stream!Next
<1> DEFINE m == [attrs |-> {}, len |-> 0]
<1>1. /\ elems' = elems /\ next' = next /\ next = Len(elems)
      /\ phaseBar = "sending" /\ phaseBar' = "sending"
  <2>1. next \in 0..Len(elems) /\ Len(elems) \in Nat
    BY DEF IInv, TypeOK
  <2> QED BY <2>1 DEF WriteNothing, phaseBar
<1>2. m \in Msg /\ msgs' = Append(msgs, m) /\ Sent(m) = {}
  BY DEF WriteNothing, Msg, Sent
<1> HIDE DEF m
<1>3. outBar' = Append(outBar, {})
  BY <1>2, StreamAppends
<1>4. Stream!SendNothing
  BY <1>1, <1>3 DEF Stream!SendNothing, outBar, phaseBar
<1> QED BY <1>4 DEF Stream!Next

(* Every step is a step of the abstract stream or leaves it alone. *)
LEMMA StepRefines ==
    ASSUME IInv, [Next]_vars
    PROVE  [Stream!Next]_(Stream!vars)
<1>1. ASSUME NEW l \in ElemLens, NEW m \in ElemLens,
             AddElement(l) \/ AddInterval(l, m)
      PROVE  Stream!Next
  <2>1. /\ pc = "adding" /\ UNCHANGED <<pc, next, msgs>>
        /\ elems \in Seq(Elem) /\ Len(elems) \in Nat
    BY <1>1 DEF AddElement, AddInterval, IInv, TypeOK
  <2>2. Len(elems') <= MaxElems
    BY <1>1, AddKeepsInv DEF IInv, TypeOK
  <2>3. \/ elems' = Append(elems, Stream!Key(l))
        \/ elems' = Append(Append(elems, Stream!Key(l)), Stream!End(m))
    BY <1>1 DEF AddElement, AddInterval, Stream!Key, Stream!End
  <2> QED BY <2>1, <2>2, <2>3 DEF Stream!Next, Stream!Add
<1>2. CASE ElemsIter
  BY <1>2 DEF ElemsIter, IInv, CellsInv, Stream!Next, Stream!Start
<1>3. CASE IterNone
  <2>1. next = Len(elems)
    <3>1. next \in 0..Len(elems) /\ Len(elems) \in Nat /\ ret \in {0, 1}
      BY DEF IInv, TypeOK
    <3> QED BY <1>3, <3>1 DEF IterNone, IterEnds, IInv, CellsInv
  <2> QED BY <1>3, <2>1 DEF IterNone, Stream!Next, Stream!Finish
<1>4. CASE IterSome \/ WriteStart \/ Push \/ Fits \/ UNCHANGED vars
  <2>1. /\ elems' = elems /\ msgs' = msgs /\ next' = next
        /\ pc' = pc \/ (pc \in {"iterating", "push", "test"}
                       /\ pc' \in {"iterating", "push", "test"})
    BY <1>4 DEF IterSome, WriteStart, Push, Fits, vars
  <2> QED BY <2>1 DEF Stream!vars
<1>5. CASE WriteNothing
  BY <1>5, NothingSends
<1>6. CASE Overflows
  <2> DEFINE i == IF At(idx).end THEN idx - 1 ELSE idx
             n == nestLen - Undone
  <2>1. pc = "test" /\ Writing
    BY <1>6 DEF Overflows, Writing
  <2>2. /\ At(idx).end <=> Rewinds
        /\ i \in Nat /\ i <= Len(elems) /\ Boundary(i)
        /\ Packed(elems, Within(nest, n), n, next, i)
    BY <2>1, OverflowLeaves
  <2>3. next < i
    BY <1>6, OverflowIsNeeded
  <2>4. Close(i, Within(nest, n), n, 1)
    BY <1>6, <2>2 DEF Overflows
  <2>5. n \in Nat
    BY <2>2 DEF Packed
  <2> HIDE DEF i, n
  <2> QED BY <2>1, <2>2, <2>3, <2>4, <2>5, CloseSends
<1>7. CASE WriteLast
  <2>1. /\ Writing /\ Close(idx, nest, nestLen, 0) /\ idx \in Nat
        /\ Packed(elems, nest, nestLen, next, idx) /\ nestLen \in Nat
        /\ next < Len(elems) /\ idx = Len(elems)
    BY <1>7 DEF WriteLast, Writing, IInv, TypeOK, WriteInv, hi
  <2>2. next < idx /\ idx <= Len(elems) /\ Boundary(idx)
    BY <2>1 DEF Boundary
  <2> QED BY <2>1, <2>2, CloseSends
<1> QED BY <1>1, <1>2, <1>3, <1>4, <1>5, <1>6, <1>7 DEF Next, Iterate, Write

(* The messages of the iterator implement ElemStream. *)
THEOREM ImplementsElemStream == Spec => StreamSpec
<1>1. Init => Stream!Init
  BY DEF Init, Stream!Init
<1>2. IInv /\ [Next]_vars => [Stream!Next]_(Stream!vars)
  BY StepRefines
<1> QED BY <1>1, <1>2, InductiveInvariant, PTL
        DEF Spec, StreamSpec, Stream!Spec
=============================================================================
