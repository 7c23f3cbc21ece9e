---------------------------- MODULE Rules_proofs ----------------------------
(***************************************************************************)
(* Proofs about registers and about Rules.                                 *)
(*                                                                         *)
(* Values stored in registers are read back, whatever their lengths: one   *)
(* from its own register, two that share a key from the first of theirs.   *)
(*                                                                         *)
(* For any clauses the crate's types let a program say, any packets and    *)
(* any number of rules, an expression reads registers only where           *)
(* expressions of its own rule have written them.                          *)
(***************************************************************************)
EXTENDS Rules, SequenceTheorems, WellFoundedInduction, TLAPS

----------------------------------------------------------------------------
(* Padding *)

LEMMA PaddedWords ==
    ASSUME NEW n \in Nat
    PROVE  /\ Padded(n) \in Nat /\ n <= Padded(n) /\ Padded(n) < n + 4
           /\ Padded(n) \div 4 \in Nat /\ 4 * (Padded(n) \div 4) = Padded(n)
BY DEF Padded

LEMMA PadSeq ==
    ASSUME NEW S, 0 \in S, NEW b \in Seq(S)
    PROVE  /\ Pad(b) \in Seq(S)
           /\ Len(Pad(b)) = Padded(Len(b))
           /\ \A i \in 1..Len(b) : Pad(b)[i] = b[i]
<1>1. Len(b) \in Nat /\ \A i \in 1..Len(b) : b[i] \in S
  BY LenProperties, ElementOfSeq
<1>2. Padded(Len(b)) \in Nat /\ Len(b) <= Padded(Len(b))
  BY <1>1, PaddedWords
<1>3. Pad(b) \in [1..Padded(Len(b)) -> S]
  BY <1>1 DEF Pad
<1>4. Pad(b) \in Seq(S) /\ Len(Pad(b)) = Padded(Len(b))
  BY <1>2, <1>3
<1>5. \A i \in 1..Len(b) : Pad(b)[i] = b[i]
  BY <1>1, <1>2 DEF Pad
<1> QED BY <1>4, <1>5

(* Strings of one length are equal if they are padded alike. *)
LEMMA PadInjective ==
    ASSUME NEW S, 0 \in S, NEW a \in Seq(S), NEW b \in Seq(S),
           Len(a) = Len(b), Pad(a) = Pad(b)
    PROVE  a = b
<1>1. \A i \in 1..Len(a) : a[i] = b[i]
  BY PadSeq
<1> QED BY <1>1, SeqEqual

----------------------------------------------------------------------------
(* Registers *)

LEMMA FileSizeType == FileSize \in Nat
BY DEF FileSize

LEMMA WordPlaces ==
    ASSUME NEW k \in Nat
    PROVE  Reg32(k) \in Nat /\ FirstByte(Reg32(k)) = 4 * k
BY DEF Reg32, FirstByte, Reg1, Reg4

(* Where bytes are after a store. *)
After(new, file, f, p, m) ==
    \A i \in 0..(FileSize - 1) :
       new[i] = IF f <= i /\ i < f + m THEN p[i - f + 1] ELSE file[i]

LEMMA StoreByte ==
    ASSUME NEW file, DOMAIN file = 0..(FileSize - 1), NEW r, NEW b,
           FirstByte(r) \in Nat, Padded(Len(b)) \in Nat
    PROVE  After(Store(file, r, b), file, FirstByte(r), Pad(b), Padded(Len(b)))
<1> DEFINE f == FirstByte(r)
           m == Padded(Len(b))
<1> SUFFICES ASSUME NEW i \in 0..(FileSize - 1)
             PROVE  Store(file, r, b)[i] =
                       IF f <= i /\ i < f + m THEN Pad(b)[i - f + 1] ELSE file[i]
  BY DEF After
<1>1. Store(file, r, b)[i] = IF i \in f..(f + m - 1) THEN Pad(b)[i - f + 1] ELSE file[i]
  BY DEF Store, Extent
<1>2. f \in Nat /\ m \in Nat
  OBVIOUS
<1> HIDE DEF f, m
<1>3. i \in f..(f + m - 1) <=> f <= i /\ i < f + m
  BY <1>2, FileSizeType
<1> QED BY <1>1, <1>3

LEMMA StoreType ==
    ASSUME NEW S, 0 \in S, NEW file \in [0..(FileSize - 1) -> S],
           NEW r, FirstByte(r) \in Nat, NEW b \in Seq(S)
    PROVE  Store(file, r, b) \in [0..(FileSize - 1) -> S]
<1> DEFINE f == FirstByte(r)
           m == Padded(Len(b))
           p == Pad(b)
<1>1. m \in Nat /\ p \in Seq(S) /\ Len(p) = m
  BY PadSeq, LenProperties, PaddedWords
<1>2. \A i \in 1..m : p[i] \in S
  BY <1>1, ElementOfSeq
<1>3. Store(file, r, b) =
        [i \in 0..(FileSize - 1) |-> IF i \in f..(f + m - 1) THEN p[i - f + 1] ELSE file[i]]
  BY DEF Store, Extent
<1>4. f \in Nat
  OBVIOUS
<1> HIDE DEF f, m, p
<1>5. ASSUME NEW i \in 0..(FileSize - 1), i \in f..(f + m - 1) PROVE p[i - f + 1] \in S
  <2>1. i - f + 1 \in 1..m
    BY <1>1, <1>4, <1>5, FileSizeType
  <2> QED BY <1>2, <2>1
<1> QED BY <1>3, <1>5

(* Two fields loaded into successive words, the second behind the padded   *)
(* first (PayloadReg, examples/add-vmap.rs), are read from the first word  *)
(* on as the key that Data::data of a pair makes of them.                  *)
THEOREM FieldsAreOneKey ==
    ASSUME NEW S, 0 \in S, NEW file \in [0..(FileSize - 1) -> S], NEW k \in Nat,
           NEW a \in Seq(S), NEW b \in Seq(S),
           4 * k + Padded(Len(a)) + Padded(Len(b)) <= FileSize
    PROVE  Fetch(Store(Store(file, Reg32(k), a), Reg32(k + Padded(Len(a)) \div 4), b),
                 Reg32(k), Padded(Len(a)) + Padded(Len(b)))
           = Pad(a) \o Pad(b)
<1> DEFINE m == Padded(Len(a))
           n == Padded(Len(b))
           w == k + m \div 4
           one == Store(file, Reg32(k), a)
           two == Store(one, Reg32(w), b)
           key == Pad(a) \o Pad(b)
<1>1. /\ m \in Nat /\ n \in Nat /\ m \div 4 \in Nat /\ 4 * (m \div 4) = m
      /\ 4 * k + m + n <= FileSize
  BY LenProperties, PaddedWords, FileSizeType
<1> HIDE DEF m, n
<1>2. w \in Nat /\ 4 * w = 4 * k + m
  BY <1>1
<1> HIDE DEF w
<1>3. /\ Reg32(k) \in Nat /\ FirstByte(Reg32(k)) = 4 * k
      /\ Reg32(w) \in Nat /\ FirstByte(Reg32(w)) = 4 * k + m
      /\ 4 * k \in Nat /\ 4 * k + m \in Nat
  <2>1. /\ Reg32(k) \in Nat /\ FirstByte(Reg32(k)) = 4 * k
        /\ Reg32(w) \in Nat /\ FirstByte(Reg32(w)) = 4 * w
    BY <1>2, WordPlaces
  <2> QED BY <1>1, <1>2, <2>1
<1>4. one \in [0..(FileSize - 1) -> S]
  BY <1>3, StoreType
<1>5. /\ Pad(a) \in Seq(S) /\ Len(Pad(a)) = m
      /\ Pad(b) \in Seq(S) /\ Len(Pad(b)) = n
  BY PadSeq DEF m, n
<1>6. /\ key \in Seq(S) /\ Len(key) = m + n
      /\ \A i \in 1..(m + n) : key[i] = IF i <= m THEN Pad(a)[i] ELSE Pad(b)[i - m]
  BY <1>5, ConcatProperties
<1>7. \A j \in 0..(FileSize - 1) :
        one[j] = IF 4 * k <= j /\ j < 4 * k + m THEN Pad(a)[j - 4 * k + 1] ELSE file[j]
  <2>1. DOMAIN file = 0..(FileSize - 1) /\ Padded(Len(a)) = m
    BY DEF m
  <2>2. After(one, file, FirstByte(Reg32(k)), Pad(a), Padded(Len(a)))
    BY <1>1, <1>3, <2>1, StoreByte
  <2> HIDE DEF one
  <2> QED BY <1>3, <2>1, <2>2 DEF After
<1> HIDE DEF one
<1>8. \A j \in 0..(FileSize - 1) :
        two[j] = IF 4 * k + m <= j /\ j < (4 * k + m) + n
                 THEN Pad(b)[j - (4 * k + m) + 1] ELSE one[j]
  <2>1. DOMAIN one = 0..(FileSize - 1) /\ Padded(Len(b)) = n
    BY <1>4 DEF n
  <2>2. After(two, one, FirstByte(Reg32(w)), Pad(b), Padded(Len(b)))
    BY <1>1, <1>3, <2>1, StoreByte
  <2> HIDE DEF two
  <2> QED BY <1>3, <2>1, <2>2 DEF After
<1> HIDE DEF two, key
<1>9. ASSUME NEW i \in 1..(m + n) PROVE two[4 * k + i - 1] = key[i]
  <2> DEFINE j == 4 * k + i - 1
  <2>1. j \in 0..(FileSize - 1) /\ j - 4 * k + 1 = i /\ j - (4 * k + m) + 1 = i - m
    BY <1>1, <1>9, FileSizeType
  <2>2. CASE i <= m
    <3>1. j < 4 * k + m /\ 4 * k <= j /\ ~ (4 * k + m <= j)
      BY <1>1, <2>2
    <3>2. two[j] = one[j] /\ one[j] = Pad(a)[j - 4 * k + 1]
      BY <1>7, <1>8, <2>1, <3>1
    <3> QED BY <1>6, <2>1, <2>2, <3>2
  <2>3. CASE ~ (i <= m)
    <3>1. 4 * k + m <= j /\ j < (4 * k + m) + n
      BY <1>1, <2>3
    <3>2. two[j] = Pad(b)[j - (4 * k + m) + 1]
      BY <1>7, <1>8, <2>1, <3>1
    <3> QED BY <1>6, <2>1, <2>3, <3>2
  <2> QED BY <2>2, <2>3
<1>10. Fetch(two, Reg32(k), m + n) = [i \in 1..(m + n) |-> two[4 * k + i - 1]]
  BY <1>3 DEF Fetch
<1>11. key = [i \in 1..(m + n) |-> key[i]]
  BY <1>6, LenProperties
<1>12. [i \in 1..(m + n) |-> two[4 * k + i - 1]] = [i \in 1..(m + n) |-> key[i]]
  BY <1>9
<1> QED BY <1>10, <1>11, <1>12 DEF two, one, w, key, m, n

(* Keys of pairs differ if a field does: no padding makes two keys one.    *)
(* Data::data of a pair (datatype.rs) with the lengths A::LEN and B::LEN.  *)
THEOREM KeysDiffer ==
    ASSUME NEW S, 0 \in S,
           NEW a \in Seq(S), NEW b \in Seq(S), NEW c \in Seq(S), NEW d \in Seq(S),
           Len(a) = Len(c), Len(b) = Len(d), Pad(a) \o Pad(b) = Pad(c) \o Pad(d)
    PROVE  a = c /\ b = d
<1> DEFINE m == Padded(Len(a))
           n == Padded(Len(b))
           key == Pad(a) \o Pad(b)
<1>1. m \in Nat /\ n \in Nat
  BY LenProperties, PaddedWords
<1>2. /\ Pad(a) \in Seq(S) /\ Len(Pad(a)) = m /\ Pad(c) \in Seq(S) /\ Len(Pad(c)) = m
      /\ Pad(b) \in Seq(S) /\ Len(Pad(b)) = n /\ Pad(d) \in Seq(S) /\ Len(Pad(d)) = n
  BY PadSeq
<1>3. \A i \in 1..(m + n) :
        /\ key[i] = IF i <= m THEN Pad(a)[i] ELSE Pad(b)[i - m]
        /\ key[i] = IF i <= m THEN Pad(c)[i] ELSE Pad(d)[i - m]
  BY <1>2, ConcatProperties
<1> HIDE DEF m, n, key
<1>4. \A i \in 1..m : Pad(a)[i] = Pad(c)[i]
  BY <1>1, <1>3
<1>5. ASSUME NEW i \in 1..n PROVE Pad(b)[i] = Pad(d)[i]
  <2>1. i + m \in 1..(m + n) /\ ~ (i + m <= m) /\ (i + m) - m = i
    BY <1>1
  <2> QED BY <1>3, <2>1
<1>6. Pad(a) = Pad(c) /\ Pad(b) = Pad(d)
  BY <1>2, <1>4, <1>5, SeqEqual
<1> QED BY <1>6, PadInjective

----------------------------------------------------------------------------
(* Sequences of elements of any kind.                                      *)

IsSeq(s) == \E S : s \in Seq(S)

LEMMA SeqFacts ==
    ASSUME NEW s, IsSeq(s)
    PROVE  Len(s) \in Nat /\ DOMAIN s = 1..Len(s)
BY DEF IsSeq

LEMMA AppendFacts ==
    ASSUME NEW s, IsSeq(s), NEW x
    PROVE  /\ IsSeq(Append(s, x)) /\ Len(Append(s, x)) = Len(s) + 1
           /\ DOMAIN Append(s, x) = 1..(Len(s) + 1)
           /\ \A i \in DOMAIN s : Append(s, x)[i] = s[i]
           /\ Append(s, x)[Len(s) + 1] = x
<1>1. PICK S : s \in Seq(S)
  BY DEF IsSeq
<1>2. s \in Seq(S \cup {x}) /\ x \in S \cup {x}
  BY <1>1
<1>3. Append(s, x) \in Seq(S \cup {x})
  BY <1>2
<1>4. IsSeq(Append(s, x))
  BY <1>3 DEF IsSeq
<1> QED BY <1>2, <1>4, AppendProperties

LEMMA ConcatFacts ==
    ASSUME NEW s, IsSeq(s), NEW t, IsSeq(t)
    PROVE  /\ IsSeq(s \o t) /\ Len(s \o t) = Len(s) + Len(t)
           /\ DOMAIN (s \o t) = 1..(Len(s) + Len(t))
           /\ \A i \in 1..Len(s) : (s \o t)[i] = s[i]
           /\ \A i \in 1..Len(t) : (s \o t)[Len(s) + i] = t[i]
<1>1. PICK S : s \in Seq(S)
  BY DEF IsSeq
<1>2. PICK T : t \in Seq(T)
  BY DEF IsSeq
<1>3. s \in Seq(S \cup T) /\ t \in Seq(S \cup T)
  BY <1>1, <1>2
<1>4. s \o t \in Seq(S \cup T)
  BY <1>3
<1>5. IsSeq(s \o t)
  BY <1>4 DEF IsSeq
<1>6. Len(s) \in Nat /\ Len(t) \in Nat
  BY <1>3
<1> QED BY <1>3, <1>5, <1>6, ConcatProperties

LEMMA TailFacts ==
    ASSUME NEW s, IsSeq(s), s # <<>>
    PROVE  /\ IsSeq(Tail(s)) /\ Len(Tail(s)) = Len(s) - 1 /\ Len(s) > 0
           /\ Head(s) = s[1]
           /\ \A i \in 1..(Len(s) - 1) : Tail(s)[i] = s[i + 1]
<1>1. PICK S : s \in Seq(S)
  BY DEF IsSeq
<1>2. Tail(s) \in Seq(S)
  BY <1>1
<1>3. IsSeq(Tail(s))
  BY <1>2 DEF IsSeq
<1> QED BY <1>1, <1>3

LEMMA SameSeq ==
    ASSUME NEW s, IsSeq(s), NEW t, IsSeq(t), Len(s) = Len(t),
           \A i \in 1..Len(s) : s[i] = t[i]
    PROVE  s = t
<1>1. PICK S : s \in Seq(S)
  BY DEF IsSeq
<1>2. PICK T : t \in Seq(T)
  BY DEF IsSeq
<1>3. s \in Seq(S \cup T) /\ t \in Seq(S \cup T)
  BY <1>1, <1>2
<1> QED BY <1>3, SeqEqual

(* What is moved from the front of one sequence to the end of another. *)
LEMMA HeadMoves ==
    ASSUME NEW s, IsSeq(s), NEW t, IsSeq(t), t # <<>>
    PROVE  Append(s, Head(t)) \o Tail(t) = s \o t
<1> DEFINE a == Append(s, Head(t))
           b == Tail(t)
           l == Len(s)
           m == Len(t)
<1>1. l \in Nat /\ m \in Nat /\ m > 0
  BY SeqFacts, TailFacts
<1>2. /\ IsSeq(a) /\ Len(a) = l + 1
      /\ \A i \in 1..l : a[i] = s[i]
      /\ a[l + 1] = t[1]
  BY AppendFacts, TailFacts, SeqFacts
<1>3. IsSeq(b) /\ Len(b) = m - 1 /\ \A i \in 1..(m - 1) : b[i] = t[i + 1]
  BY TailFacts
<1>4. /\ IsSeq(s \o t) /\ Len(s \o t) = l + m
      /\ \A i \in 1..l : (s \o t)[i] = s[i]
      /\ \A i \in 1..m : (s \o t)[l + i] = t[i]
  BY ConcatFacts
<1> HIDE DEF a, b
<1>5. /\ IsSeq(a \o b) /\ Len(a \o b) = l + m
      /\ \A i \in 1..(l + 1) : (a \o b)[i] = a[i]
      /\ \A i \in 1..(m - 1) : (a \o b)[(l + 1) + i] = b[i]
  <2>1. /\ IsSeq(a \o b) /\ Len(a \o b) = Len(a) + Len(b)
        /\ \A i \in 1..Len(a) : (a \o b)[i] = a[i]
        /\ \A i \in 1..Len(b) : (a \o b)[Len(a) + i] = b[i]
    <3>1. IsSeq(a) /\ IsSeq(b)
      BY <1>2, <1>3
    <3> QED BY ONLY <3>1, ConcatFacts
  <2> HIDE DEF l, m
  <2>2. (l + 1) + (m - 1) = l + m
    BY <1>1
  <2> QED BY <1>2, <1>3, <2>1, <2>2
<1> HIDE DEF l, m
<1>6. ASSUME NEW i \in 1..(l + m) PROVE (a \o b)[i] = (s \o t)[i]
  <2>1. CASE i <= l
    BY <1>1, <1>2, <1>4, <1>5, <1>6, <2>1
  <2>2. CASE i = l + 1
    <3>1. 1 \in 1..m
      BY <1>1
    <3> QED BY <1>1, <1>2, <1>4, <1>5, <2>2, <3>1
  <2>3. CASE i > l + 1
    <3> DEFINE j == i - (l + 1)
    <3>1. j \in 1..(m - 1) /\ i = (l + 1) + j /\ j + 1 \in 1..m /\ i = l + (j + 1)
      BY <1>1, <1>6, <2>3
    <3> HIDE DEF j
    <3>2. (a \o b)[i] = b[j] /\ b[j] = t[j + 1]
      BY <1>3, <1>5, <3>1
    <3>3. (s \o t)[i] = t[j + 1]
      BY <1>4, <3>1
    <3> QED BY <3>2, <3>3
  <2>4. i <= l \/ i = l + 1 \/ i > l + 1
    BY <1>1, <1>6
  <2> QED BY <2>1, <2>2, <2>3, <2>4
<1>7. a \o b = s \o t
  BY <1>4, <1>5, <1>6, SameSeq
<1> QED BY <1>7 DEF a, b

LEMMA EmptyIsSeq == IsSeq(<<>>) /\ Len(<<>>) = 0
<1>1. <<>> \in Seq({})
  OBVIOUS
<1> QED BY <1>1 DEF IsSeq

LEMMA EmptyAtEnd == ASSUME NEW s, IsSeq(s) PROVE s \o <<>> = s
<1>1. IsSeq(<<>>) /\ Len(<<>>) = 0 /\ Len(s) \in Nat
  BY EmptyIsSeq, SeqFacts
<1>2. /\ IsSeq(s \o <<>>) /\ Len(s \o <<>>) = Len(s)
      /\ \A i \in 1..Len(s) : (s \o <<>>)[i] = s[i]
  BY <1>1, ConcatFacts
<1> QED BY <1>2, SameSeq

----------------------------------------------------------------------------
(* FlattenSeq *)

(* A set of numbers that is not empty has a least element. *)
LEMMA LeastNumber ==
    ASSUME NEW S, S \subseteq Nat, S # {}
    PROVE  \E i \in S : \A j \in S : ~ (j < i)
<1>1. PICK i \in S : \A j \in S : ~ (<<j, i>> \in OpToRel(<, Nat))
  BY NatLessThanWellFounded, WFMin
<1>2. \A j \in S : ~ (j < i)
  BY <1>1 DEF OpToRel
<1> QED BY <1>2

(* The function that FlattenSeq(s) is defined by, up to n. *)
Flattens(g, s, n) ==
    g = [i \in 1..n |-> IF i = 1 THEN s[i] ELSE g[i - 1] \o s[i]]

LEMMA FlatteningExists ==
    ASSUME NEW s, NEW n \in Nat
    PROVE  \E g : Flattens(g, s, n)
<1> DEFINE Bad == {m \in Nat : ~ \E g : Flattens(g, s, m)}
<1> SUFFICES ASSUME Bad # {} PROVE FALSE
  OBVIOUS
<1>1. PICK m \in Bad : \A k \in Bad : ~ (k < m)
  <2>1. Bad \subseteq Nat
    OBVIOUS
  <2> HIDE DEF Bad
  <2> QED BY <2>1, LeastNumber
<1>2. m \in Nat /\ ~ \E g : Flattens(g, s, m)
  OBVIOUS
<1>3. CASE m = 0
  <2> DEFINE g == [i \in 1..0 |-> s]
  <2>1. g = [i \in 1..0 |-> IF i = 1 THEN s[i] ELSE g[i - 1] \o s[i]]
    OBVIOUS
  <2>2. Flattens(g, s, 0)
    BY <2>1 DEF Flattens
  <2> QED BY <1>2, <1>3, <2>2
<1>4. CASE m > 0
  <2>1. m - 1 \in Nat /\ m - 1 < m
    BY <1>2, <1>4
  <2>2. m - 1 \notin Bad
    BY <1>1, <2>1
  <2>3. PICK g : Flattens(g, s, m - 1)
    BY <2>1, <2>2
  <2> DEFINE h == [i \in 1..m |-> IF i < m THEN g[i]
                                  ELSE IF m = 1 THEN s[1] ELSE g[m - 1] \o s[m]]
  <2>4. ASSUME NEW i \in 1..m
        PROVE  h[i] = IF i = 1 THEN s[i] ELSE h[i - 1] \o s[i]
    <3>1. CASE i < m
      <4>1. h[i] = g[i] /\ i \in 1..(m - 1)
        BY <1>2, <3>1
      <4>2. g[i] = IF i = 1 THEN s[i] ELSE g[i - 1] \o s[i]
        BY <2>3, <4>1 DEF Flattens
      <4>3. i # 1 => h[i - 1] = g[i - 1]
        BY <1>2, <3>1
      <4> HIDE DEF h
      <4> QED BY <4>1, <4>2, <4>3
    <3>2. CASE i = m
      <4>1. h[i] = IF m = 1 THEN s[1] ELSE g[m - 1] \o s[m]
        BY <3>2
      <4>2. m # 1 => h[m - 1] = g[m - 1]
        BY <1>2
      <4> HIDE DEF h
      <4> QED BY <3>2, <4>1, <4>2
    <3> QED BY <1>2, <3>1, <3>2
  <2>5. h = [i \in 1..m |-> h[i]]
    OBVIOUS
  <2> HIDE DEF h
  <2>6. h = [i \in 1..m |-> IF i = 1 THEN s[i] ELSE h[i - 1] \o s[i]]
    BY <2>4, <2>5
  <2>7. Flattens(h, s, m)
    BY <2>6 DEF Flattens
  <2> QED BY <1>2, <2>7
<1> QED BY <1>2, <1>3, <1>4

LEMMA FlattenIs ==
    ASSUME NEW s, IsSeq(s), Len(s) # 0
    PROVE  \E g : Flattens(g, s, Len(s)) /\ FlattenSeq(s) = g[Len(s)]
<1> DEFINE g == CHOOSE f : Flattens(f, s, Len(s))
<1>1. Flattens(g, s, Len(s))
  BY FlatteningExists, SeqFacts
<1>2. FlattenSeq(s) = g[Len(s)]
  BY DEF FlattenSeq, Flattens
<1> QED BY <1>1, <1>2

(* A sequence of one or two sequences. *)
LEMMA FlattenPair ==
    ASSUME NEW s, IsSeq(s), Len(s) \in {1, 2}
    PROVE  FlattenSeq(s) = IF Len(s) = 1 THEN s[1] ELSE s[1] \o s[2]
<1>1. PICK g : Flattens(g, s, Len(s)) /\ FlattenSeq(s) = g[Len(s)]
  BY FlattenIs
<1>2. g[1] = s[1]
  BY <1>1 DEF Flattens
<1>3. CASE Len(s) = 1
  BY <1>1, <1>2, <1>3
<1>4. CASE Len(s) = 2
  <2>1. g[2] = g[1] \o s[2]
    BY <1>1, <1>4 DEF Flattens
  <2> QED BY <1>1, <1>2, <1>4, <2>1
<1> QED BY <1>3, <1>4

(* The concatenation of sequences over a set is one over it. *)
LEMMA FlattenType ==
    ASSUME NEW S, NEW s, IsSeq(s), Len(s) # 0, \A i \in DOMAIN s : s[i] \in Seq(S)
    PROVE  FlattenSeq(s) \in Seq(S)
<1>1. PICK g : Flattens(g, s, Len(s)) /\ FlattenSeq(s) = g[Len(s)]
  BY FlattenIs
<1>2. Len(s) \in Nat /\ DOMAIN s = 1..Len(s)
  BY SeqFacts
<1> DEFINE Bad == {m \in 1..Len(s) : g[m] \notin Seq(S)}
<1>3. CASE Bad # {}
  <2>1. PICK m \in Bad : \A k \in Bad : ~ (k < m)
    <3>1. Bad \subseteq Nat
      BY <1>2
    <3> HIDE DEF Bad
    <3> QED BY <1>3, <3>1, LeastNumber
  <2>2. m \in 1..Len(s) /\ g[m] \notin Seq(S) /\ s[m] \in Seq(S)
    BY <1>2, <2>1
  <2>3. g[m] = IF m = 1 THEN s[m] ELSE g[m - 1] \o s[m]
    BY <1>1, <2>2 DEF Flattens
  <2>4. CASE m = 1
    BY <2>2, <2>3, <2>4
  <2>5. CASE m # 1
    <3>1. m - 1 \in 1..Len(s) /\ m - 1 < m
      BY <1>2, <2>2, <2>5
    <3>2. g[m - 1] \in Seq(S)
      BY <2>1, <3>1
    <3> QED BY <2>2, <2>3, <2>5, <3>2
  <2> QED BY <2>4, <2>5
<1>4. CASE Bad = {}
  <2>1. Len(s) \in 1..Len(s)
    BY <1>2
  <2> QED BY <1>1, <1>4, <2>1
<1> QED BY <1>3, <1>4

----------------------------------------------------------------------------
(* Expressions: what they write, and that they are well formed.            *)

(* The lengths of what a meta expression loads. *)
MetaLen ==
    [nfproto |-> 1, l4proto |-> 1, iif |-> 4, iifname |-> NameSize, iiftype |-> 2,
     mark |-> 4]

(***************************************************************************)
(* The bytes of the registers that an expression has written when the next *)
(* one is evaluated; of a map, those that any of its data cover.           *)
(***************************************************************************)
Writes(e) ==
    CASE e.name = "meta" -> Extent(e.dreg, Padded(MetaLen[e.key]))
      [] e.name \in {"payload", "bitwise"} -> Extent(e.dreg, Padded(e.len))
      [] e.name = "immediate" -> Extent(e.dreg, Padded(Len(e.data)))
      [] e.name = "numgen" -> Extent(e.dreg, 4)
      [] e.name = "lookup_map" /\ e.dreg # VerdictReg ->
            {i \in 0..(FileSize - 1) : \A b \in DOMAIN e.set.elems :
                 i \in Extent(e.dreg, Padded(Len(e.set.elems[b])))}
      [] OTHER -> {}

(* The datum of a verdict map, and what a verdict expression has of one. *)
IsVerdictData(d) ==
    /\ \E code \in DOMAIN VerdictCode : d.verdict = VerdictCode[code]
    /\ d.verdict \in {VerdictCode.jump, VerdictCode.goto} => d.chain \in Chains

IsExpr(e) ==
    CASE e.name = "meta" -> e.key \in DOMAIN MetaLen /\ e.dreg = Reg1
      [] e.name = "payload" ->
            /\ e.base \in DOMAIN Bases /\ e.offset \in Nat /\ e.len \in Nat
            /\ e.dreg \in Nat /\ FirstByte(e.dreg) \in Nat /\ Fits(e.dreg, e.len)
      [] e.name = "bitwise" -> e.sreg = Reg1 /\ e.dreg = Reg1 /\ e.len \in 0..16
      [] e.name = "immediate" -> e.dreg = Reg1 /\ e.data \in Seq(Octet) /\ Len(e.data) <= 16
      [] e.name = "numgen" -> e.dreg = Reg1 /\ e.offset \in Nat
      [] e.name = "lookup_map" ->
            IF e.dreg = VerdictReg
            THEN \A b \in DOMAIN e.set.elems : IsVerdictData(e.set.elems[b])
            ELSE /\ e.dreg = Reg2
                 /\ \A b \in DOMAIN e.set.elems :
                       e.set.elems[b] \in Seq(Octet) /\ Len(e.set.elems[b]) <= 32
      [] e.name = "meta_set" -> e.sreg = Reg1
      [] e.name = "verdict" -> IsVerdictData(e)
      [] OTHER -> TRUE

(* Where the registers that the crate's expressions use begin. *)
LEMMA RegisterPlaces ==
    /\ Reg1 \in Nat /\ FirstByte(Reg1) = 0
    /\ Reg2 \in Nat /\ FirstByte(Reg2) = 16 /\ Reg2 # VerdictReg
    /\ \A k \in Nat : Reg32(k) \in Nat /\ FirstByte(Reg32(k)) = 4 * k
BY DEF Reg1, Reg2, Reg32, FirstByte, Reg4, VerdictReg

LEMMA FirstRegister ==
    ASSUME NEW r, FirstByte(r) = 0, NEW n \in Nat
    PROVE  Extent(r, n) = 0..(n - 1)
<1>1. 0 + n - 1 = n - 1
  OBVIOUS
<1> QED BY <1>1 DEF Extent

LEMMA FirstBytes == Extent(Reg1, 2) = 0..1 /\ Extent(Reg1, 4) = 0..3
<1>1. Extent(Reg1, 2) = 0..(2 - 1) /\ Extent(Reg1, 4) = 0..(4 - 1)
  BY RegisterPlaces, FirstRegister
<1>2. 0..(2 - 1) = 0..1 /\ 0..(4 - 1) = 0..3
  OBVIOUS
<1> QED BY <1>1, <1>2

LEMMA FieldFacts ==
    ASSUME NEW f \in Fields
    PROVE  /\ FieldLen(f) \in 1..16 /\ Offset(f) \in Nat
           /\ f[1] \in DOMAIN HeaderField /\ f[1] \in DOMAIN PayloadBase
           /\ PayloadBase[f[1]] \in DOMAIN Bases
<1>1. PICK h \in DOMAIN HeaderField : \E g \in DOMAIN HeaderField[h] : f = <<h, g>>
  BY DEF Fields
<1>2. PICK g \in DOMAIN HeaderField[h] : f = <<h, g>>
  BY <1>1
<1>3. f[1] = h /\ f[2] = g
  BY <1>2
<1>4. HeaderField[h][g][1] \in Nat /\ HeaderField[h][g][2] \in 1..16
  BY DEF HeaderField
<1>5. h \in DOMAIN PayloadBase /\ PayloadBase[h] \in DOMAIN Bases
  BY DEF HeaderField, PayloadBase, Bases
<1> QED BY <1>3, <1>4, <1>5 DEF FieldLen, Offset

LEMMA MetaExpr ==
    ASSUME NEW k \in DOMAIN MetaLen
    PROVE  /\ IsExpr(Meta(k)) /\ Reads(Meta(k)) = {}
           /\ Writes(Meta(k)) = 0..(Padded(MetaLen[k]) - 1)
<1>1. MetaLen[k] \in Nat
  BY DEF MetaLen, NameSize
<1>2. Padded(MetaLen[k]) \in Nat
  BY <1>1, PaddedWords
<1>3. Extent(Reg1, Padded(MetaLen[k])) = 0..(Padded(MetaLen[k]) - 1)
  BY <1>2, RegisterPlaces, FirstRegister
<1> QED BY <1>3 DEF Meta, IsExpr, Reads, Writes

LEMMA CmpExpr ==
    ASSUME NEW op, NEW d, Len(d) \in Nat
    PROVE  /\ IsExpr(Cmp(op, d)) /\ Writes(Cmp(op, d)) = {}
           /\ Reads(Cmp(op, d)) = 0..(Len(d) - 1)
<1>1. Extent(Reg1, Len(d)) = 0..(Len(d) - 1)
  BY RegisterPlaces, FirstRegister
<1> QED BY <1>1 DEF Cmp, IsExpr, Reads, Writes

LEMMA PayloadExpr ==
    ASSUME NEW f \in Fields, NEW r \in Nat, NEW n \in Nat, FirstByte(r) = n, n <= 16
    PROVE  /\ IsExpr(PayloadReg(f, r)) /\ Reads(PayloadReg(f, r)) = {}
           /\ Writes(PayloadReg(f, r)) = n..(n + Padded(FieldLen(f)) - 1)
<1>1. FieldLen(f) \in Nat /\ Offset(f) \in Nat /\ PayloadBase[f[1]] \in DOMAIN Bases
  BY FieldFacts
<1>2. Padded(FieldLen(f)) \in Nat /\ Padded(FieldLen(f)) <= 19
  <2>1. FieldLen(f) \in 1..16
    BY FieldFacts
  <2>2. Padded(FieldLen(f)) \in Nat /\ Padded(FieldLen(f)) < FieldLen(f) + 4
    BY <1>1, PaddedWords
  <2> QED BY <2>1, <2>2
<1>3. Fits(r, FieldLen(f))
  BY <1>2 DEF Fits, FileSize
<1>4. Extent(r, Padded(FieldLen(f))) = n..(n + Padded(FieldLen(f)) - 1)
  BY DEF Extent
<1> QED BY <1>1, <1>3, <1>4 DEF PayloadReg, IsExpr, Reads, Writes

LEMMA BitwiseExpr ==
    ASSUME NEW n \in 1..16, NEW l, NEW m
    PROVE  LET e == Bitwise(Mask(l, n), Mask(m, n))
           IN  /\ IsExpr(e) /\ Reads(e) = 0..(n - 1)
               /\ Writes(e) = 0..(Padded(n) - 1)
<1>1. Len(Mask(l, n)) = n
  <2>1. Mask(l, n) \in [1..n -> {0, 255}]
    BY DEF Mask
  <2>2. Mask(l, n) \in Seq({0, 255})
    BY <2>1
  <2> QED BY <2>1, <2>2
<1>2. n \in Nat /\ Padded(n) \in Nat
  <2>1. n \in Nat
    OBVIOUS
  <2> QED BY <2>1, PaddedWords
<1>3. Extent(Reg1, n) = 0..(n - 1) /\ Extent(Reg1, Padded(n)) = 0..(Padded(n) - 1)
  BY <1>2, RegisterPlaces, FirstRegister
<1> QED BY <1>1, <1>3 DEF Bitwise, IsExpr, Reads, Writes

LEMMA ImmediateExpr ==
    ASSUME NEW d \in Seq(Octet), Len(d) <= 16
    PROVE  LET e == Immediate(d, Reg1)
           IN  /\ IsExpr(e) /\ Reads(e) = {}
               /\ Writes(e) = 0..(Padded(Len(d)) - 1)
<1>1. Len(d) \in Nat
  BY LenProperties
<1>2. Padded(Len(d)) \in Nat
  BY <1>1, PaddedWords
<1>3. Extent(Reg1, Padded(Len(d))) = 0..(Padded(Len(d)) - 1)
  BY <1>2, RegisterPlaces, FirstRegister
<1> QED BY <1>3 DEF Immediate, IsExpr, Reads, Writes

LEMMA LookupExpr ==
    ASSUME NEW set, set.klen \in Nat
    PROVE  /\ IsExpr(Lookup(set)) /\ Writes(Lookup(set)) = {}
           /\ Reads(Lookup(set)) = 0..(set.klen - 1)
<1>1. Extent(Reg1, set.klen) = 0..(set.klen - 1)
  BY RegisterPlaces, FirstRegister
<1> QED BY <1>1 DEF Lookup, IsExpr, Reads, Writes

LEMMA VerdictMapExpr ==
    ASSUME NEW map, map.klen \in Nat, NEW r, FirstByte(r) = 0,
           \A b \in DOMAIN map.elems : IsVerdictData(map.elems[b])
    PROVE  LET e == LookupMap(map, r, VerdictReg)
           IN  IsExpr(e) /\ Writes(e) = {} /\ Reads(e) = 0..(map.klen - 1)
<1>1. Extent(r, map.klen) = 0..(map.klen - 1)
  BY FirstRegister
<1> QED BY <1>1 DEF LookupMap, IsExpr, Reads, Writes

----------------------------------------------------------------------------
(* Sequences of expressions that read only what is written.                *)

(* What the expressions of s before the i-th have written. *)
Before(s, i) == UNION {Writes(s[j]) : j \in 1..(i - 1)}

Total(s) == Before(s, Len(s) + 1)

(* Expressions that read only W and what those in front of them write. *)
CoveredAfter(W, s) ==
    /\ IsSeq(s)
    /\ \A i \in DOMAIN s : IsExpr(s[i]) /\ Reads(s[i]) \subseteq W \cup Before(s, i)

Covered(s) == CoveredAfter({}, s)

LEMMA BeforeFirst == ASSUME NEW s PROVE Before(s, 1) = {}
BY DEF Before

LEMMA BeforeNext ==
    ASSUME NEW s, NEW i \in Nat \ {0}
    PROVE  Before(s, i + 1) = Before(s, i) \cup Writes(s[i])
<1>1. 1..((i + 1) - 1) = (1..(i - 1)) \cup {i}
  OBVIOUS
<1> QED BY <1>1 DEF Before

(* What is written before a place of two sequences, one behind the other. *)
LEMMA BeforeInFront ==
    ASSUME NEW s, NEW t, NEW i \in Nat, \A j \in 1..(i - 1) : s[j] = t[j]
    PROVE  Before(s, i) = Before(t, i)
BY DEF Before

LEMMA BeforeBehind ==
    ASSUME NEW s, IsSeq(s), NEW t, IsSeq(t), NEW i \in 1..(Len(t) + 1)
    PROVE  Before(s \o t, Len(s) + i) = Total(s) \cup Before(t, i)
<1>1. /\ Len(s) \in Nat /\ Len(t) \in Nat
      /\ \A j \in 1..Len(s) : (s \o t)[j] = s[j]
      /\ \A j \in 1..Len(t) : (s \o t)[Len(s) + j] = t[j]
  BY ConcatFacts, SeqFacts
<1>2. ASSUME NEW x \in Before(s \o t, Len(s) + i) PROVE x \in Total(s) \cup Before(t, i)
  <2>1. PICK j \in 1..(Len(s) + i - 1) : x \in Writes((s \o t)[j])
    BY DEF Before
  <2>2. CASE j <= Len(s)
    <3>1. j \in 1..((Len(s) + 1) - 1) /\ j \in 1..Len(s)
      BY <1>1, <2>2
    <3>2. x \in Writes(s[j])
      BY <1>1, <2>1, <3>1
    <3> QED BY <3>1, <3>2 DEF Total, Before
  <2>3. CASE ~ (j <= Len(s))
    <3> DEFINE k == j - Len(s)
    <3>1. k \in 1..(i - 1) /\ k \in 1..Len(t) /\ j = Len(s) + k
      BY <1>1, <2>3
    <3> HIDE DEF k
    <3>2. x \in Writes(t[k])
      BY <1>1, <2>1, <3>1
    <3> QED BY <3>1, <3>2 DEF Before
  <2> QED BY <2>2, <2>3
<1>3. ASSUME NEW x \in Total(s) PROVE x \in Before(s \o t, Len(s) + i)
  <2>1. PICK j \in 1..((Len(s) + 1) - 1) : x \in Writes(s[j])
    BY DEF Total, Before
  <2>2. j \in 1..Len(s) /\ j \in 1..(Len(s) + i - 1)
    BY <1>1
  <2>3. x \in Writes((s \o t)[j])
    BY <1>1, <2>1, <2>2
  <2> QED BY <2>2, <2>3 DEF Before
<1>4. ASSUME NEW x \in Before(t, i) PROVE x \in Before(s \o t, Len(s) + i)
  <2>1. PICK j \in 1..(i - 1) : x \in Writes(t[j])
    BY DEF Before
  <2>2. j \in 1..Len(t) /\ Len(s) + j \in 1..(Len(s) + i - 1)
    BY <1>1
  <2>3. x \in Writes((s \o t)[Len(s) + j])
    BY <1>1, <2>1, <2>2
  <2> QED BY <2>2, <2>3 DEF Before
<1> QED BY <1>2, <1>3, <1>4

LEMMA ConcatCovered ==
    ASSUME NEW W, NEW s, CoveredAfter(W, s), NEW t, CoveredAfter(W \cup Total(s), t)
    PROVE  CoveredAfter(W, s \o t) /\ Total(s \o t) = Total(s) \cup Total(t)
<1>1. IsSeq(s) /\ IsSeq(t)
  BY DEF CoveredAfter
<1>2. /\ Len(s) \in Nat /\ Len(t) \in Nat
      /\ IsSeq(s \o t) /\ Len(s \o t) = Len(s) + Len(t)
      /\ DOMAIN (s \o t) = 1..(Len(s) + Len(t))
      /\ \A i \in 1..Len(s) : (s \o t)[i] = s[i]
      /\ \A i \in 1..Len(t) : (s \o t)[Len(s) + i] = t[i]
      /\ DOMAIN s = 1..Len(s) /\ DOMAIN t = 1..Len(t)
  BY <1>1, ConcatFacts, SeqFacts
<1>3. ASSUME NEW i \in 1..(Len(s) + Len(t))
      PROVE  /\ IsExpr((s \o t)[i])
             /\ Reads((s \o t)[i]) \subseteq W \cup Before(s \o t, i)
  <2>1. CASE i <= Len(s)
    <3>1. i \in Nat /\ i \in 1..Len(s) /\ \A j \in 1..(i - 1) : (s \o t)[j] = s[j]
      BY <1>2, <2>1
    <3>2. Before(s \o t, i) = Before(s, i)
      BY <3>1, BeforeInFront
    <3> QED BY <1>2, <3>1, <3>2 DEF CoveredAfter
  <2>2. CASE ~ (i <= Len(s))
    <3> DEFINE j == i - Len(s)
    <3>1. j \in 1..Len(t) /\ j \in 1..(Len(t) + 1) /\ i = Len(s) + j
      BY <1>2, <2>2
    <3> HIDE DEF j
    <3>2. Before(s \o t, i) = Total(s) \cup Before(t, j)
      BY <1>1, <3>1, BeforeBehind
    <3>3. (s \o t)[i] = t[j]
      BY <1>2, <3>1
    <3>4. IsExpr(t[j]) /\ Reads(t[j]) \subseteq (W \cup Total(s)) \cup Before(t, j)
      BY <1>2, <3>1 DEF CoveredAfter
    <3> QED BY <3>2, <3>3, <3>4
  <2> QED BY <2>1, <2>2
<1>4. Total(s \o t) = Total(s) \cup Total(t)
  <2>1. Len(t) + 1 \in 1..(Len(t) + 1) /\ Len(s) + (Len(t) + 1) = (Len(s) + Len(t)) + 1
    BY <1>2
  <2>2. Before(s \o t, Len(s) + (Len(t) + 1)) = Total(s) \cup Before(t, Len(t) + 1)
    BY <1>1, <2>1, BeforeBehind
  <2> QED BY <1>2, <2>1, <2>2 DEF Total
<1> QED BY <1>2, <1>3, <1>4 DEF CoveredAfter

(* What reads less is covered by more. *)
LEMMA CoveredByMore ==
    ASSUME NEW U, NEW W, U \subseteq W, NEW s, CoveredAfter(U, s)
    PROVE  CoveredAfter(W, s)
BY DEF CoveredAfter

(* Sequences of one, two and three expressions. *)
LEMMA Tuples ==
    ASSUME NEW a, NEW b, NEW c
    PROVE  /\ <<a>> \o <<b>> = <<a, b>>
           /\ <<a, b>> \o <<c>> = <<a, b, c>>
<1>1. /\ <<a>> \in Seq({a}) /\ <<b>> \in Seq({b}) /\ <<c>> \in Seq({c})
      /\ <<a, b>> \in Seq({a, b}) /\ <<a, b, c>> \in Seq({a, b, c})
  OBVIOUS
<1>2. IsSeq(<<a>>) /\ IsSeq(<<b>>) /\ IsSeq(<<c>>) /\ IsSeq(<<a, b>>) /\ IsSeq(<<a, b, c>>)
  BY <1>1 DEF IsSeq
<1>3. /\ Len(<<a>>) = 1 /\ Len(<<b>>) = 1 /\ Len(<<c>>) = 1
      /\ Len(<<a, b>>) = 2 /\ Len(<<a, b, c>>) = 3
  OBVIOUS
<1>4. <<a>> \o <<b>> = <<a, b>>
  <2> DEFINE u == <<a>> \o <<b>>
  <2>1. IsSeq(u) /\ Len(u) = 2 /\ u[1] = a
    BY <1>2, <1>3, ConcatFacts
  <2>2. u[1 + 1] = b
    <3>1. u[Len(<<a>>) + 1] = <<b>>[1]
      BY <1>2, <1>3, ConcatFacts
    <3> QED BY <1>3, <3>1
  <2> HIDE DEF u
  <2>3. \A i \in 1..2 : u[i] = <<a, b>>[i]
    <3>1. u[1] = a /\ u[2] = b
      BY <2>1, <2>2
    <3>2. ASSUME NEW i \in 1..2 PROVE i = 1 \/ i = 2
      OBVIOUS
    <3> QED BY <3>1, <3>2
  <2>4. u = <<a, b>>
    BY <1>2, <1>3, <2>1, <2>3, SameSeq
  <2> QED BY <2>4 DEF u
<1>5. <<a, b>> \o <<c>> = <<a, b, c>>
  <2> DEFINE u == <<a, b>> \o <<c>>
  <2>1. IsSeq(u) /\ Len(u) = 3 /\ u[1] = a /\ u[2] = b
    BY <1>2, <1>3, ConcatFacts
  <2>2. u[2 + 1] = c
    <3>1. u[Len(<<a, b>>) + 1] = <<c>>[1]
      BY <1>2, <1>3, ConcatFacts
    <3> QED BY <1>3, <3>1
  <2> HIDE DEF u
  <2>3. \A i \in 1..3 : u[i] = <<a, b, c>>[i]
    <3>1. u[1] = a /\ u[2] = b /\ u[3] = c
      BY <2>1, <2>2
    <3>2. ASSUME NEW i \in 1..3 PROVE i = 1 \/ i = 2 \/ i = 3
      OBVIOUS
    <3> QED BY <3>1, <3>2
  <2>4. u = <<a, b, c>>
    BY <1>2, <1>3, <2>1, <2>3, SameSeq
  <2> QED BY <2>4 DEF u
<1> QED BY <1>4, <1>5

LEMMA OneCovered ==
    ASSUME NEW W, NEW a, IsExpr(a), Reads(a) \subseteq W
    PROVE  CoveredAfter(W, <<a>>) /\ Total(<<a>>) = Writes(a)
<1>1. IsSeq(<<a>>) /\ Len(<<a>>) = 1 /\ DOMAIN <<a>> = {1} /\ <<a>>[1] = a
  <2>1. <<a>> \in Seq({a})
    OBVIOUS
  <2>2. IsSeq(<<a>>)
    BY <2>1 DEF IsSeq
  <2> QED BY <2>1, <2>2
<1>2. Total(<<a>>) = Writes(a)
  <2>1. Before(<<a>>, 1 + 1) = Before(<<a>>, 1) \cup Writes(<<a>>[1])
    BY BeforeNext
  <2> QED BY <1>1, <2>1, BeforeFirst DEF Total
<1> QED BY <1>1, <1>2 DEF CoveredAfter

LEMMA TwoCovered ==
    ASSUME NEW W, NEW a, NEW b, IsExpr(a), IsExpr(b),
           Reads(a) \subseteq W, Reads(b) \subseteq W \cup Writes(a)
    PROVE  CoveredAfter(W, <<a, b>>) /\ Total(<<a, b>>) = Writes(a) \cup Writes(b)
<1> DEFINE s == <<a>>
           t == <<b>>
<1>1. CoveredAfter(W, s) /\ Total(s) = Writes(a)
  BY OneCovered
<1>2. CoveredAfter(W \cup Total(s), t) /\ Total(t) = Writes(b)
  BY <1>1, OneCovered
<1>3. s \o t = <<a, b>>
  BY Tuples
<1> HIDE DEF s, t
<1>4. CoveredAfter(W, s \o t) /\ Total(s \o t) = Total(s) \cup Total(t)
  BY <1>1, <1>2, ConcatCovered
<1> QED BY <1>1, <1>2, <1>3, <1>4

LEMMA ThreeCovered ==
    ASSUME NEW W, NEW a, NEW b, NEW c, IsExpr(a), IsExpr(b), IsExpr(c),
           Reads(a) \subseteq W, Reads(b) \subseteq W \cup Writes(a),
           Reads(c) \subseteq W \cup (Writes(a) \cup Writes(b))
    PROVE  CoveredAfter(W, <<a, b, c>>)
<1> DEFINE s == <<a, b>>
           t == <<c>>
<1>1. CoveredAfter(W, s) /\ Total(s) = Writes(a) \cup Writes(b)
  BY TwoCovered
<1>2. CoveredAfter(W \cup Total(s), t)
  BY <1>1, OneCovered
<1>3. s \o t = <<a, b, c>>
  BY Tuples
<1> HIDE DEF s, t
<1>4. CoveredAfter(W, s \o t)
  BY <1>1, <1>2, ConcatCovered
<1> QED BY <1>3, <1>4

----------------------------------------------------------------------------
(* Bytes                                                                   *)

LEMMA HostOrderBytes ==
    ASSUME NEW b \in Seq(Octet)
    PROVE  InHostOrder(b) \in Seq(Octet) /\ Len(InHostOrder(b)) = Len(b)
BY DEF InHostOrder, Reverse

LEMMA BigEndianBytes ==
    ASSUME NEW w \in Nat, NEW n \in Nat
    PROVE  BigEndian(w, n) \in Seq(Octet) /\ Len(BigEndian(w, n)) = w
<1>1. BigEndian(w, n) \in [1..w -> Octet]
  BY DEF BigEndian, Octet
<1> QED BY <1>1

LEMMA NativeBytes ==
    ASSUME NEW w \in Nat, NEW n \in Nat
    PROVE  Native(w, n) \in Seq(Octet) /\ Len(Native(w, n)) = w
BY BigEndianBytes, HostOrderBytes DEF Native

LEMMA SwappedNumber == ASSUME NEW n \in Nat PROVE ToBe16(n) \in Nat
BY DEF ToBe16

LEMMA Bytes ==
    ASSUME NEW n \in Nat, NEW S, NEW b \in [1..n -> S]
    PROVE  b \in Seq(S) /\ Len(b) = n
OBVIOUS

LEMMA MarkBytes ==
    ASSUME NEW b \in [1..4 -> Octet]
    PROVE  b \in Seq(Octet) /\ Len(b) = 4
<1>1. 4 \in Nat
  OBVIOUS
<1> QED BY <1>1, Bytes

LEMMA ZeroIsOctet == 0 \in Octet
BY DEF Octet

----------------------------------------------------------------------------
(* The expressions of a clause are covered.                                *)

(* The bytes of the first registers of a value of n bytes. *)
LEMMA PrefixWritten ==
    ASSUME NEW m \in Nat, NEW n \in Nat, m <= n
    PROVE  0..(m - 1) \subseteq 0..(Padded(n) - 1)
<1>1. n <= Padded(n) /\ Padded(n) \in Nat
  BY PaddedWords
<1> QED BY <1>1

LEMMA GuardCovered ==
    ASSUME NEW h \in DOMAIN HeaderField
    PROVE  Covered(Guard(h))
<1>1. ASSUME NEW k \in DOMAIN MetaLen, NEW w \in Nat, w <= MetaLen[k], NEW n \in Nat
      PROVE  Covered(<<Meta(k), Cmp("==", NumberSlice(w, n))>>)
  <2> DEFINE a == Meta(k)
             b == Cmp("==", NumberSlice(w, n))
  <2>1. IsExpr(a) /\ Reads(a) = {} /\ Writes(a) = 0..(Padded(MetaLen[k]) - 1)
    BY MetaExpr
  <2>2. Len(NumberSlice(w, n)) = w
    BY NativeBytes DEF NumberSlice
  <2>3. IsExpr(b) /\ Reads(b) = 0..(w - 1)
    BY <2>2, CmpExpr
  <2>4. MetaLen[k] \in Nat
    BY DEF MetaLen, NameSize
  <2>5. Reads(b) \subseteq {} \cup Writes(a)
    BY <1>1, <2>1, <2>3, <2>4, PrefixWritten
  <2> HIDE DEF a, b
  <2>6. CoveredAfter({}, <<a, b>>)
    BY <2>1, <2>3, <2>5, TwoCovered
  <2> QED BY <2>6 DEF Covered, a, b
<1>2. h \in DOMAIN NfProto \/ h \in DOMAIN L4Proto \/ h = "ethernet"
  BY DEF HeaderField, NfProto, L4Proto
<1>3. /\ "nfproto" \in DOMAIN MetaLen /\ MetaLen["nfproto"] = 1
      /\ "l4proto" \in DOMAIN MetaLen /\ MetaLen["l4proto"] = 1
      /\ "iiftype" \in DOMAIN MetaLen /\ MetaLen["iiftype"] = 2
  BY DEF MetaLen
<1>4. CASE h \in DOMAIN NfProto
  <2>1. NfProto[h] \in Nat
    BY <1>4 DEF NfProto
  <2>2. Guard(h) = <<Meta("nfproto"), Cmp("==", NumberSlice(1, NfProto[h]))>>
    BY <1>4 DEF Guard, NfProto, L4Proto
  <2> QED BY <1>1, <1>3, <2>1, <2>2
<1>5. CASE h \in DOMAIN L4Proto
  <2>1. L4Proto[h] \in Nat
    BY <1>5 DEF L4Proto
  <2>2. Guard(h) = <<Meta("l4proto"), Cmp("==", NumberSlice(1, L4Proto[h]))>>
    BY <1>5 DEF Guard, NfProto, L4Proto
  <2> QED BY <1>1, <1>3, <2>1, <2>2
<1>6. CASE h = "ethernet"
  <2>1. Guard(h) = <<Meta("iiftype"), Cmp("==", NumberSlice(2, ArphrdEther))>>
    BY <1>6 DEF Guard, NfProto, L4Proto
  <2>2. ArphrdEther \in Nat
    BY DEF ArphrdEther
  <2> QED BY <1>1, <1>3, <2>1, <2>2
<1> QED BY <1>2, <1>4, <1>5, <1>6

(* A sequence behind a guard is covered if it is by itself. *)
LEMMA BehindGuard ==
    ASSUME NEW s, Covered(s), NEW t, Covered(t)
    PROVE  Covered(s \o t) /\ Total(t) \subseteq Total(s \o t)
<1>1. CoveredAfter({} \cup Total(s), t)
  BY CoveredByMore DEF Covered
<1> QED BY <1>1, ConcatCovered DEF Covered

LEMMA KeyFields ==
    ASSUME NEW fields, IsKey(fields)
    PROVE  /\ IsSeq(fields) /\ Len(fields) \in {1, 2} /\ DOMAIN fields = 1..Len(fields)
           /\ \A i \in 1..Len(fields) : fields[i] \in Fields
<1>1. fields \in Seq(Fields) /\ Len(fields) \in 1..2
  BY DEF IsKey
<1>2. IsSeq(fields)
  BY <1>1 DEF IsSeq
<1> QED BY <1>1, <1>2

LEMMA GuardsCovered ==
    ASSUME NEW fields, IsKey(fields)
    PROVE  Covered(Guards(fields))
<1> DEFINE s == [i \in DOMAIN fields |-> Guard(fields[i][1])]
           n == Len(fields)
<1>1. DOMAIN fields = 1..n /\ n \in {1, 2} /\ \A i \in 1..n : fields[i] \in Fields
  BY KeyFields
<1>2. IsSeq(s) /\ Len(s) = n
  <2>1. s \in [1..n -> {Guard(fields[i][1]) : i \in DOMAIN fields}]
    BY <1>1
  <2>2. n \in Nat
    BY <1>1
  <2> HIDE DEF s, n
  <2>3. s \in Seq({Guard(fields[i][1]) : i \in DOMAIN fields}) /\ Len(s) = n
    BY <2>1, <2>2, Bytes
  <2> QED BY <2>3 DEF IsSeq
<1>3. ASSUME NEW i \in 1..n PROVE Covered(s[i])
  <2>1. fields[i][1] \in DOMAIN HeaderField
    BY <1>1, FieldFacts
  <2>2. s[i] = Guard(fields[i][1])
    BY <1>1
  <2> QED BY <2>1, <2>2, GuardCovered
<1>4. Guards(fields) = FlattenSeq(s)
  BY DEF Guards
<1> HIDE DEF s, n
<1>5. Guards(fields) = IF n = 1 THEN s[1] ELSE s[1] \o s[2]
  BY <1>1, <1>2, <1>4, FlattenPair
<1>6. n = 2 => Covered(s[1] \o s[2])
  BY <1>3, BehindGuard
<1> QED BY <1>1, <1>3, <1>5, <1>6

(* The loads of a key write all of it. *)
LEMMA LoadsCovered ==
    ASSUME NEW fields, IsKey(fields)
    PROVE  /\ KeyLen(fields) \in Nat
           /\ Covered(Loads(fields))
           /\ 0..(KeyLen(fields) - 1) \subseteq Total(Loads(fields))
<1>1. Len(fields) \in {1, 2} /\ \A i \in 1..Len(fields) : fields[i] \in Fields
  BY KeyFields
<1>2. CASE Len(fields) = 1
  <2> DEFINE a == Payload(fields[1])
             n == FieldLen(fields[1])
  <2>1. fields[1] \in Fields
    BY <1>1, <1>2
  <2>2. n \in 1..16 /\ n \in Nat
    BY <2>1, FieldFacts
  <2>3. IsExpr(a) /\ Reads(a) = {} /\ Writes(a) = 0..(0 + Padded(n) - 1)
    <3>1. Reg1 \in Nat /\ FirstByte(Reg1) = 0 /\ 0 \in Nat /\ 0 <= 16
      BY RegisterPlaces
    <3>2. a = PayloadReg(fields[1], Reg1)
      BY DEF Payload
    <3> HIDE DEF a
    <3> QED BY <2>1, <3>1, <3>2, PayloadExpr
  <2>4. Padded(n) \in Nat /\ 0..(n - 1) \subseteq Writes(a)
    <3>1. Padded(n) \in Nat
      BY <2>2, PaddedWords
    <3>2. 0..(0 + Padded(n) - 1) = 0..(Padded(n) - 1)
      BY <3>1
    <3> HIDE DEF a, n
    <3>3. 0..(n - 1) \subseteq 0..(Padded(n) - 1)
      <4>1. n <= n
        BY <2>2
      <4> QED BY <2>2, <4>1, PrefixWritten
    <3> QED BY <2>3, <3>1, <3>2, <3>3
  <2>5. Loads(fields) = <<a>> /\ KeyLen(fields) = n
    BY <1>2 DEF Loads, KeyLen
  <2> HIDE DEF a, n
  <2>6. CoveredAfter({}, <<a>>) /\ Total(<<a>>) = Writes(a)
    BY <2>3, OneCovered
  <2> QED BY <2>2, <2>4, <2>5, <2>6 DEF Covered
<1>3. CASE Len(fields) = 2
  <2> DEFINE m == FieldLen(fields[1])
             n == FieldLen(fields[2])
             a == PayloadReg(fields[1], Reg32(0))
             b == PayloadReg(fields[2], NextWord(m))
  <2>1. fields[1] \in Fields /\ fields[2] \in Fields
    BY <1>1, <1>3
  <2>2. m \in 1..16 /\ n \in 1..16
    BY <2>1, FieldFacts
  <2>3. /\ m \in Nat /\ n \in Nat /\ Padded(m) \in Nat /\ Padded(n) \in Nat
        /\ Padded(m) \div 4 \in Nat /\ 4 * (Padded(m) \div 4) = Padded(m)
    <3>1. m \in Nat /\ n \in Nat
      BY <2>2
    <3> QED BY <3>1, PaddedWords
  <2>4. Padded(m) <= 16
    BY <2>2 DEF Padded
  <2>5. /\ Reg32(0) \in Nat /\ FirstByte(Reg32(0)) = 0
        /\ NextWord(m) \in Nat /\ FirstByte(NextWord(m)) = Padded(m)
    <3>1. FirstByte(Reg32(0)) = 4 * 0 /\ Reg32(0) \in Nat
      BY RegisterPlaces
    <3> QED BY <2>3, <3>1, RegisterPlaces DEF NextWord
  <2>6. IsExpr(a) /\ Reads(a) = {} /\ Writes(a) = 0..(0 + Padded(m) - 1)
    BY <2>1, <2>5, PayloadExpr
  <2>7. /\ IsExpr(b) /\ Reads(b) = {}
        /\ Writes(b) = Padded(m)..(Padded(m) + Padded(n) - 1)
    <3> HIDE DEF m
    <3> QED BY <2>1, <2>3, <2>4, <2>5, PayloadExpr
  <2>8. Loads(fields) = <<a, b>> /\ KeyLen(fields) = Padded(m) + Padded(n)
    BY <1>3 DEF Loads, KeyLen
  <2> HIDE DEF a, b, m, n
  <2>9. CoveredAfter({}, <<a, b>>) /\ Total(<<a, b>>) = Writes(a) \cup Writes(b)
    BY <2>6, <2>7, TwoCovered
  <2>10. 0..((Padded(m) + Padded(n)) - 1) \subseteq Writes(a) \cup Writes(b)
    <3>1. ASSUME NEW i \in 0..((Padded(m) + Padded(n)) - 1)
          PROVE  i \in 0..(0 + Padded(m) - 1) \/ i \in Padded(m)..(Padded(m) + Padded(n) - 1)
      <4>1. Padded(m) \in Nat /\ Padded(n) \in Nat
        BY <2>3
      <4> QED BY ONLY <3>1, <4>1
    <3> QED BY <2>6, <2>7, <3>1
  <2> QED BY <2>3, <2>8, <2>9, <2>10 DEF Covered
<1> QED BY <1>1, <1>2, <1>3

(* The data that verdict maps and verdict expressions have. *)
LEMMA VerdictCodes ==
    ASSUME NEW v, IsVerdict(v)
    PROVE  /\ IsVerdictData(VerdictData(v))
           /\ v.code # "reject" =>
                 IsVerdictData([name |-> "verdict", verdict |-> VerdictCode[v.code],
                                chain |-> v.arg])
<1>1. ASSUME v.code = "reject" PROVE IsVerdictData(VerdictData(v))
  BY <1>1 DEF VerdictData, IsVerdictData, VerdictCode
<1>2. ASSUME v.code # "reject"
      PROVE  /\ v.code \in DOMAIN VerdictCode
             /\ VerdictCode[v.code] \in {VerdictCode.jump, VerdictCode.goto} => v.arg \in Chains
  BY <1>2 DEF IsVerdict, VerdictCode
<1>3. ASSUME v.code # "reject"
      PROVE  /\ IsVerdictData(VerdictData(v))
             /\ IsVerdictData([name |-> "verdict", verdict |-> VerdictCode[v.code],
                               chain |-> v.arg])
  BY <1>2, <1>3 DEF VerdictData, IsVerdictData
<1> QED BY <1>1, <1>3

(* The data of the backends are an address and a port, in whole words. *)
LEMMA BackendData ==
    ASSUME NEW c, c.family \in {"Ipv4", "Ipv6"},
           \A k \in DOMAIN c.backends :
               /\ c.backends[k][1] \in [1..AddressLen(c.family) -> Octet]
               /\ c.backends[k][2] \in Nat,
           NEW b \in DOMAIN BackendsOf(c).elems
    PROVE  /\ BackendsOf(c).elems[b] \in Seq(Octet)
           /\ Len(BackendsOf(c).elems[b]) = AddressLen(c.family) + 4
<1>1. PICK k \in DOMAIN c.backends :
        BackendsOf(c).elems[b] = TupleData(<<c.backends[k][1], NumberData(2, c.backends[k][2])>>)
  BY DEF BackendsOf
<1> DEFINE x == c.backends[k][1]
           y == NumberData(2, c.backends[k][2])
<1>2. AddressLen(c.family) \in Nat /\ Padded(AddressLen(c.family)) = AddressLen(c.family)
  BY DEF AddressLen, Padded
<1>3. x \in Seq(Octet) /\ Len(x) = AddressLen(c.family)
  BY <1>2, Bytes
<1>4. y \in Seq(Octet) /\ Len(y) = 2
  BY BigEndianBytes DEF NumberData
<1>5. TupleData(<<x, y>>) = Pad(x) \o Pad(y)
  BY DEF TupleData
<1> HIDE DEF x, y
<1>6. Pad(x) \in Seq(Octet) /\ Len(Pad(x)) = AddressLen(c.family)
  <2>1. Pad(x) \in Seq(Octet) /\ Len(Pad(x)) = Padded(Len(x))
    BY <1>3, ZeroIsOctet, PadSeq
  <2> QED BY <1>2, <1>3, <2>1
<1>7. Pad(y) \in Seq(Octet) /\ Len(Pad(y)) = 4
  <2>1. Padded(2) = 4
    BY DEF Padded
  <2>2. Pad(y) \in Seq(Octet) /\ Len(Pad(y)) = Padded(Len(y))
    BY <1>4, ZeroIsOctet, PadSeq
  <2> QED BY <1>4, <2>1, <2>2
<1>8. /\ Pad(x) \o Pad(y) \in Seq(Octet)
      /\ Len(Pad(x) \o Pad(y)) = AddressLen(c.family) + 4
  <2> DEFINE u == Pad(x)
             v == Pad(y)
             l == AddressLen(c.family)
  <2>1. u \in Seq(Octet) /\ v \in Seq(Octet) /\ Len(u) = l /\ Len(v) = 4
    BY <1>6, <1>7
  <2> HIDE DEF u, v, l
  <2>2. u \o v \in Seq(Octet) /\ Len(u \o v) = Len(u) + Len(v)
    <3>1. u \in Seq(Octet) /\ v \in Seq(Octet)
      BY <2>1
    <3> QED BY ONLY <3>1, ConcatProperties
  <2>3. u \o v \in Seq(Octet) /\ Len(u \o v) = l + 4
    BY <2>1, <2>2
  <2> QED BY <2>3 DEF u, v, l
<1> QED BY <1>1, <1>5, <1>8 DEF x, y

LEMMA DnatCovered ==
    ASSUME NEW c, c.is = "dnat", IsClause(c)
    PROVE  Covered(Exprs(c))
<1>1. /\ c.family \in {"Ipv4", "Ipv6"} /\ c.offset \in Nat
      /\ \A k \in DOMAIN c.backends :
            /\ c.backends[k][1] \in [1..AddressLen(c.family) -> Octet]
            /\ c.backends[k][2] \in Nat
  BY DEF IsClause
<1> DEFINE g == Guard(IF c.family = "Ipv4" THEN "ipv4" ELSE "ipv6")
           d == Numgen(Cardinality(DOMAIN c.backends), Reg1, c.offset)
           e == LookupMap(BackendsOf(c), Reg1, Reg2)
           f == NatExpr(c.family, Reg2, IF c.ports THEN Reg32(5) ELSE NoRegister)
           l == AddressLen(c.family)
<1>2. Exprs(c) = g \o <<d, e, f>>
  BY DEF Exprs
<1>3. Covered(g)
  BY GuardCovered DEF HeaderField
<1>4. IsExpr(d) /\ Reads(d) = {} /\ Writes(d) = 0..3
  <2>1. Extent(Reg1, 4) = 0..(4 - 1)
    BY RegisterPlaces, FirstRegister
  <2> QED BY <1>1, <2>1 DEF Numgen, IsExpr, Reads, Writes
<1>5. l \in {4, 16}
  BY DEF AddressLen
<1>6. \A b \in DOMAIN BackendsOf(c).elems :
        BackendsOf(c).elems[b] \in Seq(Octet) /\ Len(BackendsOf(c).elems[b]) = l + 4
  BY <1>1, BackendData
<1> HIDE DEF d, l
<1>7. IsExpr(e) /\ Reads(e) = 0..3 /\ 16..(16 + l + 3) \subseteq Writes(e)
  <2>1. /\ e.name = "lookup_map" /\ e.dreg = Reg2 /\ e.sreg = Reg1
        /\ e.set = BackendsOf(c)
    BY DEF LookupMap
  <2>2. BackendsOf(c).klen = 4
    BY DEF BackendsOf
  <2> HIDE DEF e
  <2>3. Reg2 # VerdictReg /\ FirstByte(Reg2) = 16 /\ Extent(Reg1, 4) = 0..3
    BY FirstBytes, RegisterPlaces
  <2>4. Reads(e) = 0..3
    <3>1. Reads(e) = Extent(e.sreg, e.set.klen)
      BY <2>1 DEF Reads
    <3> QED BY <2>1, <2>2, <2>3, <3>1
  <2>5. \A b \in DOMAIN e.set.elems :
          e.set.elems[b] \in Seq(Octet) /\ Len(e.set.elems[b]) = l + 4
    BY <1>6, <2>1
  <2>6. IsExpr(e)
    <3>1. \A b \in DOMAIN e.set.elems :
            e.set.elems[b] \in Seq(Octet) /\ Len(e.set.elems[b]) <= 32
      BY <1>5, <2>5
    <3> QED BY <2>1, <2>3, <3>1 DEF IsExpr
  <2>7. ASSUME NEW b \in DOMAIN e.set.elems
        PROVE  Extent(e.dreg, Padded(Len(e.set.elems[b]))) = 16..(16 + l + 3)
    <3>1. Padded(l + 4) = l + 4
      BY <1>5 DEF Padded
    <3>2. 16 + (l + 4) - 1 = 16 + l + 3
      BY <1>5
    <3> QED BY <2>1, <2>3, <2>5, <3>1, <3>2 DEF Extent
  <2>8. 16..(16 + l + 3) \subseteq 0..(FileSize - 1)
    BY <1>5 DEF FileSize
  <2>9. Writes(e) = {i \in 0..(FileSize - 1) : \A b \in DOMAIN e.set.elems :
                        i \in Extent(e.dreg, Padded(Len(e.set.elems[b])))}
    BY <2>1, <2>3 DEF Writes
  <2> QED BY <2>4, <2>6, <2>7, <2>8, <2>9
<1>8. IsExpr(f) /\ Reads(f) \subseteq 16..(16 + l + 3)
  <2>1. /\ f.name = "nat" /\ f.family = c.family /\ f.addr = Reg2
        /\ f.port \in {Reg32(5), NoRegister}
    BY DEF NatExpr
  <2> HIDE DEF f
  <2>2. IsExpr(f)
    BY <2>1 DEF IsExpr
  <2>3. Reads(f) = Extent(Reg2, l) \cup (IF f.port = NoRegister THEN {} ELSE Extent(f.port, 2))
    BY <2>1 DEF Reads, l
  <2>4. FirstByte(Reg2) = 16 /\ FirstByte(Reg32(5)) = 4 * 5
    BY RegisterPlaces
  <2>5. Extent(Reg2, l) \subseteq 16..(16 + l + 3)
    BY <1>5, <2>4 DEF Extent
  <2>6. Extent(Reg32(5), 2) \subseteq 16..(16 + l + 3)
    BY <1>5, <2>4 DEF Extent
  <2> QED BY <2>1, <2>2, <2>3, <2>5, <2>6
<1> HIDE DEF e, f, g
<1>9. CoveredAfter({}, <<d, e, f>>)
  <2>1. Reads(d) \subseteq {} /\ Reads(e) \subseteq {} \cup Writes(d)
    BY <1>4, <1>7
  <2>2. Reads(f) \subseteq {} \cup (Writes(d) \cup Writes(e))
    BY <1>7, <1>8
  <2> QED BY <1>4, <1>7, <1>8, <2>1, <2>2, ThreeCovered
<1> QED BY <1>2, <1>3, <1>9, BehindGuard DEF Covered

(* The rules of numbers, prefixes and keys of a header. *)
LEMMA NumberCovered ==
    ASSUME NEW c, c.is = "number", IsClause(c)
    PROVE  Covered(Exprs(c))
<1>1. c.field \in Fields /\ c.number \in Nat
  BY DEF IsClause
<1> DEFINE g == Guard(c.field[1])
           n == FieldLen(c.field)
           o == Operand(c.field, c.number)
           a == Payload(c.field)
           b == Cmp(c.op, o)
<1>2. Exprs(c) = g \o <<a, b>>
  BY DEF Exprs
<1>3. Covered(g)
  BY <1>1, FieldFacts, GuardCovered
<1>4. n \in 1..16
  BY <1>1, FieldFacts
<1>5. Len(o) \in Nat /\ Len(o) <= n
  <2>1. c.number \in Nat /\ ToBe16(c.number) \in Nat /\ 1 \in Nat /\ 2 \in Nat
    BY <1>1, SwappedNumber
  <2>2. /\ Len(NumberSlice(1, c.number)) = 1
        /\ Len(NumberSlice(2, ToBe16(c.number))) = 2
    BY <2>1, NativeBytes DEF NumberSlice
  <2>3. CASE n = 1
    <3>1. o = NumberSlice(1, c.number)
      BY <2>3 DEF Operand
    <3>2. Len(o) = 1
      BY <2>2, <3>1
    <3> HIDE DEF o, n
    <3> QED BY <2>3, <3>2
  <2>4. CASE n # 1
    <3>1. o = NumberSlice(2, ToBe16(c.number))
      BY <2>4 DEF Operand
    <3>2. Len(o) = 2
      BY <2>2, <3>1
    <3> HIDE DEF o, n
    <3> QED BY <1>4, <2>4, <3>2
  <2> QED BY <2>3, <2>4
<1> HIDE DEF g, o
<1>6. IsExpr(a) /\ Reads(a) = {} /\ Writes(a) = 0..(0 + Padded(n) - 1)
  <2>1. Reg1 \in Nat /\ FirstByte(Reg1) = 0 /\ 0 \in Nat /\ 0 <= 16
    BY RegisterPlaces
  <2>2. a = PayloadReg(c.field, Reg1)
    BY DEF Payload
  <2> HIDE DEF a
  <2> QED BY <1>1, <2>1, <2>2, PayloadExpr
<1>7. IsExpr(b) /\ Reads(b) = 0..(Len(o) - 1)
  BY <1>5, CmpExpr
<1> HIDE DEF a, b, n
<1>8. Reads(b) \subseteq {} \cup Writes(a)
  <2>1. n \in Nat /\ Len(o) <= n
    BY <1>4, <1>5
  <2>2. Padded(n) \in Nat
    BY <2>1, PaddedWords
  <2>3. 0..(0 + Padded(n) - 1) = 0..(Padded(n) - 1)
    BY <2>2
  <2> QED BY <1>5, <1>6, <1>7, <2>1, <2>3, PrefixWritten
<1>9. CoveredAfter({}, <<a, b>>)
  BY <1>6, <1>7, <1>8, TwoCovered
<1> QED BY <1>2, <1>3, <1>9, BehindGuard DEF Covered

LEMMA NetCovered ==
    ASSUME NEW c, c.is = "net", IsClause(c)
    PROVE  Covered(Exprs(c))
<1>1. c.field \in Fields
  BY DEF IsClause
<1> DEFINE n == FieldLen(c.field)
           g == Guard(c.field[1])
           d == [i \in 1..n |-> IF i <= Len(c.prefix) THEN c.prefix[i] ELSE 0]
           a == Payload(c.field)
           b == Bitwise(Mask(Len(c.prefix), n), Mask(0, n))
           e == Cmp("==", d)
<1>2. Exprs(c) = g \o <<a, b, e>>
  BY DEF Exprs
<1>3. Covered(g)
  BY <1>1, FieldFacts, GuardCovered
<1>4. n \in 1..16 /\ n \in Nat
  <2>1. n \in 1..16
    BY <1>1, FieldFacts
  <2> QED BY <2>1
<1>5. Len(d) = n
  <2>1. d \in [1..n -> {d[i] : i \in 1..n}]
    OBVIOUS
  <2> HIDE DEF d, n
  <2> QED BY <1>4, <2>1, Bytes
<1>6. IsExpr(a) /\ Reads(a) = {} /\ Writes(a) = 0..(0 + Padded(n) - 1)
  <2>1. Reg1 \in Nat /\ FirstByte(Reg1) = 0 /\ 0 \in Nat /\ 0 <= 16
    BY RegisterPlaces
  <2>2. a = PayloadReg(c.field, Reg1)
    BY DEF Payload
  <2> HIDE DEF a
  <2> QED BY <1>1, <2>1, <2>2, PayloadExpr
<1> HIDE DEF d, g, n
<1>7. IsExpr(b) /\ Reads(b) = 0..(n - 1) /\ Writes(b) = 0..(Padded(n) - 1)
  BY <1>4, BitwiseExpr
<1>8. IsExpr(e) /\ Reads(e) = 0..(n - 1)
  BY <1>4, <1>5, CmpExpr
<1> HIDE DEF a, b, e
<1>9. CoveredAfter({}, <<a, b, e>>)
  <2>1. Padded(n) \in Nat /\ n <= n
    BY <1>4, PaddedWords
  <2>2. 0..(0 + Padded(n) - 1) = 0..(Padded(n) - 1)
    BY <2>1
  <2>3. 0..(n - 1) \subseteq 0..(Padded(n) - 1)
    BY <1>4, <2>1, PrefixWritten
  <2>4. Reads(a) \subseteq {} /\ Reads(b) \subseteq {} \cup Writes(a)
    BY <1>6, <1>7, <2>2, <2>3
  <2>5. Reads(e) \subseteq {} \cup (Writes(a) \cup Writes(b))
    BY <1>7, <1>8, <2>3
  <2> QED BY <1>6, <1>7, <1>8, <2>4, <2>5, ThreeCovered
<1> QED BY <1>2, <1>3, <1>9, BehindGuard DEF Covered

(* What netfilter knows of the packet besides its headers. *)
LEMMA MetaCovered ==
    ASSUME NEW k \in DOMAIN MetaLen, NEW d, Len(d) \in Nat, Len(d) <= MetaLen[k]
    PROVE  Covered(<<Meta(k), Cmp("==", d)>>)
<1> DEFINE a == Meta(k)
           b == Cmp("==", d)
<1>1. IsExpr(a) /\ Reads(a) = {} /\ Writes(a) = 0..(Padded(MetaLen[k]) - 1)
  BY MetaExpr
<1>2. IsExpr(b) /\ Reads(b) = 0..(Len(d) - 1)
  BY CmpExpr
<1>3. MetaLen[k] \in Nat
  BY DEF MetaLen, NameSize
<1>4. Reads(b) \subseteq {} \cup Writes(a)
  BY <1>1, <1>2, <1>3, PrefixWritten
<1> HIDE DEF a, b
<1>5. CoveredAfter({}, <<a, b>>)
  BY <1>1, <1>2, <1>4, TwoCovered
<1> QED BY <1>5 DEF Covered, a, b

LEMMA KnownCovered ==
    ASSUME NEW c, c.is \in {"iif", "name", "mark"}, IsClause(c)
    PROVE  Covered(Exprs(c))
<1>1. CASE c.is = "iif"
  <2>1. c.index \in Nat
    BY <1>1 DEF IsClause
  <2> DEFINE d == NumberSlice(4, c.index)
  <2>2. Len(d) \in Nat /\ Len(d) <= 4
    <3>1. 4 \in Nat
      OBVIOUS
    <3>2. Len(d) = 4
      BY <2>1, <3>1, NativeBytes DEF NumberSlice
    <3> HIDE DEF d
    <3> QED BY <3>2
  <2>3. "iif" \in DOMAIN MetaLen /\ MetaLen["iif"] = 4
    BY DEF MetaLen
  <2>4. Exprs(c) = <<Meta("iif"), Cmp("==", d)>>
    BY <1>1 DEF Exprs
  <2> HIDE DEF d
  <2> QED BY <2>2, <2>3, <2>4, MetaCovered
<1>2. CASE c.is = "name"
  <2>1. c.name \in Seq(Octet) /\ Len(c.name) < 16
    BY <1>2 DEF IsClause, NameSize
  <2>2. Len(NameSlice(c.name, c.exact)) \in Nat /\ Len(NameSlice(c.name, c.exact)) <= 16
    <3>1. Len(c.name) \in Nat
      BY <2>1
    <3>2. Len(Append(c.name, 0)) = Len(c.name) + 1
      BY <2>1, ZeroIsOctet
    <3> QED BY <2>1, <3>1, <3>2 DEF NameSlice
  <2>3. "iifname" \in DOMAIN MetaLen /\ MetaLen["iifname"] = 16
    BY DEF MetaLen, NameSize
  <2>4. Exprs(c) = <<Meta("iifname"), Cmp("==", NameSlice(c.name, c.exact))>>
    BY <1>2 DEF Exprs
  <2> QED BY <2>2, <2>3, <2>4, MetaCovered
<1>3. CASE c.is = "mark"
  <2>1. c.mark \in [1..4 -> Octet]
    BY <1>3 DEF IsClause
  <2>2. Len(InHostOrder(c.mark)) \in Nat /\ Len(InHostOrder(c.mark)) <= 4
    <3>1. Len(InHostOrder(c.mark)) = 4
      BY <2>1, MarkBytes, HostOrderBytes
    <3> QED BY <3>1
  <2>3. "mark" \in DOMAIN MetaLen /\ MetaLen["mark"] = 4
    BY DEF MetaLen
  <2>4. Exprs(c) = <<Meta("mark"), Cmp("==", InHostOrder(c.mark))>>
    BY <1>3 DEF Exprs
  <2> QED BY <2>2, <2>3, <2>4, MetaCovered
<1> QED BY <1>1, <1>2, <1>3

(* A lookup of a key whose fields were loaded. *)
LEMMA LookupCovered ==
    ASSUME NEW fields, IsKey(fields), NEW e, IsExpr(e),
           Reads(e) = 0..(KeyLen(fields) - 1)
    PROVE  Covered((Guards(fields) \o Loads(fields)) \o <<e>>)
<1> DEFINE g == Guards(fields)
           l == Loads(fields)
<1>1. Covered(g) /\ Covered(l) /\ 0..(KeyLen(fields) - 1) \subseteq Total(l)
  BY GuardsCovered, LoadsCovered
<1> HIDE DEF g, l
<1>2. Covered(g \o l) /\ Total(l) \subseteq Total(g \o l)
  BY <1>1, BehindGuard
<1>3. CoveredAfter({} \cup Total(g \o l), <<e>>)
  <2>1. Reads(e) \subseteq {} \cup Total(g \o l)
    BY <1>1, <1>2
  <2> QED BY <2>1, OneCovered
<1>4. CoveredAfter({}, (g \o l) \o <<e>>)
  BY <1>2, <1>3, ConcatCovered DEF Covered
<1> QED BY <1>4 DEF Covered, g, l

LEMMA KeyCovered ==
    ASSUME NEW c, c.is \in {"in", "vmap"}, IsClause(c)
    PROVE  Covered(Exprs(c))
<1>1. IsKey(c.fields)
  BY DEF IsClause
<1>2. KeyLen(c.fields) \in Nat
  BY <1>1, LoadsCovered
<1>3. CASE c.is = "in"
  <2> DEFINE e == Lookup(KeysOf(c))
  <2>1. KeysOf(c).klen = KeyLen(c.fields)
    BY DEF KeysOf
  <2>2. IsExpr(e) /\ Reads(e) = 0..(KeyLen(c.fields) - 1)
    BY <1>2, <2>1, LookupExpr
  <2>3. Exprs(c) = (Guards(c.fields) \o Loads(c.fields)) \o <<e>>
    BY <1>3 DEF Exprs
  <2> HIDE DEF e
  <2> QED BY <1>1, <2>2, <2>3, LookupCovered
<1>4. CASE c.is = "vmap"
  <2> DEFINE e == LookupMap(VerdictsOf(c), KeyReg(c.fields), VerdictReg)
  <2>1. VerdictsOf(c).klen = KeyLen(c.fields)
    BY DEF VerdictsOf
  <2>2. \A b \in DOMAIN VerdictsOf(c).elems : IsVerdictData(VerdictsOf(c).elems[b])
    <3> SUFFICES ASSUME NEW b \in DOMAIN VerdictsOf(c).elems
                 PROVE  IsVerdictData(VerdictsOf(c).elems[b])
      OBVIOUS
    <3> DEFINE t == CHOOSE u \in DOMAIN c.map : Key(c.fields, u) = b
    <3>1. \E u \in DOMAIN c.map : Key(c.fields, u) = b
      BY DEF VerdictsOf
    <3>2. t \in DOMAIN c.map
      BY <3>1
    <3>3. VerdictsOf(c).elems[b] = VerdictData(c.map[t])
      BY DEF VerdictsOf
    <3> HIDE DEF t
    <3>4. IsVerdict(c.map[t])
      BY <1>4, <3>2 DEF IsClause
    <3> QED BY <3>3, <3>4, VerdictCodes
  <2>3. FirstByte(KeyReg(c.fields)) = 0
    <3>1. FirstByte(Reg1) = 0 /\ FirstByte(Reg32(0)) = 4 * 0
      BY RegisterPlaces
    <3> QED BY <3>1 DEF KeyReg
  <2>4. IsExpr(e) /\ Reads(e) = 0..(KeyLen(c.fields) - 1)
    BY <1>2, <2>1, <2>2, <2>3, VerdictMapExpr
  <2>5. Exprs(c) = (Guards(c.fields) \o Loads(c.fields)) \o <<e>>
    BY <1>4 DEF Exprs
  <2> HIDE DEF e
  <2> QED BY <1>1, <2>4, <2>5, LookupCovered
<1> QED BY <1>3, <1>4

(* What a rule does with a packet: a number goes through a register, ... *)
LEMMA ImmediateCovered ==
    ASSUME NEW c, c.is \in {"set_mark", "tproxy"}, IsClause(c)
    PROVE  Covered(Exprs(c))
<1>1. CASE c.is = "set_mark"
  <2> DEFINE d == InHostOrder(c.mark)
             a == Immediate(d, Reg1)
             b == MetaMarkSet
  <2>1. c.mark \in [1..4 -> Octet]
    BY <1>1 DEF IsClause
  <2>2. d \in Seq(Octet) /\ Len(d) = 4
    BY <2>1, MarkBytes, HostOrderBytes
  <2>3. Exprs(c) = <<a, b>>
    BY <1>1 DEF Exprs
  <2> HIDE DEF d
  <2>4. d \in Seq(Octet) /\ Len(d) <= 16
    BY ONLY <2>2
  <2>5. Padded(Len(d)) = 4
    BY ONLY <2>2 DEF Padded
  <2>6. IsExpr(a) /\ Reads(a) = {} /\ Writes(a) = 0..3
    <3>1. IsExpr(a) /\ Reads(a) = {} /\ Writes(a) = 0..(Padded(Len(d)) - 1)
      BY <2>4, ImmediateExpr
    <3>2. 0..(Padded(Len(d)) - 1) = 0..3
      BY ONLY <2>5
    <3> QED BY <3>1, <3>2
  <2>7. IsExpr(b) /\ Reads(b) = 0..3
    <3>1. b.name = "meta_set" /\ b.sreg = Reg1
      BY DEF MetaMarkSet
    <3>2. Extent(Reg1, 4) = 0..3
      BY FirstBytes
    <3> HIDE DEF b
    <3> QED BY ONLY <3>1, <3>2 DEF IsExpr, Reads
  <2> HIDE DEF a, b
  <2>8. CoveredAfter({}, <<a, b>>)
    <3>1. Reads(a) \subseteq {} /\ Reads(b) \subseteq {} \cup Writes(a)
      BY ONLY <2>6, <2>7
    <3> QED BY <2>6, <2>7, <3>1, TwoCovered
  <2> QED BY <2>3, <2>8 DEF Covered
<1>2. CASE c.is = "tproxy"
  <2> DEFINE d == NumberSlice(2, ToBe16(c.port))
             a == Immediate(d, Reg1)
             b == TProxy(c.family, Reg1, family)
  <2>1. ToBe16(c.port) \in Nat /\ 2 \in Nat
    BY <1>2, SwappedNumber DEF IsClause
  <2>2. d \in Seq(Octet) /\ Len(d) = 2
    BY <2>1, NativeBytes DEF NumberSlice
  <2>3. Exprs(c) = <<a, b>>
    BY <1>2 DEF Exprs
  <2> HIDE DEF d
  <2>4. d \in Seq(Octet) /\ Len(d) <= 16
    BY ONLY <2>2
  <2>5. Padded(Len(d)) = 4
    BY ONLY <2>2 DEF Padded
  <2>6. IsExpr(a) /\ Reads(a) = {} /\ Writes(a) = 0..3
    <3>1. IsExpr(a) /\ Reads(a) = {} /\ Writes(a) = 0..(Padded(Len(d)) - 1)
      BY <2>4, ImmediateExpr
    <3>2. 0..(Padded(Len(d)) - 1) = 0..3
      BY ONLY <2>5
    <3> QED BY <3>1, <3>2
  <2>7. IsExpr(b) /\ Reads(b) = 0..1
    <3>1. b.name = "tproxy" /\ b.port = Reg1
      BY DEF TProxy
    <3>2. Extent(Reg1, 2) = 0..1
      BY FirstBytes
    <3> HIDE DEF b
    <3> QED BY ONLY <3>1, <3>2 DEF IsExpr, Reads
  <2> HIDE DEF a, b
  <2>8. CoveredAfter({}, <<a, b>>)
    <3>1. Reads(a) \subseteq {} /\ Reads(b) \subseteq {} \cup Writes(a)
      BY ONLY <2>6, <2>7
    <3> QED BY <2>6, <2>7, <3>1, TwoCovered
  <2> QED BY <2>3, <2>8 DEF Covered
<1> QED BY <1>1, <1>2

(* ... or no register is involved. *)
LEMMA OutcomeCovered ==
    ASSUME NEW c, c.is \in {"counter", "verdict"}, IsClause(c)
    PROVE  Covered(Exprs(c))
<1>1. CASE c.is = "counter"
  <2>1. IsExpr(Counter) /\ Reads(Counter) = {}
    BY DEF Counter, IsExpr, Reads
  <2>2. Exprs(c) = <<Counter>>
    BY <1>1 DEF Exprs
  <2> QED BY <2>1, <2>2, OneCovered DEF Covered
<1>2. CASE c.is = "verdict"
  <2> DEFINE e == VerdictExpr(c.verdict, family)
  <2>1. IsVerdict(c.verdict)
    BY <1>2 DEF IsClause
  <2>2. IsExpr(e) /\ Reads(e) = {}
    <3>1. CASE c.verdict.code = "reject"
      <4>1. e.name = "reject"
        BY <3>1 DEF VerdictExpr, RejectExpr
      <4> HIDE DEF e
      <4> QED BY <4>1 DEF IsExpr, Reads
    <3>2. CASE c.verdict.code # "reject"
      <4>1. e = [name |-> "verdict", verdict |-> VerdictCode[c.verdict.code],
                 chain |-> c.verdict.arg]
        BY <3>2 DEF VerdictExpr
      <4>2. e.name = "verdict" /\ IsVerdictData(e)
        <5> HIDE DEF e
        <5>1. e.name = "verdict"
          BY <4>1
        <5> QED BY <2>1, <3>2, <4>1, <5>1, VerdictCodes
      <4> HIDE DEF e
      <4> QED BY <4>2 DEF IsExpr, Reads
    <3> QED BY <3>1, <3>2
  <2>3. Exprs(c) = <<e>>
    BY <1>2 DEF Exprs
  <2> HIDE DEF e
  <2> QED BY <2>2, <2>3, OneCovered DEF Covered
<1> QED BY <1>1, <1>2

(***************************************************************************)
(* The expressions of any clause read only what the same clause's earlier  *)
(* expressions write.                                                      *)
(***************************************************************************)
THEOREM ClauseCovered ==
    ASSUME NEW c, IsClause(c)
    PROVE  Covered(Exprs(c))
<1>1. \/ c.is = "number" \/ c.is = "net" \/ c.is = "dnat"
      \/ c.is \in {"iif", "name", "mark"}
      \/ c.is \in {"in", "vmap"}
      \/ c.is \in {"set_mark", "tproxy"} \/ c.is \in {"counter", "verdict"}
  <2> SUFFICES ASSUME c.is # "number", c.is # "net", c.is # "iif", c.is # "name",
                      c.is # "mark", c.is # "set_mark", c.is # "in", c.is # "vmap",
                      c.is # "dnat", c.is # "tproxy", c.is # "verdict"
               PROVE  c.is = "counter"
    OBVIOUS
  <2> DEFINE Other == c.is = "counter"
  <2>1. c.is \notin {"mark", "set_mark"}
    OBVIOUS
  <2>2. IsClause(c) = Other
    BY <2>1 DEF IsClause
  <2> QED BY <2>2
<1>2. CASE c.is = "number"
  BY <1>2, NumberCovered
<1>3. CASE c.is = "net"
  BY <1>3, NetCovered
<1>4. CASE c.is = "dnat"
  BY <1>4, DnatCovered
<1>5. CASE c.is \in {"iif", "name", "mark"}
  BY <1>5, KnownCovered
<1>6. CASE c.is \in {"in", "vmap"}
  BY <1>6, KeyCovered
<1>7. CASE c.is \in {"set_mark", "tproxy"}
  BY <1>7, ImmediateCovered
<1>8. CASE c.is \in {"counter", "verdict"}
  BY <1>8, OutcomeCovered
<1> QED BY <1>1, <1>2, <1>3, <1>4, <1>5, <1>6, <1>7, <1>8

----------------------------------------------------------------------------
(* The invariant.                                                          *)

Raws(s) == [i \in DOMAIN s |-> s[i].raw]

(* What the rules of a chain are, with the clauses they were made from. *)
GoodChain(R, M) ==
    /\ IsSeq(R) /\ IsSeq(M) /\ Len(R) = Len(M) /\ Len(R) <= MaxRules
    /\ \A r \in DOMAIN R :
          /\ IsSeq(R[r]) /\ Covered(Raws(R[r]))
          /\ \A i \in DOMAIN R[r] : R[r][i].of \in DOMAIN M[r]

RulesOK ==
    /\ DOMAIN rules = Chains /\ DOMAIN meant = Chains
    /\ \A ch \in Chains : GoodChain(rules[ch], meant[ch])
    /\ policy.code # "undecided"

(* The rule under construction is covered together with what is to be added. *)
DraftOK ==
    /\ draft = [chain |-> draft.chain, exprs |-> draft.exprs, clauses |-> draft.clauses]
    /\ IsSeq(draft.exprs) /\ IsSeq(draft.clauses) /\ IsSeq(todo)
    /\ draft # NoDraft => draft.chain \in Chains /\ Len(rules[draft.chain]) < MaxRules
    /\ todo # <<>> => Len(draft.clauses) > 0
    /\ \A i \in DOMAIN draft.exprs : draft.exprs[i].of \in DOMAIN draft.clauses
    /\ Covered(Raws(draft.exprs) \o todo)

GoodEffects(e) ==
    /\ e = [counted |-> e.counted, mark |-> e.mark, proxied |-> e.proxied]
    /\ e.counted \in Nat /\ e.mark \in [1..4 -> Octet]

MachineOK ==
    /\ packet \in Arriving \cup {NoPacket}
    /\ GoodEffects(effects)
    /\ regs \in [0..(FileSize - 1) -> Octet]
    /\ written \subseteq 0..(FileSize - 1)

(* Where a chain goes on when one that it jumped to has ended. *)
Return == {p \in Place : p.step = 1}

(* In front of an expression, what those before it write is written. *)
Reached(w, W) ==
    w.fate = Undecided /\ w.at.rule \in DOMAIN rules[w.at.chain] =>
        Before(Raws(rules[w.at.chain][w.at.rule]), w.at.step) \subseteq W

GoodWalk(w) ==
    /\ w = [at |-> w.at, stack |-> w.stack, fate |-> w.fate]
    /\ w.at \in Place /\ w.stack \in Seq(Return)

WalkOK ==
    /\ GoodWalk(walk)
    /\ packet = NoPacket => walk = Enter(Base) /\ written = {}
    /\ Reached(walk, written)

RulesInv == RulesOK /\ DraftOK /\ MachineOK /\ WalkOK

LEMMA RawsFacts ==
    ASSUME NEW s, IsSeq(s)
    PROVE  /\ IsSeq(Raws(s)) /\ Len(Raws(s)) = Len(s) /\ DOMAIN Raws(s) = DOMAIN s
           /\ \A i \in DOMAIN s : Raws(s)[i] = s[i].raw
<1>1. Len(s) \in Nat /\ DOMAIN s = 1..Len(s)
  BY SeqFacts
<1>2. Raws(s) \in [1..Len(s) -> {s[i].raw : i \in DOMAIN s}]
  BY <1>1 DEF Raws
<1>3. Raws(s) \in Seq({s[i].raw : i \in DOMAIN s}) /\ Len(Raws(s)) = Len(s)
  BY <1>1, <1>2, Bytes
<1>4. IsSeq(Raws(s))
  BY <1>3 DEF IsSeq
<1> QED BY <1>1, <1>3, <1>4 DEF Raws

LEMMA RawsAppend ==
    ASSUME NEW s, IsSeq(s), NEW x
    PROVE  Raws(Append(s, x)) = Append(Raws(s), x.raw)
<1> DEFINE u == Append(s, x)
           v == Raws(s)
<1>1. /\ IsSeq(u) /\ Len(u) = Len(s) + 1 /\ DOMAIN u = 1..(Len(s) + 1)
      /\ \A i \in DOMAIN s : u[i] = s[i]
      /\ u[Len(s) + 1] = x
  BY AppendFacts
<1>2. /\ IsSeq(v) /\ Len(v) = Len(s) /\ DOMAIN v = DOMAIN s
      /\ \A i \in DOMAIN s : v[i] = s[i].raw
  BY RawsFacts
<1>3. Len(s) \in Nat /\ DOMAIN s = 1..Len(s)
  BY SeqFacts
<1> HIDE DEF u, v
<1>4. /\ IsSeq(Raws(u)) /\ Len(Raws(u)) = Len(s) + 1
      /\ \A i \in 1..(Len(s) + 1) : Raws(u)[i] = u[i].raw
  BY <1>1, RawsFacts
<1>5. /\ IsSeq(Append(v, x.raw)) /\ Len(Append(v, x.raw)) = Len(s) + 1
      /\ \A i \in 1..Len(s) : Append(v, x.raw)[i] = v[i]
      /\ Append(v, x.raw)[Len(s) + 1] = x.raw
  BY <1>2, <1>3, AppendFacts
<1>6. ASSUME NEW i \in 1..(Len(s) + 1) PROVE Raws(u)[i] = Append(v, x.raw)[i]
  <2>1. CASE i \in 1..Len(s)
    BY <1>1, <1>2, <1>3, <1>4, <1>5, <2>1
  <2>2. CASE i = Len(s) + 1
    BY <1>1, <1>4, <1>5, <2>2
  <2>3. i \in 1..Len(s) \/ i = Len(s) + 1
    BY <1>3
  <2> QED BY <2>1, <2>2, <2>3
<1>7. Raws(u) = Append(v, x.raw)
  BY <1>3, <1>4, <1>5, <1>6, SameSeq
<1> QED BY <1>7 DEF u, v

LEMMA RawsEmpty == Raws(<<>>) = <<>>
<1>1. IsSeq(Raws(<<>>)) /\ Len(Raws(<<>>)) = 0
  BY EmptyIsSeq, RawsFacts
<1>2. \A i \in 1..0 : Raws(<<>>)[i] = <<>>[i]
  OBVIOUS
<1> QED BY <1>1, <1>2, EmptyIsSeq, SameSeq

LEMMA EmptyCovered == Covered(<<>>) /\ <<>> \o <<>> = <<>>
<1>1. IsSeq(<<>>) /\ DOMAIN <<>> = {}
  BY EmptyIsSeq
<1> QED BY <1>1, EmptyAtEnd DEF Covered, CoveredAfter

(* Places *)
LEMMA StartPlace ==
    ASSUME NEW ch \in Chains
    PROVE  Start(ch) \in Return /\ Start(ch).step = 1 /\ Start(ch).rule = 1
BY PacketsAssumption DEF Start, Return, Place

LEMMA PlaceFields ==
    ASSUME NEW p \in Place
    PROVE  p.chain \in Chains /\ p.rule \in 1..(MaxRules + 1) /\ p.step \in Nat \ {0}
BY DEF Place

LEMMA NextStepWalk ==
    ASSUME NEW w, GoodWalk(w)
    PROVE  /\ GoodWalk(NextStep(w)) /\ NextStep(w).fate = w.fate
           /\ NextStep(w).at.chain = w.at.chain /\ NextStep(w).at.rule = w.at.rule
           /\ NextStep(w).at.step = w.at.step + 1
<1> DEFINE q == [w.at EXCEPT !.step = @ + 1]
<1>1. w.at = [chain |-> w.at.chain, rule |-> w.at.rule, step |-> w.at.step] /\ w.at \in Place
  BY DEF GoodWalk, Place
<1>2. /\ q \in Place /\ q.chain = w.at.chain /\ q.rule = w.at.rule
      /\ q.step = w.at.step + 1
  BY <1>1 DEF Place
<1>3. NextStep(w) = [w EXCEPT !.at = q]
  BY DEF NextStep
<1> HIDE DEF q
<1>4. NextStep(w) = [at |-> q, stack |-> w.stack, fate |-> w.fate]
  BY <1>3 DEF GoodWalk
<1> QED BY <1>2, <1>4 DEF GoodWalk

LEMMA NextRuleWalk ==
    ASSUME NEW w, GoodWalk(w), w.at.rule <= MaxRules
    PROVE  GoodWalk(NextRule(w)) /\ NextRule(w).at \in Return /\ NextRule(w).at.step = 1
<1> DEFINE q == [w.at EXCEPT !.rule = @ + 1, !.step = 1]
<1>1. w.at \in Place
  BY DEF GoodWalk
<1>2. q \in Place /\ q.step = 1
  <2>1. q = [chain |-> w.at.chain, rule |-> w.at.rule + 1, step |-> 1]
    <3>1. PICK c \in Chains, r \in 1..(MaxRules + 1), k \in Nat \ {0} :
            w.at = [chain |-> c, rule |-> r, step |-> k]
      BY <1>1 DEF Place
    <3>2. q = [[w.at EXCEPT !.rule = @ + 1] EXCEPT !.step = 1]
      OBVIOUS
    <3>3. [w.at EXCEPT !.rule = @ + 1] = [chain |-> c, rule |-> r + 1, step |-> k]
      BY <3>1
    <3>4. q = [chain |-> c, rule |-> r + 1, step |-> 1]
      <4> HIDE DEF q
      <4> QED BY <3>2, <3>3
    <3>5. w.at.chain = c /\ w.at.rule = r
      BY <3>1
    <3> QED BY <3>4, <3>5
  <2>2. w.at.chain \in Chains /\ w.at.rule + 1 \in 1..(MaxRules + 1) /\ 1 \in Nat \ {0}
    BY <1>1, PacketsAssumption DEF Place
  <2> QED BY <2>1, <2>2 DEF Place
<1>3. NextRule(w) = [w EXCEPT !.at = q]
  BY DEF NextRule
<1> HIDE DEF q
<1>4. NextRule(w) = [at |-> q, stack |-> w.stack, fate |-> w.fate]
  BY <1>3 DEF GoodWalk
<1> QED BY <1>2, <1>4 DEF GoodWalk, Return

(* A walk that is not at the first expression of a rule has ended. *)
LEMMA LeaveWalk ==
    ASSUME NEW w, GoodWalk(w), NEW u, u.code # "undecided"
    PROVE  GoodWalk(Leave(w, u)) /\ (Leave(w, u).at.step = 1 \/ Leave(w, u).fate # Undecided)
<1>1. CASE w.stack = <<>>
  <2>1. Leave(w, u) = [at |-> w.at, stack |-> w.stack, fate |-> u]
    BY <1>1 DEF Leave, Decided, GoodWalk
  <2>2. u # Undecided
    BY DEF Undecided, V
  <2> QED BY <2>1, <2>2 DEF GoodWalk
<1>2. CASE w.stack # <<>>
  <2>1. Head(w.stack) \in Return /\ Tail(w.stack) \in Seq(Return)
    BY <1>2 DEF GoodWalk
  <2>2. Leave(w, u) = [at |-> Head(w.stack), stack |-> Tail(w.stack), fate |-> w.fate]
    BY <1>2 DEF Leave, GoodWalk
  <2>3. Head(w.stack) \in Place /\ Head(w.stack).step = 1
    BY <2>1 DEF Return
  <2> QED BY <2>1, <2>2, <2>3 DEF GoodWalk
<1> QED BY <1>1, <1>2

LEMMA ObeyWalk ==
    ASSUME NEW w, GoodWalk(w), w.at.rule <= MaxRules,
           NEW u, u.code # "undecided",
           NEW v, v.code \notin {"continue", "undecided"},
           v.code \in {"jump", "goto"} => v.arg \in Chains
    PROVE  GoodWalk(Obey(w, v, u)) /\ (Obey(w, v, u).at.step = 1 \/ Obey(w, v, u).fate # Undecided)
<1>1. CASE v.code = "break"
  <2>1. Obey(w, v, u) = NextRule(w)
    BY <1>1 DEF Obey
  <2> QED BY <2>1, NextRuleWalk
<1>2. CASE v.code = "jump"
  <2> DEFINE s == <<NextRule(w).at>> \o w.stack
             q == Start(v.arg)
  <2>1. q \in Place /\ q.step = 1
    BY <1>2, StartPlace DEF Return
  <2>2. s \in Seq(Return)
    <3>1. NextRule(w).at \in Return
      BY NextRuleWalk
    <3>2. <<NextRule(w).at>> \in Seq(Return) /\ w.stack \in Seq(Return)
      BY <3>1 DEF GoodWalk
    <3> QED BY <3>2
  <2>3. Obey(w, v, u) = [w EXCEPT !.at = q, !.stack = s]
    BY <1>2 DEF Obey
  <2> HIDE DEF s, q
  <2>4. Obey(w, v, u) = [at |-> q, stack |-> s, fate |-> w.fate]
    BY <2>3 DEF GoodWalk
  <2> QED BY <2>1, <2>2, <2>4 DEF GoodWalk
<1>3. CASE v.code = "goto"
  <2> DEFINE q == Start(v.arg)
  <2>1. q \in Place /\ q.step = 1
    BY <1>3, StartPlace DEF Return
  <2>2. Obey(w, v, u) = [w EXCEPT !.at = q]
    BY <1>3 DEF Obey
  <2> HIDE DEF q
  <2>3. Obey(w, v, u) = [at |-> q, stack |-> w.stack, fate |-> w.fate]
    BY <2>2 DEF GoodWalk
  <2> QED BY <2>1, <2>3 DEF GoodWalk
<1>4. CASE v.code = "return"
  <2>1. Obey(w, v, u) = Leave(w, u)
    BY <1>4 DEF Obey
  <2> QED BY <2>1, LeaveWalk
<1>5. CASE v.code \notin {"break", "jump", "goto", "return"}
  <2>1. Obey(w, v, u) = Decided(w, v)
    BY <1>5 DEF Obey
  <2>2. Obey(w, v, u) = [at |-> w.at, stack |-> w.stack, fate |-> v]
    BY <2>1 DEF Decided, GoodWalk
  <2>3. v # Undecided
    BY DEF Undecided, V
  <2> QED BY <2>2, <2>3 DEF GoodWalk
<1> QED BY <1>1, <1>2, <1>3, <1>4, <1>5

LEMMA InitInvariant == Init => RulesInv
<1> SUFFICES ASSUME Init PROVE RulesInv
  OBVIOUS
<1> USE DEF Init
<1>1. RulesOK
  <2>1. ASSUME NEW ch \in Chains PROVE GoodChain(rules[ch], meant[ch])
    <3>1. rules[ch] = <<>> /\ meant[ch] = <<>>
      OBVIOUS
    <3>2. Len(<<>>) <= MaxRules /\ DOMAIN <<>> = {}
      BY EmptyIsSeq, PacketsAssumption
    <3> QED BY <3>1, <3>2, EmptyIsSeq DEF GoodChain
  <2> QED BY <2>1 DEF RulesOK, V
<1>2. DraftOK
  <2>1. draft.exprs = <<>> /\ draft.clauses = <<>> /\ todo = <<>> /\ draft = NoDraft
    BY DEF NoDraft
  <2>2. draft = [chain |-> draft.chain, exprs |-> draft.exprs, clauses |-> draft.clauses]
    BY DEF NoDraft
  <2>3. Covered(Raws(draft.exprs) \o todo)
    BY <2>1, RawsEmpty, EmptyCovered
  <2> QED BY <2>1, <2>2, <2>3, EmptyIsSeq DEF DraftOK
<1>3. MachineOK
  BY DEF MachineOK, GoodEffects, Octet
<1>4. WalkOK
  <2>1. walk = Enter(Base) /\ Start(Base) \in Return
    BY StartPlace, PacketsAssumption
  <2>2. walk = [at |-> walk.at, stack |-> walk.stack, fate |-> walk.fate]
    BY <2>1 DEF Enter
  <2>3. walk.at = Start(Base) /\ walk.stack = <<>>
    BY <2>1 DEF Enter
  <2>4. Reached(walk, written)
    <3>1. walk.at.step = 1
      BY <2>1, <2>3, StartPlace, PacketsAssumption
    <3> QED BY <3>1, BeforeFirst DEF Reached
  <2> QED BY <2>1, <2>2, <2>3, <2>4 DEF WalkOK, GoodWalk, Return
<1> QED BY <1>1, <1>2, <1>3, <1>4 DEF RulesInv

----------------------------------------------------------------------------
(* Steps of netfilter.                                                     *)

AtStep == InRule /\ walk.at.step \in DOMAIN Rule

LEMMA AtStepFacts ==
    ASSUME RulesInv, AtStep
    PROVE  /\ packet \in Arriving /\ packet # NoPacket /\ walk.fate = Undecided
           /\ walk.at.rule \in DOMAIN rules[walk.at.chain] /\ walk.at.rule <= MaxRules
           /\ walk.at.step \in Nat \ {0}
           /\ IsExpr(Expr) /\ Raws(Rule)[walk.at.step] = Expr
           /\ Reads(Expr) \subseteq written
<1>1. /\ packet # NoPacket /\ walk.fate = Undecided
      /\ walk.at.rule \in DOMAIN rules[walk.at.chain]
      /\ walk.at.step \in DOMAIN Rule
  BY DEF AtStep, InRule, Walking
<1>2. packet \in Arriving
  BY <1>1 DEF RulesInv, MachineOK
<1>3. walk.at.chain \in Chains /\ walk.at.step \in Nat \ {0}
  BY PlaceFields DEF RulesInv, WalkOK, GoodWalk
<1>4. GoodChain(rules[walk.at.chain], meant[walk.at.chain])
  BY <1>3 DEF RulesInv, RulesOK
<1>5. IsSeq(Rule) /\ Covered(Raws(Rule))
  BY <1>1, <1>4 DEF GoodChain, Rule
<1>6. walk.at.rule <= MaxRules
  <2> DEFINE n == Len(rules[walk.at.chain])
  <2>1. n \in Nat /\ DOMAIN rules[walk.at.chain] = 1..n /\ n <= MaxRules
    BY <1>4, SeqFacts DEF GoodChain
  <2> HIDE DEF n
  <2> QED BY <1>1, <2>1, PacketsAssumption
<1>7. walk.at.step \in DOMAIN Raws(Rule) /\ Raws(Rule)[walk.at.step] = Expr
  BY <1>1, <1>5, RawsFacts DEF Expr
<1>8. IsExpr(Expr) /\ Reads(Expr) \subseteq Before(Raws(Rule), walk.at.step)
  BY <1>5, <1>7 DEF Covered, CoveredAfter
<1>9. Before(Raws(Rule), walk.at.step) \subseteq written
  BY <1>1 DEF RulesInv, WalkOK, Reached, Rule
<1> QED BY <1>1, <1>2, <1>3, <1>6, <1>7, <1>8, <1>9

LEMMA ProgramStays ==
    ASSUME RulesInv, UNCHANGED program
    PROVE  RulesOK' /\ DraftOK'
<1>1. /\ rules' = rules /\ meant' = meant /\ policy' = policy
      /\ draft' = draft /\ todo' = todo
  BY DEF program
<1>2. RulesOK'
  BY <1>1 DEF RulesInv, RulesOK
<1>3. DraftOK'
  BY <1>1 DEF RulesInv, DraftOK
<1> QED BY <1>2, <1>3

(* An expression that writes a register: the next one finds it written. *)
LEMMA PutKeeps ==
    ASSUME RulesInv, AtStep, NEW b \in Seq(Octet), Put(b),
           FirstByte(Expr.dreg) \in Nat, Fits(Expr.dreg, Len(b)),
           Writes(Expr) \subseteq Extent(Expr.dreg, Padded(Len(b)))
    PROVE  RulesInv'
<1> DEFINE W == Extent(Expr.dreg, Padded(Len(b)))
<1>1. /\ regs' = Store(regs, Expr.dreg, b) /\ walk' = NextStep(walk)
      /\ written' = written \cup W
      /\ UNCHANGED program /\ packet' = packet /\ effects' = effects
  BY DEF Put
<1>2. W \subseteq 0..(FileSize - 1)
  <2>1. Len(b) \in Nat
    BY LenProperties
  <2>2. Padded(Len(b)) \in Nat
    BY <2>1, PaddedWords
  <2> QED BY <2>2, FileSizeType DEF Extent, Fits
<1> HIDE DEF W
<1>3. MachineOK'
  <2>1. regs' \in [0..(FileSize - 1) -> Octet]
    BY <1>1, StoreType, ZeroIsOctet DEF RulesInv, MachineOK
  <2> QED BY <1>1, <1>2, <2>1 DEF RulesInv, MachineOK
<1>4. WalkOK'
  <2>1. /\ GoodWalk(walk') /\ walk'.fate = walk.fate
        /\ walk'.at.chain = walk.at.chain /\ walk'.at.rule = walk.at.rule
        /\ walk'.at.step = walk.at.step + 1
    BY <1>1, NextStepWalk DEF RulesInv, WalkOK
  <2>2. packet' # NoPacket
    BY <1>1, AtStepFacts
  <2>3. Before(Raws(Rule), walk.at.step + 1) \subseteq written'
    <3>1. Before(Raws(Rule), walk.at.step + 1)
            = Before(Raws(Rule), walk.at.step) \cup Writes(Expr)
      BY AtStepFacts, BeforeNext
    <3>2. Before(Raws(Rule), walk.at.step) \subseteq written
      BY AtStepFacts DEF RulesInv, WalkOK, Reached, Rule
    <3> QED BY <1>1, <3>1, <3>2 DEF W
  <2>4. rules' = rules
    BY <1>1 DEF program
  <2>5. Reached(walk, written)'
    BY <2>1, <2>3, <2>4 DEF Reached, Rule
  <2> QED BY <2>1, <2>2, <2>5 DEF WalkOK
<1> QED BY <1>1, <1>3, <1>4, ProgramStays DEF RulesInv

(* The walk goes on in front of another rule, or has ended. *)
LEMMA FreshWalk ==
    ASSUME GoodWalk(walk)', packet' # NoPacket,
           walk'.at.step = 1 \/ walk'.fate # Undecided
    PROVE  WalkOK'
<1>1. Reached(walk, written)'
  <2>1. CASE walk'.at.step = 1
    BY <2>1, BeforeFirst DEF Reached
  <2>2. CASE walk'.fate # Undecided
    BY <2>2 DEF Reached
  <2> QED BY <2>1, <2>2
<1> QED BY <1>1 DEF WalkOK

(* An expression that writes no register says where to go on. *)
LEMMA ThenKeeps ==
    ASSUME RulesInv, AtStep, NEW v, Then(v), regs' = regs, GoodEffects(effects)',
           v.code # "undecided",
           v.code \in {"jump", "goto"} => v.arg \in Chains,
           v.code = "continue" => Writes(Expr) = {}
    PROVE  RulesInv'
<1>1. /\ walk' = Obey(walk, v, policy)
      /\ written' = IF v.code = "continue" THEN written ELSE {}
      /\ UNCHANGED program /\ packet' = packet
  BY DEF Then
<1>2. packet' # NoPacket /\ walk.at.rule <= MaxRules
  BY <1>1, AtStepFacts
<1>3. MachineOK'
  <2>1. written' \subseteq written
    BY <1>1
  <2> QED BY <1>1, <2>1 DEF RulesInv, MachineOK
<1>4. GoodWalk(walk) /\ policy.code # "undecided"
  BY DEF RulesInv, WalkOK, RulesOK
<1>5. WalkOK'
  <2>1. CASE v.code = "continue"
    <3>1. walk' = NextStep(walk) /\ written' = written
      BY <1>1, <2>1 DEF Obey
    <3>2. /\ GoodWalk(walk') /\ walk'.fate = walk.fate
          /\ walk'.at.chain = walk.at.chain /\ walk'.at.rule = walk.at.rule
          /\ walk'.at.step = walk.at.step + 1
      BY <1>4, <3>1, NextStepWalk
    <3>3. Before(Raws(Rule), walk.at.step + 1)
            = Before(Raws(Rule), walk.at.step) \cup Writes(Expr)
      BY AtStepFacts, BeforeNext
    <3>4. Before(Raws(Rule), walk.at.step) \subseteq written
      BY AtStepFacts DEF RulesInv, WalkOK, Reached, Rule
    <3>5. rules' = rules
      BY <1>1 DEF program
    <3>6. Reached(walk, written)'
      BY <2>1, <3>1, <3>2, <3>3, <3>4, <3>5 DEF Reached, Rule
    <3> QED BY <1>2, <3>2, <3>6 DEF WalkOK
  <2>2. CASE v.code # "continue"
    <3>1. GoodWalk(walk') /\ (walk'.at.step = 1 \/ walk'.fate # Undecided)
      BY <1>1, <1>2, <1>4, <2>2, ObeyWalk
    <3> QED BY <1>2, <3>1, FreshWalk
  <2> QED BY <2>1, <2>2
<1> QED BY <1>1, <1>3, <1>5, ProgramStays DEF RulesInv

(* The ends of rules and of chains. *)
LEMMA EndsKeep ==
    ASSUME RulesInv, EndOfRule \/ EndOfChain
    PROVE  RulesInv'
<1>1. /\ Walking /\ written' = {} /\ UNCHANGED program /\ packet' = packet
      /\ effects' = effects /\ regs' = regs
  BY DEF EndOfRule, EndOfChain, InRule
<1>2. MachineOK'
  BY <1>1 DEF RulesInv, MachineOK
<1>3. GoodWalk(walk) /\ policy.code # "undecided" /\ packet' # NoPacket
  BY <1>1 DEF RulesInv, WalkOK, RulesOK, Walking
<1>4. GoodWalk(walk') /\ (walk'.at.step = 1 \/ walk'.fate # Undecided)
  <2>1. CASE EndOfRule
    <3>1. walk' = NextRule(walk) /\ walk.at.rule \in DOMAIN rules[walk.at.chain]
      BY <2>1 DEF EndOfRule, InRule
    <3>2. GoodChain(rules[walk.at.chain], meant[walk.at.chain])
      BY <1>3, PlaceFields DEF GoodWalk, RulesInv, RulesOK
    <3>3. walk.at.rule <= MaxRules
      <4> DEFINE n == Len(rules[walk.at.chain])
      <4>1. n \in Nat /\ DOMAIN rules[walk.at.chain] = 1..n /\ n <= MaxRules
        BY <3>2, SeqFacts DEF GoodChain
      <4> HIDE DEF n
      <4> QED BY <3>1, <4>1, PacketsAssumption
    <3> QED BY <1>3, <3>1, <3>3, NextRuleWalk
  <2>2. CASE EndOfChain
    <3>1. walk' = Leave(walk, policy)
      BY <2>2 DEF EndOfChain
    <3> QED BY <1>3, <3>1, LeaveWalk
  <2> QED BY <2>1, <2>2
<1>5. WalkOK'
  BY <1>3, <1>4, FreshWalk
<1> QED BY <1>1, <1>2, <1>5, ProgramStays DEF RulesInv

----------------------------------------------------------------------------
(* What netfilter loads.                                                   *)

LEMMA MarkInHostOrder ==
    ASSUME NEW b \in [1..4 -> Octet]
    PROVE  InHostOrder(b) \in [1..4 -> Octet]
<1> DEFINE x == InHostOrder(b)
<1>1. x \in Seq(Octet) /\ Len(x) = 4
  BY MarkBytes, HostOrderBytes
<1> HIDE DEF x
<1>2. x \in [1..Len(x) -> Octet]
  BY <1>1, LenProperties
<1>3. x \in [1..4 -> Octet]
  BY <1>1, <1>2
<1> QED BY <1>3 DEF x

LEMMA OneOctet ==
    ASSUME NEW n \in Octet
    PROVE  <<n>> \in Seq(Octet) /\ Len(<<n>>) = 1
OBVIOUS

LEMMA MetaBytes ==
    ASSUME NEW p, IsPacket(p), NEW m \in [1..4 -> Octet], NEW k \in DOMAIN MetaLen
    PROVE  MetaValue(p, m, k) \in Seq(Octet) /\ Len(MetaValue(p, m, k)) = MetaLen[k]
<1>1. CASE k = "nfproto"
  <2>1. L3(p) \in DOMAIN NfProto
    BY DEF IsPacket, L3
  <2>2. NfProto[L3(p)] \in Octet
    BY <2>1 DEF NfProto, Octet
  <2>3. MetaValue(p, m, k) = <<NfProto[L3(p)]>> /\ MetaLen[k] = 1
    BY <1>1 DEF MetaValue, MetaLen
  <2> QED BY <2>2, <2>3, OneOctet
<1>2. CASE k = "l4proto"
  <2>1. L4(p) \in DOMAIN L4Proto
    BY DEF IsPacket, L4
  <2>2. L4Proto[L4(p)] \in Octet
    BY <2>1 DEF L4Proto, Octet
  <2>3. MetaValue(p, m, k) = <<L4Proto[L4(p)]>> /\ MetaLen[k] = 1
    BY <1>2 DEF MetaValue, MetaLen
  <2> QED BY <2>2, <2>3, OneOctet
<1>3. CASE k = "iif"
  <2>1. p.iif \in Nat /\ 4 \in Nat
    BY DEF IsPacket
  <2>2. MetaValue(p, m, k) = Native(4, p.iif) /\ MetaLen[k] = 4
    BY <1>3 DEF MetaValue, MetaLen
  <2> QED BY <2>1, <2>2, NativeBytes
<1>4. CASE k = "iifname"
  <2> DEFINE b == [i \in 1..NameSize |-> IF i <= Len(p.iifname) THEN p.iifname[i] ELSE 0]
  <2>1. MetaValue(p, m, k) = b /\ MetaLen[k] = NameSize
    BY <1>4 DEF MetaValue, MetaLen
  <2>2. b \in [1..NameSize -> Octet] /\ NameSize \in Nat
    BY ZeroIsOctet DEF IsPacket, NameSize
  <2> QED BY <2>1, <2>2, Bytes
<1>5. CASE k = "iiftype"
  <2>1. p.iiftype \in Nat /\ 2 \in Nat
    BY DEF IsPacket
  <2>2. MetaValue(p, m, k) = Native(2, p.iiftype) /\ MetaLen[k] = 2
    BY <1>5 DEF MetaValue, MetaLen
  <2> QED BY <2>1, <2>2, NativeBytes
<1>6. CASE k = "mark"
  <2>1. MetaValue(p, m, k) = m /\ MetaLen[k] = 4
    BY <1>6 DEF MetaValue, MetaLen
  <2> QED BY <2>1, MarkBytes
<1>7. k \in {"nfproto", "l4proto", "iif", "iifname", "iiftype", "mark"}
  BY DEF MetaLen
<1> QED BY <1>1, <1>2, <1>3, <1>4, <1>5, <1>6, <1>7

LEMMA LayoutFacts ==
    ASSUME NEW h \in DOMAIN Layout
    PROVE  /\ IsSeq(Layout[h]) /\ Len(Layout[h]) # 0
           /\ \A i \in DOMAIN Layout[h] : Layout[h][i][2] \in Nat
<1>1. ASSUME NEW a, NEW b, NEW c, NEW d, NEW e, NEW f
      PROVE  /\ IsSeq(<<a, b, c>>) /\ Len(<<a, b, c>>) = 3
             /\ IsSeq(<<a, b, c, d>>) /\ Len(<<a, b, c, d>>) = 4
             /\ IsSeq(<<a, b, c, d, e>>) /\ Len(<<a, b, c, d, e>>) = 5
             /\ IsSeq(<<a, b, c, d, e, f>>) /\ Len(<<a, b, c, d, e, f>>) = 6
  <2> DEFINE S == {a, b, c, d, e, f}
  <2>1. /\ <<a, b, c>> \in Seq(S) /\ <<a, b, c, d>> \in Seq(S)
        /\ <<a, b, c, d, e>> \in Seq(S) /\ <<a, b, c, d, e, f>> \in Seq(S)
    OBVIOUS
  <2> QED BY <2>1 DEF IsSeq
<1>2. IsSeq(Layout[h]) /\ Len(Layout[h]) # 0
  <2>1. h \in {"ethernet", "ipv4", "ipv6", "tcp", "udp", "icmpv6"}
    BY DEF Layout
  <2>2. CASE h \in {"ethernet", "tcp", "icmpv6"}
    <3>1. PICK a, b, c : Layout[h] = <<a, b, c>>
      BY <2>2 DEF Layout
    <3>2. IsSeq(<<a, b, c>>) /\ Len(<<a, b, c>>) = 3
      BY <1>1
    <3>3. Len(<<a, b, c>>) # 0
      BY ONLY <3>2
    <3> QED BY <3>1, <3>2, <3>3
  <2>3. CASE h = "ipv4"
    <3>1. PICK a, b, c, d, e, f : Layout[h] = <<a, b, c, d, e, f>>
      BY <2>3 DEF Layout
    <3>2. IsSeq(<<a, b, c, d, e, f>>) /\ Len(<<a, b, c, d, e, f>>) = 6
      BY <1>1
    <3>3. Len(<<a, b, c, d, e, f>>) # 0
      BY ONLY <3>2
    <3> QED BY <3>1, <3>2, <3>3
  <2>4. CASE h = "ipv6"
    <3>1. PICK a, b, c, d, e : Layout[h] = <<a, b, c, d, e>>
      BY <2>4 DEF Layout
    <3>2. IsSeq(<<a, b, c, d, e>>) /\ Len(<<a, b, c, d, e>>) = 5
      BY <1>1
    <3>3. Len(<<a, b, c, d, e>>) # 0
      BY ONLY <3>2
    <3> QED BY <3>1, <3>2, <3>3
  <2>5. CASE h = "udp"
    <3>1. PICK a, b, c, d : Layout[h] = <<a, b, c, d>>
      BY <2>5 DEF Layout
    <3>2. IsSeq(<<a, b, c, d>>) /\ Len(<<a, b, c, d>>) = 4
      BY <1>1
    <3>3. Len(<<a, b, c, d>>) # 0
      BY ONLY <3>2
    <3> QED BY <3>1, <3>2, <3>3
  <2> QED BY <2>1, <2>2, <2>3, <2>4, <2>5
<1>3. \A i \in DOMAIN Layout[h] : Layout[h][i][2] \in Nat
  BY DEF Layout
<1> QED BY <1>2, <1>3

LEMMA HeaderIsBytes ==
    ASSUME NEW p, IsPacket(p), NEW base \in DOMAIN Bases
    PROVE  HeaderAt(p, base) \in Seq(Octet)
<1>1. CASE \E h \in Bases[base] : h \in DOMAIN p.headers
  <2> DEFINE h == CHOOSE g \in Bases[base] : g \in DOMAIN p.headers
             s == [i \in DOMAIN Layout[h] |-> Wire(p.headers[h], Layout[h][i])]
  <2>1. h \in Bases[base] /\ h \in DOMAIN p.headers
    BY <1>1
  <2>2. HeaderAt(p, base) = FlattenSeq(s)
    BY <1>1 DEF HeaderAt, HeaderBytes
  <2> HIDE DEF h
  <2>3. h \in DOMAIN Layout
    BY <2>1 DEF Bases, Layout, NfProto, L4Proto
  <2>4. ASSUME NEW i \in DOMAIN Layout[h] PROVE s[i] \in Seq(Octet)
    <3> DEFINE part == Layout[h][i]
               n == part[2]
    <3>1. n \in Nat
      BY <2>3, LayoutFacts
    <3>2. s[i] = Wire(p.headers[h], part)
      BY DEF Wire
    <3>3. part[1] # "other" => IsValue(part[1], n, p.headers[h][part[1]])
      BY <2>1, <2>3 DEF IsPacket
    <3> HIDE DEF part, n, s
    <3>4. CASE part[1] = "other"
      <4>1. s[i] = [j \in 1..part[2] |-> 187]
        BY <3>2, <3>4 DEF Wire
      <4>2. s[i] \in [1..n -> Octet]
        BY ONLY <4>1 DEF Octet, n
      <4> QED BY <3>1, <4>2, Bytes
    <3>5. CASE part[1] # "other" /\ part[1] \in Addresses
      <4>1. s[i] \in [1..n -> Octet]
        BY <3>2, <3>3, <3>5 DEF Wire, IsValue
      <4> QED BY <3>1, <4>1, Bytes
    <3>6. CASE part[1] # "other" /\ part[1] \notin Addresses
      <4>1. s[i] = BigEndian(n, p.headers[h][part[1]]) /\ p.headers[h][part[1]] \in Nat
        BY <3>2, <3>3, <3>6 DEF Wire, IsValue, n
      <4> QED BY <3>1, <4>1, BigEndianBytes
    <3> QED BY <3>4, <3>5, <3>6
  <2>5. IsSeq(s) /\ Len(s) # 0 /\ DOMAIN s = DOMAIN Layout[h]
    <3>1. IsSeq(Layout[h]) /\ Len(Layout[h]) # 0
      BY <2>3, LayoutFacts
    <3>2. DOMAIN Layout[h] = 1..Len(Layout[h]) /\ Len(Layout[h]) \in Nat
      BY <3>1, SeqFacts
    <3>3. s \in [1..Len(Layout[h]) -> Seq(Octet)]
      BY <2>4, <3>2
    <3>4. s \in Seq(Seq(Octet)) /\ Len(s) = Len(Layout[h])
      BY <3>2, <3>3, Bytes
    <3> QED BY <3>1, <3>4 DEF IsSeq
  <2> HIDE DEF s
  <2> QED BY <2>2, <2>4, <2>5, FlattenType
<1>2. CASE ~ \E h \in Bases[base] : h \in DOMAIN p.headers
  BY <1>2 DEF HeaderAt
<1> QED BY <1>1, <1>2

----------------------------------------------------------------------------
(* The expressions, one by one.                                            *)

LEMMA AtExprIsStep ==
    ASSUME NEW name, AtExpr(name)
    PROVE  AtStep /\ Expr.name = name
BY DEF AtExpr, AtStep, Expr

(* What a register expression writes is what is written. *)
LEMMA PutInFirst ==
    ASSUME NEW e, e.dreg = Reg1, NEW b \in Seq(Octet), Len(b) <= 16
    PROVE  FirstByte(e.dreg) \in Nat /\ Fits(e.dreg, Len(b))
<1>1. Len(b) \in Nat
  BY LenProperties
<1>2. Padded(Len(b)) <= 16
  BY <1>1 DEF Padded
<1>3. FirstByte(Reg1) = 0
  BY RegisterPlaces
<1>4. Padded(Len(b)) \in Nat
  BY <1>1, PaddedWords
<1> QED BY <1>2, <1>3, <1>4 DEF Fits, FileSize

LEMMA LoadMetaKeeps == ASSUME RulesInv, LoadMeta PROVE RulesInv'
<1> DEFINE b == MetaValue(packet, effects.mark, Expr.key)
<1>1. AtStep /\ Expr.name = "meta" /\ Put(b)
  BY AtExprIsStep DEF LoadMeta
<1>2. IsExpr(Expr) /\ packet \in Arriving
  BY <1>1, AtStepFacts
<1>3. Expr.key \in DOMAIN MetaLen /\ Expr.dreg = Reg1
  BY <1>1, <1>2 DEF IsExpr
<1>4. IsPacket(packet) /\ effects.mark \in [1..4 -> Octet]
  BY <1>2, PacketsAssumption DEF RulesInv, MachineOK, GoodEffects
<1>5. b \in Seq(Octet) /\ Len(b) = MetaLen[Expr.key]
  BY <1>3, <1>4, MetaBytes
<1>6. MetaLen[Expr.key] <= 16
  BY <1>3 DEF MetaLen, NameSize
<1>7. Writes(Expr) = Extent(Expr.dreg, Padded(Len(b)))
  BY <1>1, <1>5 DEF Writes
<1> HIDE DEF b
<1>8. FirstByte(Expr.dreg) \in Nat /\ Fits(Expr.dreg, Len(b))
  BY <1>3, <1>5, <1>6, PutInFirst
<1> QED BY <1>1, <1>5, <1>7, <1>8, PutKeeps

LEMMA LoadPayloadKeeps == ASSUME RulesInv, LoadPayload PROVE RulesInv'
<1> DEFINE h == HeaderAt(packet, Expr.base)
           o == Expr.offset
           n == Expr.len
           b == SubSeq(h, o + 1, o + n)
<1>1. AtStep /\ Expr.name = "payload" /\ Put(b) /\ o + n <= Len(h)
  BY AtExprIsStep DEF LoadPayload, HasPayload
<1>2. IsExpr(Expr) /\ packet \in Arriving
  BY <1>1, AtStepFacts
<1>3. /\ Expr.base \in DOMAIN Bases /\ o \in Nat /\ n \in Nat
      /\ FirstByte(Expr.dreg) \in Nat /\ Fits(Expr.dreg, n)
  BY <1>1, <1>2 DEF IsExpr
<1>4. h \in Seq(Octet)
  BY <1>2, <1>3, PacketsAssumption, HeaderIsBytes
<1>5. Writes(Expr) = Extent(Expr.dreg, Padded(n))
  BY <1>1 DEF Writes
<1>6. b \in Seq(Octet) /\ Len(b) = n
  <2> HIDE DEF h, o, n
  <2>1. Len(h) \in Nat
    BY <1>4
  <2>2. \A i \in (o + 1)..(o + n) : i \in 1..Len(h)
    BY <1>1, <1>3, <2>1
  <2>3. b \in Seq(Octet)
    BY <1>3, <1>4, <2>2, SubSeqProperties
  <2>4. Len(b) = IF o + 1 <= o + n THEN (o + n) - (o + 1) + 1 ELSE 0
    BY <1>3, <1>4, <2>2, SubSeqProperties
  <2> QED BY <1>3, <2>3, <2>4
<1> HIDE DEF b, n
<1> QED BY <1>1, <1>3, <1>5, <1>6, PutKeeps

LEMMA LoadImmediateKeeps == ASSUME RulesInv, LoadImmediate PROVE RulesInv'
<1>1. AtStep /\ Expr.name = "immediate" /\ Put(Expr.data)
  BY AtExprIsStep DEF LoadImmediate
<1>2. IsExpr(Expr)
  BY <1>1, AtStepFacts
<1>3. Expr.dreg = Reg1 /\ Expr.data \in Seq(Octet) /\ Len(Expr.data) <= 16
  BY <1>1, <1>2 DEF IsExpr
<1>4. Writes(Expr) = Extent(Expr.dreg, Padded(Len(Expr.data)))
  BY <1>1 DEF Writes
<1>5. FirstByte(Expr.dreg) \in Nat /\ Fits(Expr.dreg, Len(Expr.data))
  BY <1>3, PutInFirst
<1> QED BY <1>1, <1>3, <1>4, <1>5, PutKeeps

LEMMA LoadNumberKeeps == ASSUME RulesInv, LoadNumber PROVE RulesInv'
<1>1. AtStep /\ Expr.name = "numgen"
  BY AtExprIsStep DEF LoadNumber
<1>2. PICK k \in 0..(Expr.modulus - 1) : Put(Native(4, Expr.offset + k))
  BY DEF LoadNumber
<1> DEFINE b == Native(4, Expr.offset + k)
<1>3. IsExpr(Expr)
  BY <1>1, AtStepFacts
<1>4. Expr.dreg = Reg1 /\ Expr.offset \in Nat
  BY <1>1, <1>3 DEF IsExpr
<1>5. b \in Seq(Octet) /\ Len(b) = 4
  <2>1. Expr.offset + k \in Nat /\ 4 \in Nat
    BY <1>4
  <2> QED BY <2>1, NativeBytes
<1>6. Writes(Expr) = Extent(Expr.dreg, 4)
  BY <1>1 DEF Writes
<1> HIDE DEF b
<1>7. Len(b) <= 16 /\ Padded(Len(b)) = 4
  BY ONLY <1>5 DEF Padded
<1>8. FirstByte(Expr.dreg) \in Nat /\ Fits(Expr.dreg, Len(b))
  BY <1>4, <1>5, <1>7, PutInFirst
<1>9. Put(b)
  BY <1>2 DEF b
<1> QED BY <1>1, <1>5, <1>6, <1>7, <1>8, <1>9, PutKeeps

LEMMA MaskBytesKeeps == ASSUME RulesInv, MaskBytes PROVE RulesInv'
<1> DEFINE n == Expr.len
           b == [i \in 1..n |-> IF Expr.mask[i] = 255 THEN Got(n)[i] ELSE 0]
<1>1. AtStep /\ Expr.name = "bitwise" /\ Put(b)
  BY AtExprIsStep DEF MaskBytes
<1>2. IsExpr(Expr)
  BY <1>1, AtStepFacts
<1>3. Expr.sreg = Reg1 /\ Expr.dreg = Reg1 /\ n \in 0..16
  BY <1>1, <1>2 DEF IsExpr
<1>4. regs \in [0..(FileSize - 1) -> Octet]
  BY DEF RulesInv, MachineOK
<1>5. ASSUME NEW i \in 1..n PROVE Got(n)[i] \in Octet
  <2>1. FirstByte(Expr.sreg) = 0
    BY <1>3, RegisterPlaces
  <2>2. Got(n)[i] = regs[FirstByte(Expr.sreg) + i - 1]
    BY DEF Got, Fetch
  <2> HIDE DEF n
  <2>3. 0 + i - 1 \in 0..63
    BY <1>3
  <2> QED BY <1>4, <2>1, <2>2, <2>3 DEF FileSize
<1>6. b \in [1..n -> Octet]
  BY <1>5, ZeroIsOctet
<1>7. Writes(Expr) = Extent(Expr.dreg, Padded(n))
  BY <1>1 DEF Writes
<1> HIDE DEF b, n
<1>8. n \in Nat /\ n <= 16
  BY <1>3
<1>9. b \in Seq(Octet) /\ Len(b) = n
  BY <1>6, <1>8, Bytes
<1>10. FirstByte(Expr.dreg) \in Nat /\ Fits(Expr.dreg, Len(b))
  BY <1>3, <1>8, <1>9, PutInFirst
<1> QED BY <1>1, <1>7, <1>9, <1>10, PutKeeps

LEMMA FindDataKeeps == ASSUME RulesInv, FindData PROVE RulesInv'
<1> DEFINE k == Got(Expr.set.klen)
           b == Expr.set.elems[k]
<1>1. /\ AtStep /\ Expr.name = "lookup_map" /\ Put(b)
      /\ k \in DOMAIN Expr.set.elems /\ Expr.dreg # VerdictReg
  BY AtExprIsStep DEF FindData, Found, Data
<1> HIDE DEF k
<1>2. IsExpr(Expr)
  BY <1>1, AtStepFacts
<1>3. Expr.dreg = Reg2 /\ b \in Seq(Octet) /\ Len(b) <= 32
  BY <1>1, <1>2 DEF IsExpr
<1>4. Writes(Expr) \subseteq Extent(Expr.dreg, Padded(Len(b)))
  BY <1>1 DEF Writes
<1> HIDE DEF b
<1>5. FirstByte(Expr.dreg) = 16
  BY <1>3, RegisterPlaces
<1>6. Len(b) \in Nat
  BY <1>3, LenProperties
<1>7. Padded(Len(b)) \in Nat /\ Padded(Len(b)) <= 32
  BY ONLY <1>3, <1>6 DEF Padded
<1>8. FirstByte(Expr.dreg) \in Nat /\ Fits(Expr.dreg, Len(b))
  BY <1>5, <1>7 DEF Fits, FileSize
<1> QED BY <1>1, <1>3, <1>4, <1>8, PutKeeps

(* Verdicts name chains if they lead to chains. *)
LEMMA DecodedVerdict ==
    ASSUME NEW d, IsVerdictData(d)
    PROVE  /\ Decode(d).code # "undecided"
           /\ Decode(d).code \in {"jump", "goto"} => Decode(d).arg \in Chains
<1> DEFINE c == CHOOSE code \in DOMAIN VerdictCode : VerdictCode[code] = d.verdict
<1>1. c \in DOMAIN VerdictCode /\ VerdictCode[c] = d.verdict
  BY DEF IsVerdictData
<1>2. Decode(d).code = c /\ Decode(d).arg = d.chain
  BY DEF Decode, V
<1> HIDE DEF c
<1>3. c # "undecided"
  BY <1>1 DEF VerdictCode
<1>4. ASSUME c \in {"jump", "goto"} PROVE d.chain \in Chains
  BY <1>1, <1>4 DEF IsVerdictData
<1> QED BY <1>2, <1>3, <1>4

LEMMA FindVerdictKeeps == ASSUME RulesInv, FindVerdict PROVE RulesInv'
<1> DEFINE k == Got(Expr.set.klen)
           v == Decode(Expr.set.elems[k])
<1>1. /\ AtStep /\ Expr.name = "lookup_map" /\ Then(v)
      /\ k \in DOMAIN Expr.set.elems /\ Expr.dreg = VerdictReg
      /\ regs' = regs /\ effects' = effects
  BY AtExprIsStep DEF FindVerdict, Found, Data
<1> HIDE DEF k
<1>2. IsExpr(Expr)
  BY <1>1, AtStepFacts
<1>3. IsVerdictData(Expr.set.elems[k])
  BY <1>1, <1>2 DEF IsExpr
<1>4. v.code # "undecided" /\ (v.code \in {"jump", "goto"} => v.arg \in Chains)
  BY <1>3, DecodedVerdict
<1>5. Writes(Expr) = {}
  BY <1>1 DEF Writes
<1> HIDE DEF v
<1>6. GoodEffects(effects)'
  BY <1>1 DEF RulesInv, MachineOK
<1> QED BY <1>1, <1>4, <1>5, <1>6, ThenKeeps

LEMMA IssueKeeps == ASSUME RulesInv, Issue PROVE RulesInv'
<1> DEFINE v == Decode(Expr)
<1>1. /\ AtStep /\ Expr.name = "verdict" /\ Then(v)
      /\ regs' = regs /\ effects' = effects
  BY AtExprIsStep DEF Issue
<1>2. IsExpr(Expr)
  BY <1>1, AtStepFacts
<1>3. IsVerdictData(Expr)
  BY <1>1, <1>2 DEF IsExpr
<1>4. v.code # "undecided" /\ (v.code \in {"jump", "goto"} => v.arg \in Chains)
  BY <1>3, DecodedVerdict
<1>5. Writes(Expr) = {}
  BY <1>1 DEF Writes
<1> HIDE DEF v
<1>6. GoodEffects(effects)'
  BY <1>1 DEF RulesInv, MachineOK
<1> QED BY <1>1, <1>4, <1>5, <1>6, ThenKeeps

(* Expressions that match or do not, ... *)
LEMMA MatchKeeps ==
    ASSUME RulesInv, AtStep, NEW v \in {Continue, Break}, Then(v),
           Writes(Expr) = {} \/ v = Break,
           regs' = regs, GoodEffects(effects)'
    PROVE  RulesInv'
<1>1. /\ v.code \in {"continue", "break"}
      /\ v = Break => v.code = "break"
  BY DEF Continue, Break, V
<1> QED BY <1>1, ThenKeeps

LEMMA TestsKeep ==
    ASSUME RulesInv, NoPayload \/ Compare \/ FindKey \/ FindNothing
    PROVE  RulesInv'
<1>1. GoodEffects(effects)
  BY DEF RulesInv, MachineOK
<1>2. CASE NoPayload
  <2>1. AtStep /\ Then(Break) /\ regs' = regs /\ effects' = effects
    BY <1>2, AtExprIsStep DEF NoPayload
  <2> QED BY <1>1, <2>1, MatchKeeps
<1>3. CASE Compare
  <2> DEFINE v == IF Holds(Expr.op, Got(Len(Expr.data)), Expr.data) THEN Continue ELSE Break
  <2>1. /\ AtStep /\ Expr.name = "cmp" /\ Then(v) /\ regs' = regs /\ effects' = effects
    BY <1>3, AtExprIsStep DEF Compare
  <2>2. v \in {Continue, Break}
    OBVIOUS
  <2>3. Writes(Expr) = {}
    BY <2>1 DEF Writes
  <2> HIDE DEF v
  <2> QED BY <1>1, <2>1, <2>2, <2>3, MatchKeeps
<1>4. CASE FindKey
  <2> DEFINE v == IF Got(Expr.set.klen) \in Expr.set.keys THEN Continue ELSE Break
  <2>1. /\ AtStep /\ Expr.name = "lookup" /\ Then(v) /\ regs' = regs /\ effects' = effects
    BY <1>4, AtExprIsStep DEF FindKey
  <2>2. v \in {Continue, Break}
    OBVIOUS
  <2>3. Writes(Expr) = {}
    BY <2>1 DEF Writes
  <2> HIDE DEF v
  <2> QED BY <1>1, <2>1, <2>2, <2>3, MatchKeeps
<1>5. CASE FindNothing
  <2>1. AtStep /\ Then(Break) /\ regs' = regs /\ effects' = effects
    BY <1>5, AtExprIsStep DEF FindNothing
  <2> QED BY <1>1, <2>1, MatchKeeps
<1> QED BY <1>2, <1>3, <1>4, <1>5

(* ... and those that do something with the packet. *)
LEMMA SetMarkKeeps == ASSUME RulesInv, SetMark PROVE RulesInv'
<1>1. /\ AtStep /\ Expr.name = "meta_set" /\ Then(Continue) /\ regs' = regs
      /\ effects' = [effects EXCEPT !.mark = Got(4)]
  BY AtExprIsStep DEF SetMark
<1>2. IsExpr(Expr)
  BY <1>1, AtStepFacts
<1>3. Expr.sreg = Reg1
  BY <1>1, <1>2 DEF IsExpr
<1>4. Got(4) \in [1..4 -> Octet]
  <2>1. FirstByte(Expr.sreg) = 0
    BY <1>3, RegisterPlaces
  <2>2. regs \in [0..(FileSize - 1) -> Octet]
    BY DEF RulesInv, MachineOK
  <2>3. ASSUME NEW i \in 1..4 PROVE regs[FirstByte(Expr.sreg) + i - 1] \in Octet
    <3>1. 0 + i - 1 \in 0..63
      BY ONLY <2>3
    <3> QED BY <2>1, <2>2, <3>1 DEF FileSize
  <2> QED BY <2>3 DEF Got, Fetch
<1>5. GoodEffects(effects)
  BY DEF RulesInv, MachineOK
<1>6. effects' = [counted |-> effects.counted, mark |-> Got(4), proxied |-> effects.proxied]
  BY <1>1, <1>5 DEF GoodEffects
<1>7. GoodEffects(effects)'
  BY <1>4, <1>5, <1>6 DEF GoodEffects
<1>8. Writes(Expr) = {}
  BY <1>1 DEF Writes
<1> QED BY <1>1, <1>7, <1>8, MatchKeeps

LEMMA CountKeeps == ASSUME RulesInv, Count PROVE RulesInv'
<1>1. /\ AtStep /\ Expr.name = "counter" /\ Then(Continue) /\ regs' = regs
      /\ effects' = [effects EXCEPT !.counted = @ + 1]
  BY AtExprIsStep DEF Count
<1>2. GoodEffects(effects)
  BY DEF RulesInv, MachineOK
<1>3. effects' = [counted |-> effects.counted + 1, mark |-> effects.mark,
                  proxied |-> effects.proxied]
  BY <1>1, <1>2 DEF GoodEffects
<1>4. GoodEffects(effects)'
  BY <1>2, <1>3 DEF GoodEffects
<1>5. Writes(Expr) = {}
  BY <1>1 DEF Writes
<1> QED BY <1>1, <1>4, <1>5, MatchKeeps

LEMMA RejectKeeps == ASSUME RulesInv, Reject PROVE RulesInv'
<1> DEFINE v == V("reject", Told(packet, Expr.type, Expr.code))
<1>1. /\ AtStep /\ Then(v) /\ regs' = regs /\ effects' = effects
  BY AtExprIsStep DEF Reject
<1>2. v.code = "reject"
  BY DEF V
<1> HIDE DEF v
<1>3. GoodEffects(effects)'
  BY <1>1 DEF RulesInv, MachineOK
<1> QED BY <1>1, <1>2, <1>3, ThenKeeps

LEMMA TranslateKeeps == ASSUME RulesInv, Translate PROVE RulesInv'
<1>1. /\ AtStep /\ regs' = regs /\ effects' = effects
      /\ \E v : Then(v) /\ v.code = "dnat"
  BY AtExprIsStep DEF Translate
<1>2. PICK v : Then(v) /\ v.code = "dnat"
  BY <1>1
<1>3. GoodEffects(effects)'
  BY <1>1 DEF RulesInv, MachineOK
<1> QED BY <1>1, <1>2, <1>3, ThenKeeps

LEMMA RedirectKeeps == ASSUME RulesInv, Redirect PROVE RulesInv'
<1>1. AtStep /\ Expr.name = "tproxy" /\ regs' = regs
  BY AtExprIsStep DEF Redirect
<1>2. GoodEffects(effects)
  BY DEF RulesInv, MachineOK
<1>3. Writes(Expr) = {}
  BY <1>1 DEF Writes
<1>4. CASE Expr.family \in {"Unspec", FamilyOf(packet)}
  <2>1. effects' = [effects EXCEPT !.proxied = Port(Expr.port)] /\ Then(Continue)
    BY <1>4 DEF Redirect
  <2>2. effects' = [counted |-> effects.counted, mark |-> effects.mark,
                    proxied |-> Port(Expr.port)]
    BY <1>2, <2>1 DEF GoodEffects
  <2>3. GoodEffects(effects)'
    BY <1>2, <2>2 DEF GoodEffects
  <2> QED BY <1>1, <1>3, <2>1, <2>3, MatchKeeps
<1>5. CASE Expr.family \notin {"Unspec", FamilyOf(packet)}
  <2>1. effects' = effects /\ Then(Break)
    BY <1>5 DEF Redirect
  <2> QED BY <1>1, <1>2, <2>1, MatchKeeps
<1> QED BY <1>4, <1>5

----------------------------------------------------------------------------
(* Steps of the program.                                                   *)

(* Until a packet arrives, the walk is in front of the first rule. *)
LEMMA NothingWalks ==
    ASSUME RulesInv, Building, UNCHANGED <<packet, walk, written>>
    PROVE  WalkOK'
<1>1. walk = Enter(Base) /\ written = {} /\ GoodWalk(walk)
  BY DEF RulesInv, WalkOK, Building
<1>2. walk'.at.step = 1
  BY <1>1, StartPlace, PacketsAssumption DEF Enter
<1>3. Reached(walk, written)'
  BY <1>2, BeforeFirst DEF Reached
<1> QED BY <1>1, <1>3 DEF WalkOK

LEMMA OutsideStays ==
    ASSUME RulesInv, Building, Outside
    PROVE  MachineOK' /\ WalkOK'
<1>1. /\ packet' = packet /\ walk' = walk /\ effects' = effects /\ regs' = regs
      /\ written' = written
  BY DEF Outside
<1>2. MachineOK'
  BY <1>1 DEF RulesInv, MachineOK
<1> QED BY <1>1, <1>2, NothingWalks

LEMMA SetPolicyKeeps ==
    ASSUME RulesInv, NEW v, v.code # "undecided", SetPolicy(v)
    PROVE  RulesInv'
<1>1. /\ policy' = v /\ rules' = rules /\ meant' = meant /\ draft' = draft /\ todo' = todo
      /\ Building /\ Outside
  BY DEF SetPolicy
<1>2. RulesOK'
  BY <1>1 DEF RulesInv, RulesOK
<1>3. DraftOK'
  BY <1>1 DEF RulesInv, DraftOK
<1> QED BY <1>1, <1>2, <1>3, OutsideStays DEF RulesInv

LEMMA NewRuleKeeps ==
    ASSUME RulesInv, NEW ch \in Chains, NewRule(ch)
    PROVE  RulesInv'
<1>1. /\ Building /\ Outside /\ draft = NoDraft /\ Len(rules[ch]) < MaxRules
      /\ draft' = [NoDraft EXCEPT !.chain = ch]
      /\ rules' = rules /\ meant' = meant /\ policy' = policy /\ todo' = todo
  BY DEF NewRule
<1>2. RulesOK'
  BY <1>1 DEF RulesInv, RulesOK
<1>3. draft' = [chain |-> ch, exprs |-> <<>>, clauses |-> <<>>]
  BY <1>1 DEF NoDraft
<1>4. draft'.chain = ch /\ draft'.exprs = <<>> /\ draft'.clauses = <<>>
  BY <1>3
<1>5. todo = <<>>
  <2>1. draft.clauses = <<>>
    BY <1>1 DEF NoDraft
  <2> QED BY <2>1, EmptyIsSeq DEF RulesInv, DraftOK
<1>6. DraftOK'
  <2>1. draft' = [chain |-> draft'.chain, exprs |-> draft'.exprs, clauses |-> draft'.clauses]
    BY <1>3
  <2>2. IsSeq(draft'.exprs) /\ IsSeq(draft'.clauses) /\ IsSeq(todo')
    BY <1>1, <1>4, <1>5, EmptyIsSeq
  <2>3. draft'.chain \in Chains /\ Len(rules'[draft'.chain]) < MaxRules
    BY <1>1, <1>4
  <2>4. DOMAIN draft'.exprs = {}
    BY <1>4
  <2>5. Covered(Raws(draft'.exprs) \o todo')
    BY <1>1, <1>4, <1>5, RawsEmpty, EmptyCovered
  <2> QED BY <1>1, <1>5, <2>1, <2>2, <2>3, <2>4, <2>5 DEF DraftOK
<1> QED BY <1>1, <1>2, <1>6, OutsideStays DEF RulesInv

(* The expressions of a clause behind those of the clauses before it. *)
LEMMA SayKeeps ==
    ASSUME RulesInv, draft # NoDraft, NEW c \in Clauses[draft.chain], Say(c)
    PROVE  RulesInv'
<1>1. /\ Building /\ Outside /\ todo = <<>>
      /\ draft' = [draft EXCEPT !.clauses = Append(@, c)] /\ todo' = Exprs(c)
      /\ rules' = rules /\ meant' = meant /\ policy' = policy
  BY DEF Say
<1>2. RulesOK'
  BY <1>1 DEF RulesInv, RulesOK
<1>3. DraftOK
  BY DEF RulesInv
<1>4. draft' = [chain |-> draft.chain, exprs |-> draft.exprs,
                clauses |-> Append(draft.clauses, c)]
  BY <1>1, <1>3 DEF DraftOK
<1>5. /\ draft'.chain = draft.chain /\ draft'.exprs = draft.exprs
      /\ draft'.clauses = Append(draft.clauses, c)
  BY <1>4
<1>6. draft.chain \in Chains /\ Len(rules[draft.chain]) < MaxRules
  BY <1>3 DEF DraftOK
<1>7. Covered(Exprs(c))
  BY <1>6, ClausesAssumption, ClauseCovered
<1>8. DraftOK'
  <2>1. draft' = [chain |-> draft'.chain, exprs |-> draft'.exprs, clauses |-> draft'.clauses]
    BY <1>4
  <2>2. /\ IsSeq(draft'.exprs) /\ IsSeq(draft'.clauses) /\ IsSeq(todo')
        /\ Len(draft'.clauses) > 0 /\ DOMAIN draft.clauses \subseteq DOMAIN draft'.clauses
    <3>1. IsSeq(draft.clauses)
      BY <1>3 DEF DraftOK
    <3>2. Len(draft.clauses) \in Nat /\ DOMAIN draft.clauses = 1..Len(draft.clauses)
      BY <3>1, SeqFacts
    <3>3. /\ IsSeq(draft'.clauses) /\ Len(draft'.clauses) = Len(draft.clauses) + 1
          /\ DOMAIN draft'.clauses = 1..(Len(draft.clauses) + 1)
      BY <1>5, <3>1, AppendFacts
    <3>4. IsSeq(draft'.exprs)
      BY <1>3, <1>5 DEF DraftOK
    <3>5. IsSeq(todo')
      BY <1>1, <1>7 DEF Covered, CoveredAfter
    <3>6. Len(draft'.clauses) > 0
      BY <3>2, <3>3
    <3>7. DOMAIN draft.clauses \subseteq DOMAIN draft'.clauses
      BY <3>2, <3>3
    <3> QED BY <3>3, <3>4, <3>5, <3>6, <3>7
  <2>3. draft'.chain \in Chains /\ Len(rules'[draft'.chain]) < MaxRules
    BY <1>1, <1>5, <1>6
  <2>4. \A i \in DOMAIN draft'.exprs : draft'.exprs[i].of \in DOMAIN draft'.clauses
    BY <1>3, <1>5, <2>2 DEF DraftOK
  <2>5. Covered(Raws(draft'.exprs) \o todo')
    <3>1. IsSeq(draft.exprs) /\ Covered(Raws(draft.exprs) \o <<>>)
      BY <1>1, <1>3 DEF DraftOK
    <3>2. Covered(Raws(draft.exprs))
      BY <3>1, RawsFacts, EmptyAtEnd
    <3>3. Covered(Raws(draft.exprs) \o Exprs(c))
      BY <1>7, <3>2, BehindGuard
    <3> QED BY <1>1, <1>5, <3>3
  <2> QED BY <2>1, <2>2, <2>3, <2>4, <2>5 DEF DraftOK
<1> QED BY <1>1, <1>2, <1>8, OutsideStays DEF RulesInv

(* An expression moves from what is to be added to what has been. *)
LEMMA AddExprKeeps == ASSUME RulesInv, AddExpr PROVE RulesInv'
<1> DEFINE x == [of |-> Len(draft.clauses), raw |-> Head(todo)]
<1>1. /\ Building /\ Outside /\ todo # <<>>
      /\ draft' = [draft EXCEPT !.exprs = Append(@, x)] /\ todo' = Tail(todo)
      /\ rules' = rules /\ meant' = meant /\ policy' = policy
  BY DEF AddExpr
<1>2. RulesOK'
  BY <1>1 DEF RulesInv, RulesOK
<1>3. DraftOK
  BY DEF RulesInv
<1>4. draft' = [chain |-> draft.chain, exprs |-> Append(draft.exprs, x),
                clauses |-> draft.clauses]
  BY <1>1, <1>3 DEF DraftOK
<1>5. /\ draft'.chain = draft.chain /\ draft'.exprs = Append(draft.exprs, x)
      /\ draft'.clauses = draft.clauses
  BY <1>4
<1>6. x.of = Len(draft.clauses) /\ x.raw = Head(todo)
  OBVIOUS
<1> HIDE DEF x
<1>7. IsSeq(draft.exprs) /\ IsSeq(draft.clauses) /\ IsSeq(todo) /\ Len(draft.clauses) > 0
  BY <1>1, <1>3 DEF DraftOK
<1>8. draft.chain \in Chains /\ Len(rules[draft.chain]) < MaxRules
  <2>1. draft # NoDraft
    BY <1>7, EmptyIsSeq DEF NoDraft
  <2> QED BY <1>3, <2>1 DEF DraftOK
<1>9. DraftOK'
  <2>1. draft' = [chain |-> draft'.chain, exprs |-> draft'.exprs, clauses |-> draft'.clauses]
    BY <1>4
  <2>2. IsSeq(draft'.exprs) /\ IsSeq(draft'.clauses) /\ IsSeq(todo')
    BY <1>1, <1>5, <1>7, AppendFacts, TailFacts
  <2>3. draft'.chain \in Chains /\ Len(rules'[draft'.chain]) < MaxRules
    BY <1>1, <1>5, <1>8
  <2>4. Len(draft'.clauses) > 0
    BY <1>5, <1>7
  <2>5. ASSUME NEW i \in DOMAIN draft'.exprs
        PROVE  draft'.exprs[i].of \in DOMAIN draft'.clauses
    <3>1. /\ DOMAIN draft.exprs = 1..Len(draft.exprs) /\ Len(draft.exprs) \in Nat
          /\ DOMAIN draft.clauses = 1..Len(draft.clauses) /\ Len(draft.clauses) \in Nat
      BY <1>7, SeqFacts
    <3>2. /\ DOMAIN draft'.exprs = 1..(Len(draft.exprs) + 1)
          /\ \A j \in DOMAIN draft.exprs : draft'.exprs[j] = draft.exprs[j]
          /\ draft'.exprs[Len(draft.exprs) + 1] = x
      BY <1>5, <1>7, AppendFacts
    <3>3. i \in DOMAIN draft.exprs \/ i = Len(draft.exprs) + 1
      BY <3>1, <3>2
    <3>4. CASE i \in DOMAIN draft.exprs
      BY <1>3, <1>5, <3>2, <3>4 DEF DraftOK
    <3>5. CASE i = Len(draft.exprs) + 1
      <4>1. Len(draft.clauses) \in DOMAIN draft.clauses
        BY <1>7, <3>1
      <4> QED BY <1>5, <1>6, <3>2, <3>5, <4>1
    <3> QED BY <3>3, <3>4, <3>5
  <2>6. Covered(Raws(draft'.exprs) \o todo')
    <3>1. Raws(draft'.exprs) = Append(Raws(draft.exprs), Head(todo))
      BY <1>5, <1>6, <1>7, RawsAppend
    <3>2. IsSeq(Raws(draft.exprs))
      BY <1>7, RawsFacts
    <3>3. Append(Raws(draft.exprs), Head(todo)) \o Tail(todo) = Raws(draft.exprs) \o todo
      BY <1>1, <1>7, <3>2, HeadMoves
    <3>4. Covered(Raws(draft.exprs) \o todo)
      BY <1>3 DEF DraftOK
    <3> QED BY <1>1, <3>1, <3>3, <3>4
  <2> QED BY <2>1, <2>2, <2>3, <2>4, <2>5, <2>6 DEF DraftOK
<1> QED BY <1>1, <1>2, <1>9, OutsideStays DEF RulesInv

LEMMA AddRuleKeeps == ASSUME RulesInv, AddRule PROVE RulesInv'
<1> DEFINE c == draft.chain
<1>1. /\ Building /\ Outside /\ draft # NoDraft /\ todo = <<>>
      /\ rules' = [rules EXCEPT ![c] = Append(@, draft.exprs)]
      /\ meant' = [meant EXCEPT ![c] = Append(@, draft.clauses)]
      /\ draft' = NoDraft /\ policy' = policy /\ todo' = todo
  BY DEF AddRule
<1>2. DraftOK /\ RulesOK
  BY DEF RulesInv
<1>3. /\ c \in Chains /\ Len(rules[c]) < MaxRules
      /\ IsSeq(draft.exprs)
      /\ \A i \in DOMAIN draft.exprs : draft.exprs[i].of \in DOMAIN draft.clauses
  BY <1>1, <1>2 DEF DraftOK
<1>4. Covered(Raws(draft.exprs))
  <2>1. Covered(Raws(draft.exprs) \o <<>>)
    BY <1>1, <1>2 DEF DraftOK
  <2> QED BY <1>3, <2>1, RawsFacts, EmptyAtEnd
<1> HIDE DEF c
<1>5. GoodChain(Append(rules[c], draft.exprs), Append(meant[c], draft.clauses))
  <2> DEFINE R == rules[c]
             M == meant[c]
             S == Append(R, draft.exprs)
             N == Append(M, draft.clauses)
             n == Len(R)
  <2>1. GoodChain(R, M)
    BY <1>2, <1>3 DEF RulesOK
  <2>2. IsSeq(R) /\ IsSeq(M) /\ Len(M) = n
    BY <2>1 DEF GoodChain
  <2>3. n \in Nat /\ DOMAIN R = 1..n /\ DOMAIN M = 1..n
    BY <2>2, SeqFacts
  <2>4. /\ IsSeq(S) /\ Len(S) = n + 1 /\ DOMAIN S = 1..(n + 1)
        /\ \A i \in DOMAIN R : S[i] = R[i]
        /\ S[n + 1] = draft.exprs
    BY <2>2, AppendFacts
  <2>5. /\ IsSeq(N) /\ Len(N) = n + 1 /\ DOMAIN N = 1..(n + 1)
        /\ \A i \in DOMAIN M : N[i] = M[i]
        /\ N[n + 1] = draft.clauses
    BY <2>2, AppendFacts
  <2>6. n + 1 <= MaxRules
    BY <1>3, <2>3, PacketsAssumption
  <2> HIDE DEF R, M, S, N, n
  <2>7. ASSUME NEW r \in 1..(n + 1)
        PROVE  /\ IsSeq(S[r]) /\ Covered(Raws(S[r]))
               /\ \A i \in DOMAIN S[r] : S[r][i].of \in DOMAIN N[r]
    <3>1. r \in 1..n \/ r = n + 1
      BY <2>3
    <3>2. CASE r \in 1..n
      BY <2>1, <2>3, <2>4, <2>5, <3>2 DEF GoodChain
    <3>3. CASE r = n + 1
      BY <1>3, <1>4, <2>4, <2>5, <3>3
    <3> QED BY <3>1, <3>2, <3>3
  <2>8. GoodChain(S, N)
    BY <2>4, <2>5, <2>6, <2>7 DEF GoodChain
  <2> QED BY <2>8 DEF R, M, S, N
<1>6. RulesOK'
  <2>1. DOMAIN rules' = Chains /\ DOMAIN meant' = Chains
    BY <1>1, <1>2 DEF RulesOK
  <2>2. ASSUME NEW ch \in Chains PROVE GoodChain(rules'[ch], meant'[ch])
    <3>1. CASE ch = c
      BY <1>1, <1>2, <1>3, <1>5, <3>1 DEF RulesOK
    <3>2. CASE ch # c
      <4>1. rules'[ch] = rules[ch] /\ meant'[ch] = meant[ch]
        BY <1>1, <1>2, <3>2 DEF RulesOK
      <4> QED BY <1>2, <4>1 DEF RulesOK
    <3> QED BY <3>1, <3>2
  <2> QED BY <1>1, <1>2, <2>1, <2>2 DEF RulesOK
<1>7. DraftOK'
  <2>1. draft'.exprs = <<>> /\ draft'.clauses = <<>> /\ todo' = <<>>
    BY <1>1 DEF NoDraft
  <2>2. draft' = [chain |-> draft'.chain, exprs |-> draft'.exprs, clauses |-> draft'.clauses]
    BY <1>1 DEF NoDraft
  <2>3. Covered(Raws(draft'.exprs) \o todo')
    BY <2>1, RawsEmpty, EmptyCovered
  <2> QED BY <1>1, <2>1, <2>2, <2>3, EmptyIsSeq DEF DraftOK
<1> QED BY <1>1, <1>6, <1>7, OutsideStays DEF RulesInv

(* A packet arrives. *)
LEMMA ArriveKeeps ==
    ASSUME RulesInv, NEW p \in Arriving, NEW junk \in Junk, Arrive(p, junk)
    PROVE  RulesInv'
<1>1. /\ Building /\ packet' = p /\ effects' = [effects EXCEPT !.mark = InHostOrder(p.mark)]
      /\ regs' = [i \in DOMAIN regs |-> junk]
      /\ UNCHANGED program /\ walk' = walk /\ written' = written
  BY DEF Arrive
<1>2. MachineOK
  BY DEF RulesInv
<1>3. GoodEffects(effects)'
  <2>1. InHostOrder(p.mark) \in [1..4 -> Octet]
    BY PacketsAssumption, MarkInHostOrder DEF IsPacket
  <2>2. effects' = [counted |-> effects.counted, mark |-> InHostOrder(p.mark),
                    proxied |-> effects.proxied]
    BY <1>1, <1>2 DEF MachineOK, GoodEffects
  <2> QED BY <1>2, <2>1, <2>2 DEF MachineOK, GoodEffects
<1>4. MachineOK'
  <2>1. regs' \in [0..(FileSize - 1) -> Octet]
    BY <1>1, <1>2, PacketsAssumption DEF MachineOK
  <2> QED BY <1>1, <1>2, <1>3, <2>1 DEF MachineOK
<1>5. WalkOK'
  <2>1. walk = Enter(Base) /\ written = {} /\ GoodWalk(walk)
    BY <1>1 DEF RulesInv, WalkOK, Building
  <2>2. walk'.at.step = 1
    BY <1>1, <2>1, StartPlace, PacketsAssumption DEF Enter
  <2>3. Reached(walk, written)'
    BY <2>2, BeforeFirst DEF Reached
  <2> QED BY <1>1, <2>1, <2>3 DEF WalkOK
<1> QED BY <1>1, <1>4, <1>5, ProgramStays DEF RulesInv

----------------------------------------------------------------------------
(* The theorems.                                                           *)

LEMMA NextInvariant == RulesInv /\ [Next]_vars => RulesInv'
<1> SUFFICES ASSUME RulesInv, [Next]_vars PROVE RulesInv'
  OBVIOUS
<1>1. CASE \E v \in {V("accept", "none"), V("drop", "none")} : SetPolicy(v)
  <2>1. PICK v \in {V("accept", "none"), V("drop", "none")} : SetPolicy(v)
    BY <1>1
  <2>2. v.code # "undecided"
    BY DEF V
  <2> QED BY <2>1, <2>2, SetPolicyKeeps
<1>2. CASE \E ch \in Chains : NewRule(ch)
  BY <1>2, NewRuleKeeps
<1>3. CASE draft # NoDraft /\ \E c \in Clauses[draft.chain] : Say(c)
  BY <1>3, SayKeeps
<1>4. CASE AddExpr
  BY <1>4, AddExprKeeps
<1>5. CASE AddRule
  BY <1>5, AddRuleKeeps
<1>6. CASE \E p \in Arriving, junk \in Junk : Arrive(p, junk)
  BY <1>6, ArriveKeeps
<1>7. CASE LoadMeta \/ LoadPayload \/ LoadImmediate \/ LoadNumber \/ MaskBytes \/ FindData
  BY <1>7, LoadMetaKeeps, LoadPayloadKeeps, LoadImmediateKeeps, LoadNumberKeeps,
     MaskBytesKeeps, FindDataKeeps
<1>8. CASE NoPayload \/ Compare \/ FindKey \/ FindNothing
  BY <1>8, TestsKeep
<1>9. CASE FindVerdict \/ SetMark \/ Count \/ Issue \/ Reject \/ Translate \/ Redirect
  BY <1>9, FindVerdictKeeps, SetMarkKeeps, CountKeeps, IssueKeeps, RejectKeeps,
     TranslateKeeps, RedirectKeeps
<1>10. CASE EndOfRule \/ EndOfChain
  BY <1>10, EndsKeep
<1>11. CASE UNCHANGED vars
  <2>1. /\ UNCHANGED program /\ packet' = packet /\ walk' = walk /\ effects' = effects
        /\ regs' = regs /\ written' = written
    BY <1>11 DEF vars
  <2>2. rules' = rules
    BY <2>1 DEF program
  <2>3. MachineOK' /\ WalkOK'
    BY <2>1, <2>2 DEF RulesInv, MachineOK, WalkOK, Reached
  <2> QED BY <2>1, <2>3, ProgramStays DEF RulesInv
<1> QED BY <1>1, <1>2, <1>3, <1>4, <1>5, <1>6, <1>7, <1>8, <1>9, <1>10, <1>11 DEF Next, Evaluate

(***************************************************************************)
(* The invariant: every rule, and every rule in the making together with   *)
(* what is still to be added to it, reads only what it has written, and a  *)
(* packet in front of an expression finds it written (rule.rs, add_expr).  *)
(***************************************************************************)
THEOREM RulesInvariant == Spec => []RulesInv
BY InitInvariant, NextInvariant, PTL DEF Spec

(***************************************************************************)
(* The registers hold octets, the packet is at a place that its chains     *)
(* have, and every expression of a rule belongs to one of its clauses.     *)
(***************************************************************************)
THEOREM RulesTypeCorrect == Spec => []TypeOK
<1>1. RulesInv => TypeOK
  <2> SUFFICES ASSUME RulesInv PROVE TypeOK
    OBVIOUS
  <2>1. ASSUME NEW ch \in Chains
        PROVE  /\ Len(rules[ch]) = Len(meant[ch])
               /\ \A r \in DOMAIN rules[ch] : \A i \in DOMAIN rules[ch][r] :
                     rules[ch][r][i].of \in DOMAIN meant[ch][r]
    BY DEF RulesInv, RulesOK, GoodChain
  <2>2. \A i \in DOMAIN walk.stack : walk.stack[i] \in Place
    BY DEF RulesInv, WalkOK, GoodWalk, Return
  <2> QED BY <2>1, <2>2 DEF TypeOK, RulesInv, RulesOK, WalkOK, GoodWalk, MachineOK, GoodEffects
<1> QED BY <1>1, RulesInvariant, PTL

(***************************************************************************)
(* No expression reads bytes of the registers that its own rule has not    *)
(* written, for any clauses in the crate's types, any packets, any number  *)
(* of rules (expr/mod.rs, Register; expr/payload.rs, expr/lookup.rs).      *)
(***************************************************************************)
THEOREM RegistersAreWritten == Spec => []ReadsAreWritten
<1>1. RulesInv => ReadsAreWritten
  BY AtStepFacts DEF ReadsAreWritten, AtStep
<1> QED BY <1>1, RulesInvariant, PTL
=============================================================================
