--------------------------- MODULE SetKeys_proofs ---------------------------
(***************************************************************************)
(* A set answers every key as the ranges asked for say, whatever the size  *)
(* of a byte, the key type, the kind and the data.                         *)
(***************************************************************************)
EXTENDS SetKeys, SequenceTheorems, WellFoundedInduction, TLAPS

----------------------------------------------------------------------------
(* The order of byte strings is total, and increment_be is its successor.  *)

(* A set of positions that is not empty has a least element. *)
LEMMA LeastPosition ==
    ASSUME NEW S, S \subseteq Nat, S # {}
    PROVE  \E i \in S : \A j \in S : ~ (j < i)
<1>1. PICK i \in S : \A j \in S : ~ (<<j, i>> \in OpToRel(<, Nat))
  BY NatLessThanWellFounded, WFMin
<1>2. \A j \in S : ~ (j < i)
  BY <1>1 DEF OpToRel
<1> QED BY <1>2

(* A set of positions of a string that is not empty has a greatest element. *)
LEMMA GreatestPosition ==
    ASSUME NEW n \in Nat, NEW S, S \subseteq 1..n, S # {}
    PROVE  \E i \in S : \A j \in S : j <= i
<1> DEFINE M == {m \in 0..n : n - m \in S}
<1>1. M \subseteq Nat /\ M # {}
  <2>1. PICK i \in S : TRUE
    OBVIOUS
  <2>2. n - i \in 0..n /\ n - (n - i) = i
    BY <2>1
  <2>3. n - i \in M
    BY <2>1, <2>2
  <2>4. M \subseteq Nat
    OBVIOUS
  <2> HIDE DEF M
  <2> QED BY <2>3, <2>4
<1>2. PICK m \in M : \A l \in M : ~ (l < m)
  <2> HIDE DEF M
  <2> QED BY <1>1, LeastPosition
<1>3. n - m \in S /\ m \in 0..n
  OBVIOUS
<1>4. ASSUME NEW j \in S PROVE j <= n - m
  <2>1. j \in 1..n /\ n - j \in 0..n /\ n - (n - j) = j
    OBVIOUS
  <2>2. n - j \in M
    BY <2>1
  <2>3. ~ (n - j < m)
    BY <1>2, <2>2
  <2> QED BY <2>1, <2>3, <1>3
<1> QED BY <1>3, <1>4

LEMMA BytesLen ==
    ASSUME NEW n \in Nat, NEW b \in Bytes(n)
    PROVE  /\ b \in Seq(Byte) /\ Len(b) = n
           /\ \A i \in 1..n : b[i] \in Byte /\ b[i] \in Int
BY BaseAssumption DEF Bytes, Byte

(* Strings are equal if all their bytes are. *)
LEMMA BytesEqual ==
    ASSUME NEW n \in Nat, NEW a \in Bytes(n), NEW b \in Bytes(n),
           \A i \in 1..n : a[i] = b[i]
    PROVE  a = b
BY DEF Bytes

(* Two strings that differ are ordered by the first byte in which they do. *)
LEMMA FirstDifference ==
    ASSUME NEW n \in Nat, NEW a \in Bytes(n), NEW b \in Bytes(n), a # b
    PROVE  \E i \in 1..n : a[i] # b[i] /\ \A j \in 1..(i - 1) : a[j] = b[j]
<1> DEFINE D == {i \in 1..n : a[i] # b[i]}
<1>1. D \subseteq Nat /\ D # {}
  BY BytesEqual
<1>2. PICK i \in D : \A j \in D : ~ (j < i)
  <2> HIDE DEF D
  <2> QED BY <1>1, LeastPosition
<1>3. ASSUME NEW j \in 1..(i - 1) PROVE a[j] = b[j]
  <2>1. j \in 1..n /\ j < i
    OBVIOUS
  <2> QED BY <2>1, <1>2
<1> QED BY <1>2, <1>3

(* Of two strings one is the other or precedes it. *)
LEMMA OrderIsTotal ==
    ASSUME NEW n \in Nat, NEW a \in Bytes(n), NEW b \in Bytes(n)
    PROVE  AtMost(a, b) \/ Precedes(b, a)
<1>1. CASE a = b
  BY <1>1 DEF AtMost
<1>2. CASE a # b
  <2>1. PICK i \in 1..n : a[i] # b[i] /\ \A j \in 1..(i - 1) : a[j] = b[j]
    BY <1>2, FirstDifference
  <2>2. Len(a) = n /\ Len(b) = n /\ a[i] \in Int /\ b[i] \in Int
    BY BytesLen
  <2>3. a[i] < b[i] \/ b[i] < a[i]
    BY <2>1, <2>2
  <2> QED BY <2>1, <2>2, <2>3 DEF AtMost, Precedes
<1> QED BY <1>1, <1>2

(* No string precedes itself, nor one that precedes it. *)
LEMMA OrderIsStrict ==
    ASSUME NEW n \in Nat, NEW a \in Bytes(n), NEW b \in Bytes(n), Precedes(a, b)
    PROVE  a # b /\ ~ Precedes(b, a)
<1>1. /\ Len(a) = n /\ Len(b) = n
      /\ \A i \in 1..n : a[i] \in Int /\ b[i] \in Int
  BY BytesLen
<1>2. PICK i \in 1..n : a[i] < b[i] /\ \A j \in 1..(i - 1) : a[j] = b[j]
  BY <1>1 DEF Precedes
<1>3. a # b
  BY <1>1, <1>2
<1>4. ASSUME NEW l \in 1..n, b[l] < a[l], \A j \in 1..(l - 1) : b[j] = a[j]
      PROVE  FALSE
  <2>1. a[i] \in Int /\ b[i] \in Int /\ a[l] \in Int /\ b[l] \in Int
    BY <1>1
  <2>2. CASE l < i
    <3>1. l \in 1..(i - 1)
      BY <2>2
    <3> QED BY <3>1, <1>2, <1>4, <2>1
  <2>3. CASE i < l
    <3>1. i \in 1..(l - 1)
      BY <2>3
    <3> QED BY <3>1, <1>2, <1>4, <2>1
  <2>4. CASE i = l
    BY <2>4, <1>2, <1>4, <2>1
  <2> QED BY <2>2, <2>3, <2>4
<1> QED BY <1>1, <1>3, <1>4 DEF Precedes

LEMMA OrderIsTransitive ==
    ASSUME NEW n \in Nat, NEW a \in Bytes(n), NEW b \in Bytes(n), NEW c \in Bytes(n),
           Precedes(a, b), Precedes(b, c)
    PROVE  Precedes(a, c)
<1>1. /\ Len(a) = n /\ Len(b) = n
      /\ \A i \in 1..n : a[i] \in Int /\ b[i] \in Int /\ c[i] \in Int
  BY BytesLen
<1>2. PICK i \in 1..n : a[i] < b[i] /\ \A j \in 1..(i - 1) : a[j] = b[j]
  BY <1>1 DEF Precedes
<1>3. PICK l \in 1..n : b[l] < c[l] /\ \A j \in 1..(l - 1) : b[j] = c[j]
  BY <1>1 DEF Precedes
<1>4. \E m \in 1..n : a[m] < c[m] /\ \A j \in 1..(m - 1) : a[j] = c[j]
  <2>1. CASE l < i
    <3>1. l \in 1..(i - 1)
      BY <2>1
    <3>2. a[l] < c[l]
      BY <3>1, <1>1, <1>2, <1>3
    <3>3. ASSUME NEW j \in 1..(l - 1) PROVE a[j] = c[j]
      <4>1. j \in 1..(i - 1)
        BY <2>1
      <4> QED BY <4>1, <1>2, <1>3
    <3> QED BY <3>2, <3>3
  <2>2. CASE i < l
    <3>1. i \in 1..(l - 1)
      BY <2>2
    <3>2. a[i] < c[i]
      BY <3>1, <1>1, <1>2, <1>3
    <3>3. ASSUME NEW j \in 1..(i - 1) PROVE a[j] = c[j]
      <4>1. j \in 1..(l - 1)
        BY <2>2
      <4> QED BY <4>1, <1>2, <1>3
    <3> QED BY <3>2, <3>3
  <2>3. CASE i = l
    <3>1. a[i] < c[i]
      BY <2>3, <1>1, <1>2, <1>3
    <3> QED BY <2>3, <3>1, <1>2, <1>3
  <2> QED BY <2>1, <2>2, <2>3
<1> QED BY <1>1, <1>4 DEF Precedes

(* AtMost and Precedes chain, and exclude each other in turn. *)
LEMMA OrderChains ==
    ASSUME NEW n \in Nat, NEW a \in Bytes(n), NEW b \in Bytes(n), NEW c \in Bytes(n)
    PROVE  /\ AtMost(a, b) /\ AtMost(b, c) => AtMost(a, c)
           /\ Precedes(a, b) /\ AtMost(b, c) => Precedes(a, c)
           /\ AtMost(a, b) => ~ Precedes(b, a)
           /\ AtMost(a, b) /\ AtMost(b, a) => a = b
<1>1. Precedes(a, b) /\ Precedes(b, c) => Precedes(a, c)
  BY OrderIsTransitive
<1>2. Precedes(a, b) => ~ Precedes(b, a)
  BY OrderIsStrict
<1>3. ~ Precedes(a, a)
  BY OrderIsStrict
<1> QED BY <1>1, <1>2, <1>3 DEF AtMost

----------------------------------------------------------------------------
(* increment_be                                                            *)

LEMMA WrappingAddCases ==
    ASSUME NEW x \in Byte
    PROVE  WrappingAdd(x) = IF x = Base - 1 THEN 0 ELSE x + 1
<1>1. Base \in Nat /\ x \in Nat /\ 0 < Base /\ x + 1 <= Base
  BY BaseAssumption DEF Byte
<1>2. CASE x = Base - 1
  BY <1>1, <1>2 DEF WrappingAdd
<1>3. CASE x + 1 < Base
  BY <1>1, <1>3 DEF WrappingAdd
<1> QED BY <1>1, <1>2, <1>3

(***************************************************************************)
(* The byte that takes the carry: it does not wrap, those behind it do.    *)
(***************************************************************************)
TakesCarry(b, n, p) ==
    /\ b[p] < Base - 1
    /\ \A i \in 1..n : i > p => b[i] = Base - 1
    /\ \A i \in 1..n : Reaches(b, i) <=> p <= i

LEMMA Carry ==
    ASSUME NEW n \in Nat, NEW b \in Bytes(n), ~ Reaches(b, 0)
    PROVE  \E p \in 1..n : TakesCarry(b, n, p)
<1> DEFINE S == {i \in 1..n : WrappingAdd(b[i]) # 0}
<1>1. Len(b) = n /\ \A i \in 1..n : b[i] \in Byte
  BY BytesLen
<1>2. S \subseteq 1..n /\ S # {}
  BY <1>1 DEF Reaches
<1>3. PICK p \in S : \A j \in S : j <= p
  <2> HIDE DEF S
  <2> QED BY <1>2, GreatestPosition
<1>4. p \in 1..n /\ b[p] < Base - 1
  <2>1. b[p] \in Byte /\ WrappingAdd(b[p]) # 0
    BY <1>1
  <2> QED BY <2>1, WrappingAddCases, BaseAssumption DEF Byte
<1>5. ASSUME NEW i \in 1..n, i > p PROVE WrappingAdd(b[i]) = 0
  BY <1>3, <1>4, <1>5
<1>6. ASSUME NEW i \in 1..n, i > p PROVE b[i] = Base - 1
  <2>1. b[i] \in Byte /\ b[i] + 1 # 0
    BY <1>1, BaseAssumption DEF Byte
  <2> QED BY <2>1, <1>5, <1>6, WrappingAddCases
<1>7. ASSUME NEW i \in 1..n PROVE Reaches(b, i) <=> p <= i
  <2>1. CASE p <= i
    <3>1. ASSUME NEW j \in (i + 1)..n PROVE j \in 1..n /\ j > p
      BY <2>1, <1>4
    <3> QED BY <3>1, <1>5, <1>1, <2>1 DEF Reaches
  <2>2. CASE i < p
    <3>1. p \in (i + 1)..n
      BY <2>2, <1>4
    <3> QED BY <3>1, <1>1, <1>3, <1>4, <2>2 DEF Reaches
  <2> QED BY <2>1, <2>2, <1>4
<1> QED BY <1>4, <1>6, <1>7 DEF TakesCarry

LEMMA IncrementType ==
    ASSUME NEW n \in Nat, NEW b \in Bytes(n), IncrementBe(b) # None
    PROVE  IncrementBe(b) \in Bytes(n)
<1>1. Len(b) = n /\ \A i \in 1..n : b[i] \in Byte
  BY BytesLen
<1>2. \A x \in Byte : WrappingAdd(x) \in Byte
  BY WrappingAddCases, BaseAssumption DEF Byte
<1> QED BY <1>1, <1>2 DEF IncrementBe, Bytes

(***************************************************************************)
(* increment_be(b) is the least string greater than b: those before it are *)
(* those up to b.  If it is None, b is the greatest string.                *)
(***************************************************************************)
THEOREM IncrementIsSuccessor ==
    ASSUME NEW n \in Nat, NEW b \in Bytes(n), NEW c \in Bytes(n)
    PROVE  IF IncrementBe(b) = None
           THEN AtMost(c, b)
           ELSE AtMost(c, b) <=> Precedes(c, IncrementBe(b))
<1>1. /\ Len(b) = n /\ Len(c) = n /\ Base \in Nat
      /\ \A i \in 1..n : /\ b[i] \in Int /\ 0 <= b[i] /\ b[i] <= Base - 1
                         /\ c[i] \in Int /\ 0 <= c[i] /\ c[i] <= Base - 1
                         /\ b[i] \in Byte
  BY BytesLen, BaseAssumption DEF Byte
<1>2. CASE Reaches(b, 0)
  <2>1. IncrementBe(b) = None
    BY <1>2 DEF IncrementBe
  <2>2. ASSUME NEW i \in 1..n PROVE b[i] = Base - 1
    <3>1. WrappingAdd(b[i]) = 0 /\ b[i] + 1 # 0 /\ b[i] \in Byte
      BY <1>1, <1>2 DEF Reaches
    <3> QED BY <3>1, WrappingAddCases
  <2>3. CASE c = b
    BY <2>1, <2>3 DEF AtMost
  <2>4. CASE c # b
    <3>1. PICK i \in 1..n : c[i] # b[i] /\ \A j \in 1..(i - 1) : c[j] = b[j]
      BY <2>4, FirstDifference
    <3>2. c[i] < b[i]
      BY <3>1, <2>2, <1>1
    <3> QED BY <3>1, <3>2, <1>1, <2>1 DEF AtMost, Precedes
  <2> QED BY <2>3, <2>4
<1>3. CASE ~ Reaches(b, 0)
  <2>0. PICK p \in 1..n : TakesCarry(b, n, p)
    BY <1>3, Carry
  <2>1. /\ b[p] < Base - 1
        /\ \A i \in 1..n : i > p => b[i] = Base - 1
        /\ \A i \in 1..n : Reaches(b, i) <=> p <= i
    BY <2>0 DEF TakesCarry
  <2> DEFINE N == IncrementBe(b)
  <2>2. N = [i \in 1..n |-> IF Reaches(b, i) THEN WrappingAdd(b[i]) ELSE b[i]]
    BY <1>1, <1>3 DEF IncrementBe
  <2>3. /\ \A i \in 1..n : i < p => N[i] = b[i]
        /\ N[p] = b[p] + 1
        /\ \A i \in 1..n : i > p => N[i] = 0
    <3>1. ASSUME NEW i \in 1..n
          PROVE  N[i] = IF p <= i THEN WrappingAdd(b[i]) ELSE b[i]
      BY <2>1, <2>2
    <3>2. WrappingAdd(b[p]) = b[p] + 1
      BY <1>1, <2>1, WrappingAddCases
    <3>3. ASSUME NEW i \in 1..n, i > p PROVE WrappingAdd(b[i]) = 0
      BY <1>1, <2>1, <3>3, WrappingAddCases
    <3> HIDE DEF N
    <3> QED BY <3>1, <3>2, <3>3
  <2>4. N # None
    <3>1. DOMAIN N = 1..n /\ DOMAIN None = {}
      BY <2>2 DEF None
    <3> QED BY <3>1, <2>1
  <2> HIDE DEF N
  <2>5. ASSUME AtMost(c, b) PROVE Precedes(c, N)
    <3>1. CASE c = b
      <4>1. c[p] < N[p] /\ \A j \in 1..(p - 1) : c[j] = N[j]
        BY <3>1, <2>3, <1>1
      <4> QED BY <4>1, <1>1 DEF Precedes
    <3>2. CASE Precedes(c, b)
      <4>1. PICK i \in 1..n : c[i] < b[i] /\ \A j \in 1..(i - 1) : c[j] = b[j]
        BY <3>2, <1>1 DEF Precedes
      <4>2. CASE i < p
        <5>1. c[i] < N[i] /\ \A j \in 1..(i - 1) : c[j] = N[j]
          BY <4>1, <4>2, <2>3
        <5> QED BY <5>1, <1>1 DEF Precedes
      <4>3. CASE i = p
        <5>1. c[p] < b[p] + 1
          BY <4>1, <4>3, <1>1
        <5>2. c[p] < N[p] /\ \A j \in 1..(p - 1) : c[j] = N[j]
          BY <5>1, <4>1, <4>3, <2>3
        <5> QED BY <5>2, <1>1 DEF Precedes
      <4>4. CASE i > p
        <5>1. \A j \in 1..p : j \in 1..(i - 1)
          BY <4>4
        <5>2. c[p] < b[p] + 1
          <6>1. c[p] = b[p]
            BY <4>1, <4>4
          <6>2. b[p] \in Int
            BY <1>1
          <6> QED BY <6>1, <6>2
        <5>3. c[p] < N[p]
          BY <5>2, <2>3
        <5>4. ASSUME NEW j \in 1..(p - 1) PROVE c[j] = N[j]
          <6>1. j \in 1..n /\ j < p /\ j \in 1..p
            OBVIOUS
          <6>2. c[j] = b[j]
            BY <5>1, <6>1, <4>1
          <6> QED BY <6>1, <6>2, <2>3
        <5> QED BY <5>3, <5>4, <1>1 DEF Precedes
      <4> QED BY <4>2, <4>3, <4>4
    <3> QED BY <2>5, <3>1, <3>2 DEF AtMost
  <2>6. ASSUME Precedes(c, N) PROVE AtMost(c, b)
    <3>1. PICK i \in 1..n : c[i] < N[i] /\ \A j \in 1..(i - 1) : c[j] = N[j]
      BY <2>6, <1>1 DEF Precedes
    <3>2. CASE i < p
      <4>1. c[i] < b[i] /\ \A j \in 1..(i - 1) : c[j] = b[j]
        BY <3>1, <3>2, <2>3
      <4> QED BY <4>1, <1>1 DEF Precedes, AtMost
    <3>3. CASE i > p
      <4>1. N[i] = 0 /\ 0 <= c[i] /\ c[i] \in Int
        BY <3>3, <2>3, <1>1
      <4> QED BY <4>1, <3>1
    <3>4. CASE i = p
      <4>a. c[p] < N[p] /\ \A j \in 1..(p - 1) : c[j] = N[j]
        BY <3>1, <3>4
      <4>b. c[p] <= b[p]
        <5>1. b[p] \in Int /\ c[p] \in Int /\ N[p] = b[p] + 1
          BY <1>1, <2>3
        <5> QED BY <5>1, <4>a
      <4>c. \A j \in 1..(p - 1) : c[j] = b[j]
        BY <4>a, <2>3
      <4>1. c[p] <= b[p] /\ \A j \in 1..(p - 1) : c[j] = b[j]
        BY <4>b, <4>c
      <4>2. CASE c = b
        BY <4>2 DEF AtMost
      <4>3. CASE c # b
        <5>1. PICK l \in 1..n : c[l] # b[l] /\ \A j \in 1..(l - 1) : c[j] = b[j]
          BY <4>3, FirstDifference
        <5>2. ~ (l < p)
          BY <5>1, <4>1
        <5>3. CASE l = p
          <6>1. c[l] < b[l]
            BY <5>1, <5>3, <4>1, <1>1
          <6> QED BY <6>1, <5>1, <1>1 DEF Precedes, AtMost
        <5>4. CASE l > p
          <6>1. c[l] < b[l]
            BY <5>1, <5>4, <2>1, <1>1
          <6> QED BY <6>1, <5>1, <1>1 DEF Precedes, AtMost
        <5> QED BY <5>2, <5>3, <5>4
      <4> QED BY <4>2, <4>3
    <3> QED BY <3>2, <3>3, <3>4
  <2>7. N = IncrementBe(b)
    BY DEF N
  <2> QED BY <2>4, <2>5, <2>6, <2>7
<1> QED BY <1>2, <1>3

----------------------------------------------------------------------------
(* The numbers byte strings stand for                                      *)

(* The last step of every induction over positions in these proofs. *)
LEMMA NoFirstException ==
    ASSUME NEW m \in Nat, NEW n \in Nat, NEW S, S \subseteq m..n,
           \A i \in S : \E j \in S : j < i
    PROVE  S = {}
<1> SUFFICES ASSUME S # {} PROVE FALSE
  OBVIOUS
<1>1. S \subseteq Nat
  OBVIOUS
<1>2. PICK i \in S : \A j \in S : ~ (j < i)
  BY <1>1, LeastPosition
<1> QED BY <1>2

(* f[i] is the number that the first i bytes stand for, up to i = n. *)
Sums(f, b, n) ==
    /\ f[0] = 0
    /\ \A i \in 1..n : f[i] = f[i - 1] * Base + b[i]

LEMMA SumsExist ==
    ASSUME NEW n \in Nat, NEW b \in Bytes(n)
    PROVE  \A m \in 0..n : \E f \in [0..m -> Nat] : Sums(f, b, m)
<1> DEFINE S == {m \in 0..n : ~ \E f \in [0..m -> Nat] : Sums(f, b, m)}
<1>1. ASSUME NEW m \in S PROVE \E l \in S : l < m
  <2>1. CASE m = 0
    <3>1. [i \in 0..0 |-> 0] \in [0..m -> Nat]
      BY <2>1
    <3>2. Sums([i \in 0..0 |-> 0], b, m)
      BY <2>1 DEF Sums
    <3> QED BY <3>1, <3>2
  <2>2. CASE m # 0
    <3>1. m \in 1..n /\ m - 1 \in 0..n /\ m - 1 < m
      BY <2>2
    <3>2. SUFFICES ASSUME m - 1 \notin S PROVE FALSE
      BY <3>1
    <3>3. PICK f \in [0..(m - 1) -> Nat] : Sums(f, b, m - 1)
      BY <3>1, <3>2
    <3>4. PICK v \in Nat : v = f[m - 1] * Base + b[m]
      <4>1. f[m - 1] \in Nat /\ Base \in Nat /\ b[m] \in Nat
        BY <3>1, BytesLen, BaseAssumption DEF Byte
      <4>2. f[m - 1] * Base \in Nat
        BY <4>1
      <4> QED BY <4>1, <4>2
    <3> DEFINE g == [i \in 0..m |-> IF i = m THEN v ELSE f[i]]
    <3>5. g \in [0..m -> Nat]
      BY <3>1
    <3>6. g[0] = 0
      BY <3>1, <3>3 DEF Sums
    <3>7. ASSUME NEW i \in 1..m PROVE g[i] = g[i - 1] * Base + b[i]
      <4>1. i - 1 \in 0..(m - 1) /\ i - 1 # m
        BY <3>1
      <4>2. g[i - 1] = f[i - 1]
        BY <4>1
      <4>3. CASE i = m
        <5>1. g[i] = v
          BY <4>3, <3>1
        <5> QED BY <4>2, <4>3, <5>1, <3>4
      <4>4. CASE i # m
        <5>1. i \in 1..(m - 1)
          BY <4>4, <3>1
        <5>2. g[i] = f[i]
          BY <5>1, <4>4
        <5> QED BY <4>2, <5>1, <5>2, <3>3 DEF Sums
      <4> QED BY <4>3, <4>4
    <3> HIDE DEF g
    <3>8. Sums(g, b, m)
      BY <3>6, <3>7 DEF Sums
    <3> QED BY <3>5, <3>8
  <2> QED BY <2>1, <2>2
<1>2. S \subseteq 0..n
  OBVIOUS
<1> HIDE DEF S
<1>3. S = {}
  BY <1>1, <1>2, NoFirstException
<1> QED BY <1>3 DEF S

(* Number is the last of these sums: its recursion has a solution. *)
LEMMA NumberIsSum ==
    ASSUME NEW n \in Nat, NEW b \in Bytes(n)
    PROVE  \E f \in [0..n -> Nat] : Sums(f, b, n) /\ Number(b) = f[n]
<1> DEFINE r[i \in 0..Len(b)] == IF i = 0 THEN 0 ELSE r[i - 1] * Base + b[i]
<1>1. Len(b) = n
  BY BytesLen
<1>2. Number(b) = r[n]
  BY <1>1 DEF Number
<1>3. PICK f \in [0..n -> Nat] : Sums(f, b, n)
  BY SumsExist
<1>4. f = [i \in 0..n |-> IF i = 0 THEN 0 ELSE f[i - 1] * Base + b[i]]
  <2> DEFINE g == [i \in 0..n |-> IF i = 0 THEN 0 ELSE f[i - 1] * Base + b[i]]
  <2>1. ASSUME NEW i \in 0..n PROVE g[i] = f[i]
    <3>1. CASE i = 0
      BY <3>1, <1>3 DEF Sums
    <3>2. CASE i # 0
      <4>1. i \in 1..n
        BY <3>2
      <4> QED BY <3>2, <4>1, <1>3 DEF Sums
    <3> QED BY <3>1, <3>2
  <2> QED BY <2>1
<1>5. r = [i \in 0..n |-> IF i = 0 THEN 0 ELSE r[i - 1] * Base + b[i]]
  BY <1>1, <1>4
<1> HIDE DEF r
<1>6. \A i \in 0..n : r[i] = IF i = 0 THEN 0 ELSE r[i - 1] * Base + b[i]
  BY <1>5
<1>7. r[0] = 0 /\ \A i \in 1..n : r[i] = r[i - 1] * Base + b[i]
  <2>1. 0 \in 0..n
    OBVIOUS
  <2>2. r[0] = 0
    BY <2>1, <1>6
  <2>3. ASSUME NEW i \in 1..n PROVE r[i] = r[i - 1] * Base + b[i]
    <3>1. i \in 0..n /\ i # 0
      OBVIOUS
    <3> QED BY <3>1, <1>6
  <2> QED BY <2>2, <2>3
<1>8. r[n] = f[n]
  <2> DEFINE S == {i \in 0..n : r[i] # f[i]}
  <2>1. ASSUME NEW i \in S PROVE \E j \in S : j < i
    <3>1. i # 0
      BY <1>3, <1>7 DEF Sums
    <3>2. i \in 1..n /\ i - 1 \in 0..n /\ i - 1 < i
      BY <3>1
    <3>3. r[i - 1] # f[i - 1]
      BY <3>2, <1>3, <1>7 DEF Sums
    <3> QED BY <3>2, <3>3
  <2>2. S \subseteq 0..n
    OBVIOUS
  <2> HIDE DEF S
  <2>3. S = {}
    BY <2>1, <2>2, NoFirstException
  <2>4. n \in 0..n
    OBVIOUS
  <2> QED BY <2>3, <2>4 DEF S
<1> QED BY <1>2, <1>3, <1>8

(* A smaller first byte is not made up for by what follows it. *)
LEMMA NextSum ==
    ASSUME NEW x \in Nat, NEW y \in Nat, x < y,
           NEW c \in Byte, NEW d \in Byte
    PROVE  x * Base + c < y * Base + d
<1>1. Base \in Nat /\ c \in Int /\ d \in Int /\ c < Base /\ 0 <= d
  BY BaseAssumption DEF Byte
<1>2. PICK k \in Nat : y = x + 1 + k
  <2>1. y - x - 1 \in Nat /\ y = x + 1 + (y - x - 1)
    OBVIOUS
  <2> QED BY <2>1
<1>3. y * Base = x * Base + Base + k * Base
  BY <1>1, <1>2
<1>4. PICK p \in Nat : p = x * Base
  BY <1>1
<1>5. PICK q \in Nat : q = k * Base
  BY <1>1, <1>2
<1>6. y * Base = p + Base + q
  BY <1>3, <1>4, <1>5
<1>7. p + c < p + Base + q + d
  BY <1>1, <1>4, <1>5
<1> QED BY <1>4, <1>6, <1>7

LEMMA NumberIncreases ==
    ASSUME NEW n \in Nat, NEW a \in Bytes(n), NEW b \in Bytes(n), Precedes(a, b)
    PROVE  Number(a) < Number(b)
<1>1. PICK f \in [0..n -> Nat] : Sums(f, a, n) /\ Number(a) = f[n]
  BY NumberIsSum
<1>2. PICK g \in [0..n -> Nat] : Sums(g, b, n) /\ Number(b) = g[n]
  BY NumberIsSum
<1>3. PICK p \in 1..n : a[p] < b[p] /\ \A j \in 1..(p - 1) : a[j] = b[j]
  BY BytesLen DEF Precedes
<1>4. f[p - 1] = g[p - 1]
  <2> DEFINE S == {i \in 0..(p - 1) : f[i] # g[i]}
  <2>1. ASSUME NEW i \in S PROVE \E j \in S : j < i
    <3>1. i # 0
      BY <1>1, <1>2 DEF Sums
    <3>2. i \in 1..(p - 1) /\ i \in 1..n /\ i - 1 \in 0..(p - 1) /\ i - 1 < i
      BY <3>1
    <3>3. f[i - 1] # g[i - 1]
      BY <3>2, <1>1, <1>2, <1>3 DEF Sums
    <3> QED BY <3>2, <3>3
  <2>2. S \subseteq 0..(p - 1) /\ p - 1 \in Nat
    OBVIOUS
  <2> HIDE DEF S
  <2>3. S = {}
    BY <2>1, <2>2, NoFirstException
  <2>4. p - 1 \in 0..(p - 1)
    OBVIOUS
  <2> QED BY <2>3, <2>4 DEF S
<1>5. f[p] < g[p]
  <2>1. p - 1 \in 0..n
    OBVIOUS
  <2>2. a[p] \in Int /\ b[p] \in Int
    BY BytesLen
  <2>3. PICK s \in Nat : s = g[p - 1] * Base
    BY <2>1, BaseAssumption
  <2>4. f[p] = s + a[p] /\ g[p] = s + b[p]
    BY <1>1, <1>2, <1>4, <2>3 DEF Sums
  <2> QED BY <1>3, <2>2, <2>4
<1>6. f[n] < g[n]
  <2> DEFINE S == {i \in p..n : ~ (f[i] < g[i])}
  <2>1. ASSUME NEW i \in S PROVE \E j \in S : j < i
    <3>1. i # p
      BY <1>5
    <3>2. i \in 1..n /\ i - 1 \in p..n /\ i - 1 \in 0..n /\ i - 1 < i
      BY <3>1
    <3>3. ~ (f[i] < g[i])
      OBVIOUS
    <3>4. f[i - 1] \in Nat /\ g[i - 1] \in Nat /\ a[i] \in Byte /\ b[i] \in Byte
      BY <3>2, BytesLen
    <3>5. f[i] = f[i - 1] * Base + a[i] /\ g[i] = g[i - 1] * Base + b[i]
      BY <3>2, <1>1, <1>2 DEF Sums
    <3>6. ~ (f[i - 1] < g[i - 1])
      BY <3>3, <3>4, <3>5, NextSum
    <3> QED BY <3>2, <3>6
  <2>2. S \subseteq p..n /\ p \in Nat
    OBVIOUS
  <2> HIDE DEF S
  <2>3. S = {}
    BY <2>1, <2>2, NoFirstException
  <2>4. n \in p..n
    OBVIOUS
  <2> QED BY <2>3, <2>4 DEF S
<1> QED BY <1>1, <1>2, <1>6

(***************************************************************************)
(* memcmp() orders keys as the numbers they stand for: the most            *)
(* significant byte first is what makes the intervals of ports and of      *)
(* addresses intervals of numbers (datatype.rs, to_be_bytes).              *)
(***************************************************************************)
LEMMA NumbersAreOrdered ==
    ASSUME NEW n \in Nat, NEW a \in Bytes(n), NEW b \in Bytes(n)
    PROVE  /\ Number(a) \in Nat
           /\ AtMost(a, b) <=> Number(a) <= Number(b)
           /\ Number(a) = Number(b) => a = b
<1>1. Number(a) \in Nat /\ Number(b) \in Nat
  <2>1. PICK f \in [0..n -> Nat] : Number(a) = f[n]
    BY NumberIsSum
  <2>2. PICK g \in [0..n -> Nat] : Number(b) = g[n]
    BY NumberIsSum
  <2>3. n \in 0..n
    OBVIOUS
  <2> QED BY <2>1, <2>2, <2>3
<1>2. CASE a = b
  BY <1>1, <1>2 DEF AtMost
<1>3. CASE Precedes(a, b)
  BY <1>1, <1>3, NumberIncreases, OrderIsStrict DEF AtMost
<1>4. CASE Precedes(b, a)
  <2>1. Number(b) < Number(a)
    BY <1>4, NumberIncreases
  <2>2. ~ AtMost(a, b)
    BY <1>4, OrderIsStrict DEF AtMost
  <2> QED BY <1>1, <2>1, <2>2
<1> QED BY <1>2, <1>3, <1>4, OrderIsTotal DEF AtMost

----------------------------------------------------------------------------
(* What the elements of a set are                                          *)

(* Element i is the start, or the end, of range r. *)
IsStart(i, r) == elems[i] = Start(r.from, r.datum)

IsEnd(i, r) ==
    /\ Interval
    /\ IncrementBe(KeyBytes(r.to)) # None
    /\ elems[i] = End(IncrementBe(KeyBytes(r.to)))

(***************************************************************************)
(* The elements are the starts and the ends of the ranges asked for, and   *)
(* a set that is no interval set holds single keys.                        *)
(***************************************************************************)
Represented ==
    /\ \A i \in 1..Len(elems) : \E a \in 1..Len(asked) :
          IsStart(i, asked[a]) \/ IsEnd(i, asked[a])
    /\ \A a \in 1..Len(asked) : \E i \in 1..Len(elems) : IsStart(i, asked[a])
    /\ Interval =>
          \A a \in 1..Len(asked) :
             IncrementBe(KeyBytes(asked[a].to)) # None =>
               \E i \in 1..Len(elems) : IsEnd(i, asked[a])
    /\ ~ Interval => \A a \in 1..Len(asked) : asked[a].from = asked[a].to

IInv == TypeOK /\ Represented

----------------------------------------------------------------------------
(* Keys and their bytes                                                    *)

LEMMA PaddedBounds ==
    ASSUME NEW n \in Nat
    PROVE  Padded(n) \in Nat /\ n <= Padded(n)
BY DEF Padded

LEMMA FieldLenType ==
    /\ FieldLens[1] \in Nat
    /\ Concat => FieldLens[2] \in Nat
    /\ DOMAIN FieldLens = 1..Len(FieldLens)
    /\ ~ Concat => Len(FieldLens) = 1
<1>1. /\ FieldLens \in Seq(Nat \ {0})
      /\ Len(FieldLens) = 1 \/ Len(FieldLens) = 2
  BY KeyTypeAssumption
<1>2. \A i \in 1..Len(FieldLens) : FieldLens[i] \in Nat \ {0}
  BY <1>1, ElementOfSeq
<1>3. DOMAIN FieldLens = 1..Len(FieldLens)
  BY <1>1
<1>4. 1 \in 1..Len(FieldLens)
  <2>1. CASE Len(FieldLens) = 1
    BY <2>1
  <2>2. CASE Len(FieldLens) = 2
    BY <2>2
  <2> QED BY <2>1, <2>2, <1>1
<1>5. Concat => 2 \in 1..Len(FieldLens)
  BY DEF Concat
<1>6. FieldLens[1] \in Nat /\ (Concat => FieldLens[2] \in Nat)
  BY <1>2, <1>4, <1>5
<1> QED BY <1>1, <1>3, <1>6 DEF Concat

LEMMA KeyLenType == KeyLen \in Nat
<1>1. CASE Concat
  <2>1. FieldLens[1] \in Nat /\ FieldLens[2] \in Nat
    BY <1>1, FieldLenType
  <2>2. Padded(FieldLens[1]) \in Nat /\ Padded(FieldLens[2]) \in Nat
    BY <2>1, PaddedBounds
  <2> QED BY <1>1, <2>2 DEF KeyLen
<1>2. CASE ~ Concat
  BY <1>2, FieldLenType DEF KeyLen
<1> QED BY <1>1, <1>2

LEMMA PadType ==
    ASSUME NEW n \in Nat, NEW b \in Bytes(n)
    PROVE  Pad(b) \in Bytes(Padded(n))
<1>1. Len(b) = n /\ \A i \in 1..n : b[i] \in Byte
  BY BytesLen
<1>2. 0 \in Byte
  BY BaseAssumption DEF Byte
<1>3. Padded(n) \in Nat
  BY PaddedBounds
<1> QED BY <1>1, <1>2, <1>3 DEF Pad, Bytes

(* The bytes of a key have the length the set announces. *)
LEMMA KeyBytesType ==
    ASSUME NEW k \in Keys
    PROVE  KeyBytes(k) \in Bytes(KeyLen)
<1>1. \A i \in DOMAIN FieldLens : k[i] \in Bytes(FieldLens[i])
  BY DEF Keys
<1>2. k[1] \in Bytes(FieldLens[1])
  BY <1>1, FieldLenType, KeyTypeAssumption
<1>3. CASE ~ Concat
  BY <1>2, <1>3 DEF KeyBytes, KeyLen
<1>4. CASE Concat
  <2>1. k[2] \in Bytes(FieldLens[2])
    BY <1>1, <1>4, FieldLenType DEF Concat
  <2> DEFINE m == Padded(FieldLens[1])
             n == Padded(FieldLens[2])
             p == Pad(k[1])
             q == Pad(k[2])
  <2>2. m \in Nat /\ n \in Nat /\ p \in Bytes(m) /\ q \in Bytes(n)
    BY <1>2, <1>4, <2>1, FieldLenType, PaddedBounds, PadType
  <2>3. KeyBytes(k) = p \o q /\ KeyLen = m + n
    BY <1>4 DEF KeyBytes, KeyLen
  <2> HIDE DEF m, n, p, q
  <2>4. /\ p \in Seq(Byte) /\ Len(p) = m /\ q \in Seq(Byte) /\ Len(q) = n
    BY <2>2, BytesLen
  <2>5. p \o q \in Seq(Byte) /\ Len(p \o q) = m + n
    BY <2>4, ConcatProperties
  <2>6. p \o q \in [1..(m + n) -> Byte]
    BY <2>5, LenProperties
  <2> QED BY <2>3, <2>6 DEF Bytes
<1> QED BY <1>3, <1>4

LEMMA StartType ==
    ASSUME NEW k \in Keys, NEW d \in Datums
    PROVE  Start(k, d) \in Elem
BY KeyBytesType DEF Start, Elem

LEMMA EndType ==
    ASSUME NEW b \in Bytes(KeyLen)
    PROVE  End(b) \in Elem
BY DEF End, Elem

----------------------------------------------------------------------------
(* Adding                                                                  *)

(* Every add appends a start, and an end if an interval has one. *)
Adds(from, to, d) ==
    /\ from \in Keys /\ to \in Keys /\ d \in Datums
    /\ ~ Interval => from = to
    /\ asked' = Append(asked, [from |-> from, to |-> to, datum |-> d])
    /\ elems' = IF Interval /\ IncrementBe(KeyBytes(to)) # None
                THEN Append(Append(elems, Start(from, d)),
                            End(IncrementBe(KeyBytes(to))))
                ELSE Append(elems, Start(from, d))

LEMMA NextAdds ==
    ASSUME Next
    PROVE  \E from, to \in Keys, d \in Datums : Adds(from, to, d)
<1>1. ASSUME NEW k \in Keys, NEW d \in Datums, AddKey(k, d)
      PROVE  Adds(k, k, d)
  BY <1>1 DEF AddKey, Asks, Adds
<1>2. ASSUME NEW from \in Keys, NEW to \in Keys, NEW d \in Datums, AddRange(from, to, d)
      PROVE  Adds(from, to, d)
  BY <1>2 DEF AddRange, Asks, Adds
<1>3. ASSUME NEW k \in Keys, NEW d \in Datums, AddExact(k, d)
      PROVE  Adds(k, k, d)
  BY <1>3, <1>2 DEF AddExact
<1> QED BY <1>1, <1>2, <1>3 DEF Next

LEMMA AddsKeepsTypes ==
    ASSUME TypeOK, NEW from, NEW to, NEW d, Adds(from, to, d)
    PROVE  TypeOK'
<1>1. from \in Keys /\ to \in Keys /\ d \in Datums
  BY DEF Adds
<1>2. [from |-> from, to |-> to, datum |-> d] \in Ask
  BY <1>1 DEF Ask
<1>3. asked' \in Seq(Ask)
  BY <1>2, AppendProperties DEF Adds, TypeOK
<1>4. Start(from, d) \in Elem
  BY <1>1, StartType
<1>5. Append(elems, Start(from, d)) \in Seq(Elem)
  BY <1>4, AppendProperties DEF TypeOK
<1>6. IncrementBe(KeyBytes(to)) # None => End(IncrementBe(KeyBytes(to))) \in Elem
  BY <1>1, KeyBytesType, KeyLenType, IncrementType, EndType
<1>7. elems' \in Seq(Elem)
  <2>1. CASE Interval /\ IncrementBe(KeyBytes(to)) # None
    BY <2>1, <1>5, <1>6, AppendProperties DEF Adds
  <2>2. CASE ~ (Interval /\ IncrementBe(KeyBytes(to)) # None)
    BY <2>2, <1>5 DEF Adds
  <2> QED BY <2>1, <2>2
<1> QED BY <1>3, <1>7 DEF TypeOK

LEMMA AddsKeepsRepresented ==
    ASSUME TypeOK, Represented, NEW from, NEW to, NEW d, Adds(from, to, d)
    PROVE  Represented'
<1> DEFINE r == [from |-> from, to |-> to, datum |-> d]
           closes == Interval /\ IncrementBe(KeyBytes(to)) # None
           s == Start(from, d)
           e == End(IncrementBe(KeyBytes(to)))
<1>0. Len(elems) \in Nat /\ Len(asked) \in Nat
  BY DEF TypeOK
<1>a. PICK m \in Nat : m = Len(elems)
  BY <1>0
<1>b. PICK n \in Nat : n = Len(asked)
  BY <1>0
<1>1. m \in Nat /\ n \in Nat
  OBVIOUS
<1>2. /\ asked' = Append(asked, r)
      /\ elems' = IF closes THEN Append(Append(elems, s), e) ELSE Append(elems, s)
      /\ ~ Interval => from = to
  BY DEF Adds
<1>3. r.from = from /\ r.to = to /\ r.datum = d
  OBVIOUS
<1> HIDE DEF r, s, e
<1>4. /\ Len(asked') = n + 1 /\ asked'[n + 1] = r
      /\ \A a \in 1..n : asked'[a] = asked[a]
  <2>1. asked \in Seq(Ask \cup {r})
    BY DEF TypeOK
  <2> QED BY <2>1, <1>2, <1>b, AppendProperties
<1>5. /\ Len(elems') = IF closes THEN m + 2 ELSE m + 1
      /\ elems'[m + 1] = s
      /\ closes => elems'[m + 2] = e
      /\ \A i \in 1..m : elems'[i] = elems[i]
  <2>1. elems \in Seq(Elem \cup {s, e})
    BY DEF TypeOK
  <2> DEFINE o == Append(elems, s)
  <2>2. /\ o \in Seq(Elem \cup {s, e}) /\ Len(o) = m + 1 /\ o[m + 1] = s
        /\ \A i \in 1..m : o[i] = elems[i]
    BY <2>1, <1>a, AppendProperties
  <2>3. CASE closes
    <3>1. elems' = Append(o, e)
      BY <2>3, <1>2
    <3> HIDE DEF o, closes
    <3> QED BY <3>1, <2>2, <2>3, <1>1, AppendProperties
  <2>4. CASE ~ closes
    <3>1. elems' = o
      BY <2>4, <1>2
    <3> HIDE DEF o, closes
    <3> QED BY <3>1, <2>2, <2>4, <1>1
  <2> QED BY <2>3, <2>4
<1>6. /\ \A a \in 1..n, i \in 1..m : IsStart(i, asked[a]) => IsStart(i, asked[a])'
      /\ \A a \in 1..n, i \in 1..m : IsEnd(i, asked[a]) => IsEnd(i, asked[a])'
  BY <1>4, <1>5 DEF IsStart, IsEnd
<1>7. IsStart(m + 1, asked[n + 1])'
  BY <1>3, <1>4, <1>5 DEF IsStart, s
<1>8. closes => IsEnd(m + 2, asked[n + 1])'
  BY <1>3, <1>4, <1>5 DEF IsEnd, e
<1>9. ASSUME NEW i \in 1..Len(elems')
      PROVE  \E a \in 1..Len(asked') : (IsStart(i, asked[a]) \/ IsEnd(i, asked[a]))'
  <2>1. CASE i \in 1..m
    <3>1. PICK a \in 1..n : IsStart(i, asked[a]) \/ IsEnd(i, asked[a])
      BY <2>1, <1>a, <1>b DEF Represented
    <3>2. a \in 1..Len(asked')
      BY <3>1, <1>1, <1>4
    <3> QED BY <2>1, <3>1, <3>2, <1>6
  <2>2. n + 1 \in 1..Len(asked')
    BY <1>1, <1>4
  <2>3. CASE i = m + 1
    BY <2>2, <2>3, <1>7
  <2>4. CASE closes /\ i = m + 2
    BY <2>2, <2>4, <1>8
  <2>5. i \in 1..m \/ i = m + 1 \/ (closes /\ i = m + 2)
    <3> HIDE DEF closes
    <3> QED BY <1>1, <1>5
  <2> QED BY <2>1, <2>3, <2>4, <2>5
<1>10. ASSUME NEW a \in 1..Len(asked')
       PROVE  \E i \in 1..Len(elems') : IsStart(i, asked[a])'
  <2>1. CASE a \in 1..n
    <3>1. PICK i \in 1..m : IsStart(i, asked[a])
      BY <2>1, <1>a, <1>b DEF Represented
    <3>2. i \in 1..Len(elems')
      BY <1>1, <1>5
    <3> QED BY <2>1, <3>1, <3>2, <1>6
  <2>2. CASE a = n + 1
    <3>1. m + 1 \in 1..Len(elems')
      BY <1>1, <1>5
    <3> QED BY <3>1, <2>2, <1>7
  <2> QED BY <2>1, <2>2, <1>1, <1>4
<1>11. ASSUME Interval, NEW a \in 1..Len(asked'),
              IncrementBe(KeyBytes(asked'[a].to)) # None
       PROVE  \E i \in 1..Len(elems') : IsEnd(i, asked[a])'
  <2>1. CASE a \in 1..n
    <3>1. PICK i \in 1..m : IsEnd(i, asked[a])
      BY <2>1, <1>4, <1>11, <1>a, <1>b DEF Represented
    <3>2. i \in 1..Len(elems')
      BY <1>1, <1>5
    <3> QED BY <2>1, <3>1, <3>2, <1>6
  <2>2. CASE a = n + 1
    <3>1. closes
      BY <2>2, <1>3, <1>4, <1>11
    <3>2. m + 2 \in 1..Len(elems')
      BY <3>1, <1>1, <1>5
    <3> QED BY <3>1, <3>2, <2>2, <1>8
  <2> QED BY <2>1, <2>2, <1>1, <1>4
<1>12. ASSUME ~ Interval, NEW a \in 1..Len(asked')
       PROVE  asked'[a].from = asked'[a].to
  <2>1. CASE a \in 1..n
    BY <2>1, <1>4, <1>12, <1>b DEF Represented
  <2>2. CASE a = n + 1
    BY <2>2, <1>2, <1>3, <1>4, <1>12
  <2> QED BY <2>1, <2>2, <1>1, <1>4
<1> QED BY <1>9, <1>10, <1>11, <1>12 DEF Represented

(***************************************************************************)
(* The inductive invariant: types, and elements that represent the ranges. *)
(***************************************************************************)
THEOREM InductiveInvariant == Spec => []IInv
<1>1. Init => IInv
  BY DEF Init, IInv, TypeOK, Represented
<1>2. IInv /\ [Next]_vars => IInv'
  <2> SUFFICES ASSUME IInv, [Next]_vars PROVE IInv'
    OBVIOUS
  <2>1. CASE Next
    BY <2>1, NextAdds, AddsKeepsTypes, AddsKeepsRepresented DEF IInv
  <2>2. CASE UNCHANGED vars
    BY <2>2 DEF vars, IInv, TypeOK, Represented, IsStart, IsEnd
  <2> QED BY <2>1, <2>2
<1> QED BY <1>1, <1>2, PTL DEF Spec

(* The elements are well formed, and their keys as long as announced. *)
THEOREM TypeCorrect == Spec => []TypeOK
<1>1. IInv => TypeOK
  BY DEF IInv
<1> QED BY <1>1, InductiveInvariant, PTL

----------------------------------------------------------------------------
(* Answers                                                                 *)

(* The bytes of the least and of the greatest key of a range. *)
First(a) == KeyBytes(asked[a].from)
Last(a) == KeyBytes(asked[a].to)

LEMMA RangeType ==
    ASSUME TypeOK, NEW a \in 1..Len(asked)
    PROVE  First(a) \in Bytes(KeyLen) /\ Last(a) \in Bytes(KeyLen)
<1>1. asked[a] \in Ask
  BY DEF TypeOK
<1>2. asked[a].from \in Keys /\ asked[a].to \in Keys
  BY <1>1 DEF Ask
<1> QED BY <1>2, KeyBytesType DEF First, Last

LEMMA StartIsNoEnd ==
    ASSUME NEW i, NEW r
    PROVE  /\ IsStart(i, r) => /\ elems[i].key = KeyBytes(r.from)
                               /\ elems[i].attrs = WriteElem(r.datum)
                               /\ ~ elems[i].end
           /\ IsEnd(i, r) => /\ elems[i].key = IncrementBe(KeyBytes(r.to))
                             /\ elems[i].end
                             /\ Interval /\ IncrementBe(KeyBytes(r.to)) # None
BY DEF IsStart, IsEnd, Start, End

(* The ranges of Disjoint, by their bytes. *)
LEMMA DisjointRanges ==
    ASSUME TypeOK, Disjoint, NEW a \in 1..Len(asked), NEW c \in 1..Len(asked)
    PROVE  /\ AtMost(First(a), Last(a))
           /\ \A b \in Bytes(KeyLen) :
                 /\ AtMost(First(a), b) /\ AtMost(b, Last(a))
                 /\ AtMost(First(c), b) /\ AtMost(b, Last(c))
                 => a = c
<1>1. DOMAIN asked = 1..Len(asked)
  BY DEF TypeOK
<1> QED BY <1>1 DEF Disjoint, InRange, First, Last

(***************************************************************************)
(* No element up to a key lies beyond the start of the range the key is    *)
(* in: no other range starts or ends there, nor does this one end there.   *)
(***************************************************************************)
LEMMA NothingCloser ==
    ASSUME IInv, Disjoint, NEW b \in Bytes(KeyLen),
           NEW a \in 1..Len(asked), AtMost(First(a), b), AtMost(b, Last(a)),
           NEW j \in 1..Len(elems), AtMost(elems[j].key, b)
    PROVE  AtMost(elems[j].key, First(a))
<1>1. TypeOK /\ KeyLen \in Nat
  BY KeyLenType DEF IInv
<1>2. PICK c \in 1..Len(asked) : IsStart(j, asked[c]) \/ IsEnd(j, asked[c])
  BY DEF IInv, Represented
<1>3. /\ First(a) \in Bytes(KeyLen) /\ Last(a) \in Bytes(KeyLen)
      /\ First(c) \in Bytes(KeyLen) /\ Last(c) \in Bytes(KeyLen)
  BY <1>1, RangeType
<1>4. AtMost(First(c), Last(c))
  BY <1>1, DisjointRanges
<1>5. CASE IsStart(j, asked[c])
  <2>1. elems[j].key = First(c)
    BY <1>5, StartIsNoEnd DEF First
  <2>2. SUFFICES ASSUME Precedes(First(a), First(c)) PROVE FALSE
    BY <1>1, <1>3, <2>1, OrderIsTotal
  <2>3. AtMost(First(a), First(c)) /\ AtMost(First(c), First(c))
    BY <2>2 DEF AtMost
  <2>4. AtMost(First(c), Last(a))
    BY <1>1, <1>3, <2>1, OrderChains
  <2>5. a = c
    BY <1>1, <1>3, <1>4, <2>3, <2>4, DisjointRanges
  <2> QED BY <1>1, <1>3, <2>2, <2>5, OrderIsStrict
<1>6. CASE IsEnd(j, asked[c])
  <2> DEFINE e == IncrementBe(Last(c))
  <2>1. elems[j].key = e /\ e # None
    BY <1>6, StartIsNoEnd DEF Last
  <2>2. e \in Bytes(KeyLen)
    BY <1>1, <1>3, <2>1, IncrementType
  <2>3. SUFFICES ASSUME Precedes(First(a), e) PROVE FALSE
    BY <1>1, <1>3, <2>1, <2>2, OrderIsTotal
  <2>4. AtMost(First(a), Last(c))
    BY <1>1, <1>3, <2>1, <2>3, IncrementIsSuccessor
  <2>5. Precedes(Last(c), e) /\ AtMost(Last(c), Last(c))
    BY <1>1, <1>3, <2>1, IncrementIsSuccessor DEF AtMost
  <2> HIDE DEF e
  <2>6. Precedes(Last(c), b)
    BY <1>1, <1>3, <2>1, <2>2, <2>5, OrderChains
  <2>7. Precedes(Last(c), Last(a))
    BY <1>1, <1>3, <2>6, OrderChains
  <2>8. AtMost(Last(c), Last(a))
    BY <2>7 DEF AtMost
  <2>9. a = c
    BY <1>1, <1>3, <1>4, <2>4, <2>5, <2>8, DisjointRanges
  <2> QED BY <1>1, <1>3, <2>7, <2>9, OrderIsStrict
<1> QED BY <1>2, <1>5, <1>6

(* The start of a range is found by the keys of the range ... *)
LEMMA KeysOfRangeFindIt ==
    ASSUME IInv, Disjoint, NEW b \in Bytes(KeyLen),
           NEW a \in 1..Len(asked), AtMost(First(a), b), AtMost(b, Last(a)),
           NEW i \in 1..Len(elems), IsStart(i, asked[a])
    PROVE  Found(i, b)
<1>1. TypeOK /\ KeyLen \in Nat /\ DOMAIN elems = 1..Len(elems)
  BY KeyLenType DEF IInv, TypeOK
<1>2. elems[i].key = First(a)
  BY StartIsNoEnd DEF First
<1>3. CASE Interval
  <2>1. \A j \in DOMAIN elems :
           AtMost(elems[j].key, b) => AtMost(elems[j].key, elems[i].key)
    BY <1>1, <1>2, NothingCloser
  <2> QED BY <1>2, <1>3, <2>1 DEF Found, Closest
<1>4. CASE ~ Interval
  <2>1. First(a) = Last(a)
    BY <1>4 DEF IInv, Represented, First, Last
  <2>2. First(a) \in Bytes(KeyLen)
    BY <1>1, RangeType
  <2>3. b = First(a)
    BY <1>1, <2>1, <2>2, OrderChains
  <2> QED BY <1>2, <1>4, <2>3 DEF Found
<1> QED BY <1>3, <1>4

(* ... and by no others: a key beyond the range finds the end of it. *)
LEMMA OthersDoNot ==
    ASSUME IInv, Disjoint, NEW b \in Bytes(KeyLen),
           NEW a \in 1..Len(asked),
           NEW i \in 1..Len(elems), IsStart(i, asked[a]), Found(i, b)
    PROVE  AtMost(First(a), b) /\ AtMost(b, Last(a))
<1>1. TypeOK /\ KeyLen \in Nat /\ DOMAIN elems = 1..Len(elems)
  BY KeyLenType DEF IInv, TypeOK
<1>2. elems[i].key = First(a)
  BY StartIsNoEnd DEF First
<1>3. First(a) \in Bytes(KeyLen) /\ Last(a) \in Bytes(KeyLen)
  BY <1>1, RangeType
<1>4. AtMost(First(a), Last(a))
  BY <1>1, DisjointRanges
<1>5. CASE ~ Interval
  <2>1. First(a) = Last(a)
    BY <1>5 DEF IInv, Represented, First, Last
  <2>2. b = First(a)
    BY <1>2, <1>5 DEF Found
  <2> QED BY <2>1, <2>2 DEF AtMost
<1>6. CASE Interval
  <2>1. AtMost(First(a), b)
    BY <1>2, <1>6 DEF Found, Closest
  <2>2. SUFFICES ASSUME ~ AtMost(b, Last(a)) PROVE FALSE
    BY <2>1
  <2> DEFINE e == IncrementBe(Last(a))
  <2>3. e # None
    BY <1>1, <1>3, <2>2, IncrementIsSuccessor
  <2>4. e \in Bytes(KeyLen)
    BY <1>1, <1>3, <2>3, IncrementType
  <2>5. ~ Precedes(b, e) /\ Precedes(First(a), e)
    BY <1>1, <1>3, <1>4, <2>2, <2>3, IncrementIsSuccessor
  <2>6. PICK j \in 1..Len(elems) : IsEnd(j, asked[a])
    BY <1>6, <2>3 DEF IInv, Represented, Last
  <2>7. elems[j].key = e
    BY <2>6, StartIsNoEnd DEF Last
  <2> HIDE DEF e
  <2>8. AtMost(e, b)
    BY <1>1, <2>4, <2>5, OrderIsTotal
  <2>9. AtMost(e, First(a))
    BY <1>1, <1>2, <1>6, <2>7, <2>8 DEF Found, Closest
  <2> QED BY <1>1, <1>3, <2>4, <2>5, <2>9, OrderChains
<1> QED BY <1>5, <1>6

(***************************************************************************)
(* If the ranges do not overlap, every key is answered as the range it is  *)
(* in says, and a key in none is not matched.                              *)
(***************************************************************************)
THEOREM EveryKeyIsAnswered == Spec => []RangesMatched
<1>1. ASSUME IInv PROVE RangesMatched
  <2> SUFFICES ASSUME Disjoint, NEW b \in Bytes(KeyLen)
               PROVE  Lookup(b) = {WriteElem(asked[a].datum) :
                                a \in {c \in DOMAIN asked : InRange(b, asked[c])}}
    BY DEF RangesMatched
  <2>1. DOMAIN elems = 1..Len(elems) /\ DOMAIN asked = 1..Len(asked)
    BY <1>1 DEF IInv, TypeOK
  <2> DEFINE W == {WriteElem(asked[a].datum) :
                     a \in {c \in DOMAIN asked : InRange(b, asked[c])}}
  <2>2. ASSUME NEW x \in Lookup(b) PROVE x \in W
    <3>1. PICK i \in 1..Len(elems) :
             ~ elems[i].end /\ Found(i, b) /\ x = elems[i].attrs
      BY <2>1 DEF Lookup
    <3>2. PICK a \in 1..Len(asked) : IsStart(i, asked[a])
      BY <1>1, <3>1, StartIsNoEnd DEF IInv, Represented
    <3>3. AtMost(First(a), b) /\ AtMost(b, Last(a))
      BY <1>1, <3>1, <3>2, OthersDoNot
    <3>4. InRange(b, asked[a])
      BY <3>3 DEF InRange, First, Last
    <3>5. x = WriteElem(asked[a].datum)
      BY <3>1, <3>2, StartIsNoEnd
    <3> QED BY <2>1, <3>4, <3>5
  <2>3. ASSUME NEW x \in W PROVE x \in Lookup(b)
    <3>1. PICK a \in 1..Len(asked) :
             InRange(b, asked[a]) /\ x = WriteElem(asked[a].datum)
      BY <2>1
    <3>2. PICK i \in 1..Len(elems) : IsStart(i, asked[a])
      BY <1>1 DEF IInv, Represented
    <3>3. Found(i, b)
      BY <1>1, <3>1, <3>2, KeysOfRangeFindIt DEF InRange, First, Last
    <3>4. ~ elems[i].end /\ elems[i].attrs = x
      BY <3>1, <3>2, StartIsNoEnd
    <3> QED BY <2>1, <3>3, <3>4 DEF Lookup
  <2> HIDE DEF W
  <2>4. Lookup(b) = W
    BY <2>2, <2>3
  <2> QED BY <2>4 DEF W
<1> QED BY <1>1, InductiveInvariant, PTL
----------------------------------------------------------------------------
(* Keys, their descriptions and their numbers                              *)

(* A key by its fields. *)
LEMMA KeyShape ==
    ASSUME NEW k \in Keys
    PROVE  /\ k[1] \in Bytes(FieldLens[1])
           /\ Concat => k[2] \in Bytes(FieldLens[2]) /\ k = <<k[1], k[2]>>
           /\ ~ Concat => k = <<k[1]>>
<1>1. \A i \in DOMAIN FieldLens : k[i] \in Bytes(FieldLens[i])
  BY DEF Keys
<1>2. DOMAIN k = 1..Len(FieldLens)
  BY FieldLenType DEF Keys
<1>3. k = [i \in DOMAIN k |-> k[i]]
  BY DEF Keys
<1>4. 1 \in DOMAIN FieldLens
  BY FieldLenType, KeyTypeAssumption
<1>5. Concat => 2 \in DOMAIN FieldLens
  BY FieldLenType DEF Concat
<1>6. CASE Concat
  <2>1. DOMAIN k = 1..2
    BY <1>2, <1>6 DEF Concat
  <2>2. k = <<k[1], k[2]>>
    BY <1>3, <2>1
  <2> QED BY <1>1, <1>4, <1>5, <1>6, <2>2
<1>7. CASE ~ Concat
  <2>1. DOMAIN k = 1..1
    BY <1>2, <1>7, FieldLenType
  <2>2. k = <<k[1]>>
    BY <1>3, <2>1
  <2> QED BY <1>1, <1>4, <1>7, <2>2
<1> QED BY <1>6, <1>7

(* Two strings, one behind the other, are found where they were put. *)
LEMMA JoinedBytes ==
    ASSUME NEW m \in Nat, NEW n \in Nat, NEW a \in Bytes(m), NEW b \in Bytes(n)
    PROVE  /\ a \o b \in Bytes(m + n)
           /\ \A i \in 1..m : (a \o b)[i] = a[i]
           /\ \A i \in 1..n : (a \o b)[m + i] = b[i]
<1>1. a \in Seq(Byte) /\ Len(a) = m /\ b \in Seq(Byte) /\ Len(b) = n
  BY BytesLen
<1>2. /\ a \o b \in Seq(Byte) /\ Len(a \o b) = m + n
      /\ \A i \in 1..(m + n) : (a \o b)[i] = IF i <= m THEN a[i] ELSE b[i - m]
  BY <1>1, ConcatProperties
<1>3. a \o b \in Bytes(m + n)
  BY <1>2, LenProperties DEF Bytes
<1>4. \A i \in 1..m : i \in 1..(m + n) /\ i <= m
  OBVIOUS
<1>5. \A i \in 1..n : m + i \in 1..(m + n) /\ ~ (m + i <= m) /\ m + i - m = i
  OBVIOUS
<1> QED BY <1>2, <1>3, <1>4, <1>5

(* A stretch of a string that has the bytes of another is that other. *)
LEMMA CutOut ==
    ASSUME NEW s \in Nat, NEW n \in Nat, NEW m \in Nat, s + n <= m,
           NEW b \in Bytes(n), NEW c \in Bytes(m),
           \A i \in 1..n : c[s + i] = b[i]
    PROVE  SubSeq(c, s + 1, s + n) = b
<1>1. \A i \in (s + 1)..(s + n) : c[i] \in Byte
  <2>1. \A i \in (s + 1)..(s + n) : i \in 1..m
    OBVIOUS
  <2> QED BY <2>1, BytesLen
<1>2. s + 1 \in Int /\ s + n \in Int /\ s + n - (s + 1) + 1 = n
  OBVIOUS
<1>3. (IF s + 1 <= s + n THEN s + n - (s + 1) + 1 ELSE 0) = n
  OBVIOUS
<1>4. /\ SubSeq(c, s + 1, s + n) \in Seq(Byte)
      /\ Len(SubSeq(c, s + 1, s + n)) = n
      /\ \A i \in 1..n : SubSeq(c, s + 1, s + n)[i] = c[s + 1 + i - 1]
  BY <1>1, <1>2, <1>3, SubSeqProperties
<1>5. \A i \in 1..n : SubSeq(c, s + 1, s + n)[i] = b[i]
  <2> SUFFICES ASSUME NEW i \in 1..n PROVE SubSeq(c, s + 1, s + n)[i] = b[i]
    OBVIOUS
  <2>1. s + 1 + i - 1 = s + i
    OBVIOUS
  <2> QED BY <1>4, <2>1
<1>6. b \in Seq(Byte) /\ Len(b) = n
  BY BytesLen
<1> HIDE DEF Bytes
<1> QED BY <1>4, <1>5, <1>6, SeqEqual

(* Cut by the descriptor, the bytes of a key are its fields again. *)
LEMMA CutIsKey ==
    ASSUME NEW k \in Keys
    PROVE  Cut(KeyBytes(k)) = k
<1>1. CASE Concat
  <2>1. PICK l \in Nat : l = FieldLens[1]
    BY FieldLenType
  <2>2. PICK r \in Nat : r = FieldLens[2]
    BY <1>1, FieldLenType
  <2>3. k[1] \in Bytes(l) /\ k[2] \in Bytes(r) /\ k = <<k[1], k[2]>>
    BY <1>1, <2>1, <2>2, KeyShape
  <2>4. PICK m \in Nat : m = Padded(l) /\ l <= m
    BY PaddedBounds
  <2>5. PICK n \in Nat : n = Padded(r) /\ r <= n
    BY PaddedBounds
  <2>6. PICK p \in Bytes(m) : p = Pad(k[1])
    BY <2>3, <2>4, PadType
  <2>7. PICK q \in Bytes(n) : q = Pad(k[2])
    BY <2>3, <2>5, PadType
  <2>8. \A i \in 1..l : i \in 1..m /\ p[i] = k[1][i]
    <3>1. Len(k[1]) = l
      BY <2>3, BytesLen
    <3> QED BY <2>4, <2>6, <3>1 DEF Pad
  <2>9. \A i \in 1..r : i \in 1..n /\ q[i] = k[2][i]
    <3>1. Len(k[2]) = r
      BY <2>3, BytesLen
    <3> QED BY <2>5, <2>7, <3>1 DEF Pad
  <2>10. PICK c \in Bytes(m + n) : c = p \o q
    BY JoinedBytes
  <2>11. /\ \A i \in 1..m : c[i] = p[i]
         /\ \A i \in 1..n : c[m + i] = q[i]
    BY <2>10, JoinedBytes
  <2>12. SubSeq(c, 1, l) = k[1]
    <3>1. PICK z \in Nat : z = 0
      OBVIOUS
    <3>2. \A i \in 1..l : c[z + i] = k[1][i]
      BY <2>8, <2>11, <3>1
    <3>3. z + l <= m + n /\ m + n \in Nat
      BY <2>4, <3>1
    <3>4. SubSeq(c, z + 1, z + l) = k[1]
      BY <2>3, <3>2, <3>3, CutOut
    <3>5. z + 1 = 1 /\ z + l = l
      BY <3>1
    <3> QED BY <3>4, <3>5
  <2>13. SubSeq(c, m + 1, m + r) = k[2]
    <3>1. \A i \in 1..r : c[m + i] = k[2][i]
      BY <2>9, <2>11
    <3>2. m + r <= m + n /\ m + n \in Nat
      BY <2>5
    <3> QED BY <2>3, <3>1, <3>2, CutOut
  <2>14. KeyBytes(k) = c
    BY <1>1, <2>6, <2>7, <2>10 DEF KeyBytes
  <2>15. Desc = FieldLens /\ Desc # <<>>
    BY <1>1, EmptySeq, KeyTypeAssumption DEF Desc, Concat
  <2> QED BY <2>1, <2>2, <2>3, <2>4, <2>12, <2>13, <2>14, <2>15 DEF Cut
<1>2. CASE ~ Concat
  BY <1>2, KeyShape DEF Cut, Desc, KeyBytes
<1> QED BY <1>1, <1>2

(***************************************************************************)
(* netfilter, cutting a key by the descriptor, finds the fields that the   *)
(* program gave, however long the fields are (datatype.rs, concat_bytes    *)
(* and the descriptor of set/mod.rs agree).                                *)
(***************************************************************************)
THEOREM DescriptionFits == Spec => []DescriptionFitsKeys
<1>1. IInv => DescriptionFitsKeys
  <2> SUFFICES ASSUME IInv, NEW i \in DOMAIN elems
               PROVE  elems[i].end \/ \E j \in DOMAIN asked : Cut(elems[i].key) = asked[j].from
    BY DEF DescriptionFitsKeys
  <2>1. i \in 1..Len(elems) /\ DOMAIN asked = 1..Len(asked)
    BY DEF IInv, TypeOK
  <2>2. PICK a \in 1..Len(asked) : IsStart(i, asked[a]) \/ IsEnd(i, asked[a])
    BY <2>1 DEF IInv, Represented
  <2>3. CASE IsStart(i, asked[a])
    <3>1. asked[a].from \in Keys
      <4>1. asked[a] \in Ask
        BY DEF IInv, TypeOK
      <4> QED BY <4>1 DEF Ask
    <3>2. elems[i].key = KeyBytes(asked[a].from)
      BY <2>3, StartIsNoEnd
    <3> QED BY <2>1, <3>1, <3>2, CutIsKey
  <2>4. CASE IsEnd(i, asked[a])
    BY <2>4, StartIsNoEnd
  <2> QED BY <2>2, <2>3, <2>4
<1> QED BY <1>1, InductiveInvariant, PTL

(* No two keys stand for one number, and no two have the same bytes. *)
LEMMA KeysAreNumbers ==
    ASSUME NEW k \in Keys, NEW l \in Keys
    PROVE  /\ KeyNumber(k) \in Nat
           /\ KeyNumber(k) = KeyNumber(l) => k = l
           /\ KeyBytes(k) = KeyBytes(l) => k = l
           /\ ~ Concat => (AtMost(KeyBytes(k), KeyBytes(l)) <=> KeyLeq(k, l))
<1>1. KeyBytes(k) = KeyBytes(l) => k = l
  BY CutIsKey
<1>2. CASE ~ Concat
  <2>1. PICK n \in Nat : n = FieldLens[1]
    BY FieldLenType
  <2>2. k[1] \in Bytes(n) /\ l[1] \in Bytes(n) /\ k = <<k[1]>> /\ l = <<l[1]>>
    BY <1>2, <2>1, KeyShape
  <2>3. /\ Number(k[1]) \in Nat
        /\ AtMost(k[1], l[1]) <=> Number(k[1]) <= Number(l[1])
        /\ Number(k[1]) = Number(l[1]) => k[1] = l[1]
    BY <2>2, NumbersAreOrdered
  <2>4. KeyNumber(k) = Number(k[1]) /\ KeyNumber(l) = Number(l[1])
    BY <1>2 DEF KeyNumber
  <2>5. KeyBytes(k) = k[1] /\ KeyBytes(l) = l[1]
    BY <1>2 DEF KeyBytes
  <2> QED BY <1>1, <1>2, <2>2, <2>3, <2>4, <2>5 DEF KeyLeq
<1>3. CASE Concat
  <2>1. PICK m \in Nat : m = FieldLens[1]
    BY FieldLenType
  <2>2. PICK n \in Nat : n = FieldLens[2]
    BY <1>3, FieldLenType
  <2>3. /\ k[1] \in Bytes(m) /\ k[2] \in Bytes(n) /\ k = <<k[1], k[2]>>
        /\ l[1] \in Bytes(m) /\ l[2] \in Bytes(n) /\ l = <<l[1], l[2]>>
    BY <1>3, <2>1, <2>2, KeyShape
  <2>4. PICK p \in Bytes(m), q \in Bytes(n) : p = k[1] /\ q = k[2]
    BY <2>3
  <2>5. PICK s \in Bytes(m), t \in Bytes(n) : s = l[1] /\ t = l[2]
    BY <2>3
  <2>6. PICK b \in Bytes(m + n) : b = p \o q
    BY JoinedBytes
  <2>7. PICK c \in Bytes(m + n) : c = s \o t
    BY JoinedBytes
  <2>8. Number(b) \in Nat /\ (Number(b) = Number(c) => b = c)
    <3>1. m + n \in Nat
      OBVIOUS
    <3> QED BY <3>1, NumbersAreOrdered
  <2>9. ASSUME b = c PROVE k = l
    <3>1. (\A i \in 1..m : b[i] = p[i]) /\ (\A i \in 1..n : b[m + i] = q[i])
      BY <2>6, JoinedBytes
    <3>2. (\A i \in 1..m : c[i] = s[i]) /\ (\A i \in 1..n : c[m + i] = t[i])
      BY <2>7, JoinedBytes
    <3>3. (\A i \in 1..m : p[i] = s[i]) /\ (\A i \in 1..n : q[i] = t[i])
      BY <2>9, <3>1, <3>2
    <3>4. p = s /\ q = t
      BY <3>3, BytesEqual
    <3> QED BY <2>3, <2>4, <2>5, <3>4
  <2>10. KeyNumber(k) = Number(b) /\ KeyNumber(l) = Number(c)
    BY <1>3, <2>4, <2>5, <2>6, <2>7 DEF KeyNumber
  <2> QED BY <1>1, <1>3, <2>8, <2>9, <2>10
<1> QED BY <1>2, <1>3

----------------------------------------------------------------------------
(* A set implements RangeMap                                               *)

(***************************************************************************)
(* Data that netfilter reads as they were meant: values, and all verdicts  *)
(* but reject, which a map turns into drop (see RejectIsNotDrop).          *)
(***************************************************************************)
Readable ==
    \A d \in Datums :
        d.tag \in {"none", "value", "drop", "accept", "queue", "continue",
                   "break", "jump", "goto", "return"}

LEMMA AttrFacts ==
    /\ \A n : Attr({}, n) = {}
    /\ \A n, x : Attr({<<n, x>>}, n) = {x}
    /\ \A n, m, x : m # n => Attr({<<m, x>>}, n) = {}
    /\ \A n, A, B : Attr(A \cup B, n) = Attr(A, n) \cup Attr(B, n)
<1>1. ASSUME NEW n PROVE Attr({}, n) = {}
  BY DEF Attr
<1>2. ASSUME NEW n, NEW x PROVE Attr({<<n, x>>}, n) = {x}
  <2> DEFINE p == <<n, x>>
  <2>1. p[1] = n /\ p[2] = x
    OBVIOUS
  <2> HIDE DEF p
  <2>2. {q \in {p} : q[1] = n} = {p}
    BY <2>1
  <2>3. Attr({p}, n) = {p[2]}
    BY <2>2 DEF Attr
  <2> QED BY <2>1, <2>3 DEF p
<1>3. ASSUME NEW n, NEW m, NEW x, m # n PROVE Attr({<<m, x>>}, n) = {}
  BY <1>3 DEF Attr
<1>4. ASSUME NEW n, NEW A, NEW B PROVE Attr(A \cup B, n) = Attr(A, n) \cup Attr(B, n)
  BY DEF Attr
<1> QED BY <1>1, <1>2, <1>3, <1>4

(* Every verdict but reject has a code of its own. *)
LEMMA VerdictIsRead ==
    ASSUME NEW t \in {"drop", "accept", "queue", "continue", "break", "jump",
                      "goto", "return"}
    PROVE  NfVerdict(VerdictCode[t]) = t
<1>1. CASE t = "drop"
  BY <1>1 DEF NfVerdict, VerdictCode
<1>2. CASE t = "accept"
  BY <1>2 DEF NfVerdict, VerdictCode
<1>3. CASE t = "queue"
  BY <1>3 DEF NfVerdict, VerdictCode
<1>4. CASE t = "continue"
  BY <1>4 DEF NfVerdict, VerdictCode
<1>5. CASE t = "break"
  BY <1>5 DEF NfVerdict, VerdictCode
<1>6. CASE t = "jump"
  BY <1>6 DEF NfVerdict, VerdictCode
<1>7. CASE t = "goto"
  BY <1>7 DEF NfVerdict, VerdictCode
<1>8. CASE t = "return"
  BY <1>8 DEF NfVerdict, VerdictCode
<1> QED BY <1>1, <1>2, <1>3, <1>4, <1>5, <1>6, <1>7, <1>8

LEMMA DataAreRead ==
    ASSUME Readable, NEW d \in Datums
    PROVE  Reads(WriteElem(d)) = Meant(d)
<1> DEFINE W == WriteElem(d)
           code == VerdictCode[d.tag]
<1>1. \/ d.tag = "none" \/ d.tag = "value"
      \/ d.tag \in {"drop", "accept", "queue", "continue", "break", "jump", "goto", "return"}
  BY DEF Readable
<1>2. SUFFICES /\ Attr(W, "DATA") = (IF d.tag = "value" THEN {d.arg} ELSE {})
               /\ {NfVerdict(c) : c \in Attr(W, "VERDICT")} =
                     (IF d.tag \in {"none", "value"} THEN {} ELSE {d.tag})
               /\ Attr(W, "CHAIN") = (IF d.tag \in Jumps THEN {d.arg} ELSE {})
  BY DEF Reads, Meant
<1>3. CASE d.tag = "none"
  <2>1. W = {} /\ d.tag \notin Jumps /\ d.tag # "value"
    BY <1>3 DEF WriteElem, Jumps
  <2>2. Attr(W, "DATA") = {} /\ Attr(W, "VERDICT") = {} /\ Attr(W, "CHAIN") = {}
    BY <2>1, AttrFacts
  <2> HIDE DEF W
  <2> QED BY <1>3, <2>1, <2>2
<1>4. CASE d.tag = "value"
  <2>1. W = {<<"DATA", d.arg>>} /\ d.tag \notin Jumps
    BY <1>4 DEF WriteElem, Jumps
  <2>2. Attr(W, "DATA") = {d.arg} /\ Attr(W, "VERDICT") = {} /\ Attr(W, "CHAIN") = {}
    <3>1. "DATA" # "VERDICT" /\ "DATA" # "CHAIN"
      OBVIOUS
    <3> HIDE DEF W
    <3> QED BY <2>1, <3>1, AttrFacts
  <2> HIDE DEF W
  <2> QED BY <1>4, <2>1, <2>2
<1>5. CASE d.tag \in {"drop", "accept", "queue", "continue", "break", "jump", "goto", "return"}
  <2>1. d.tag # "none" /\ d.tag # "value" /\ d.tag \notin {"none", "value"}
    BY <1>5
  <2>2. NfVerdict(code) = d.tag
    BY <1>5, VerdictIsRead
  <2> DEFINE V == {<<"VERDICT", code>>}
             C == IF d.tag \in Jumps THEN {<<"CHAIN", d.arg>>} ELSE {}
  <2>3. W = V \cup C
    BY <2>1 DEF WriteElem
  <2>4. Attr(V, "DATA") = {} /\ Attr(V, "VERDICT") = {code} /\ Attr(V, "CHAIN") = {}
    <3>1. "VERDICT" # "DATA" /\ "VERDICT" # "CHAIN"
      OBVIOUS
    <3> HIDE DEF code
    <3> QED BY <3>1, AttrFacts
  <2>5. /\ Attr(C, "DATA") = {} /\ Attr(C, "VERDICT") = {}
        /\ Attr(C, "CHAIN") = IF d.tag \in Jumps THEN {d.arg} ELSE {}
    <3>1. "CHAIN" # "DATA" /\ "CHAIN" # "VERDICT"
      OBVIOUS
    <3>2. CASE d.tag \in Jumps
      BY <3>1, <3>2, AttrFacts
    <3>3. CASE d.tag \notin Jumps
      BY <3>3, AttrFacts
    <3> QED BY <3>2, <3>3
  <2> HIDE DEF W, V, C
  <2>6. \A n : Attr(W, n) = Attr(V, n) \cup Attr(C, n)
    BY <2>3, AttrFacts
  <2>7. /\ Attr(W, "DATA") = {} /\ Attr(W, "VERDICT") = {code}
        /\ Attr(W, "CHAIN") = IF d.tag \in Jumps THEN {d.arg} ELSE {}
    BY <2>4, <2>5, <2>6
  <2>8. {NfVerdict(c) : c \in Attr(W, "VERDICT")} = {d.tag}
    <3> HIDE DEF code
    <3> QED BY <2>2, <2>7
  <2> QED BY <2>1, <2>7, <2>8
<1> QED BY <1>1, <1>3, <1>4, <1>5
(* The refinement mapping: the ranges with what their data mean ... *)
Promised ==
    [i \in DOMAIN asked |->
        [from |-> asked[i].from, to |-> asked[i].to, value |-> Meant(asked[i].datum)]]

(* ... and the answers to the keys, as netfilter reads them. *)
Answers == [k \in Keys |-> {Reads(a) : a \in Lookup(KeyBytes(k))}]

(* The keys of a range are those between its numbers. *)
LEMMA InsideIsWithin ==
    ASSUME NEW r \in Ask, Interval \/ r.from = r.to, NEW k \in Keys
    PROVE  InRange(KeyBytes(k), r) <=> Promise!Within(k, r)
<1>1. r.from \in Keys /\ r.to \in Keys
  BY DEF Ask
<1>2. CASE ~ Concat
  BY <1>1, <1>2, KeysAreNumbers DEF InRange, Promise!Within
<1>3. CASE Concat
  <2>1. r.to = r.from
    BY <1>3, KeyTypeAssumption DEF Concat
  <2>2. PICK f \in Keys : f = r.from /\ f = r.to
    BY <1>1, <2>1
  <2>3. InRange(KeyBytes(k), r) <=> KeyBytes(f) = KeyBytes(k)
    <3>1. /\ KeyBytes(f) \in Bytes(KeyLen) /\ KeyBytes(k) \in Bytes(KeyLen)
          /\ KeyLen \in Nat
      BY KeyBytesType, KeyLenType
    <3>2. AtMost(KeyBytes(f), KeyBytes(k)) /\ AtMost(KeyBytes(k), KeyBytes(f))
          <=> KeyBytes(f) = KeyBytes(k)
      BY <3>1, OrderChains DEF AtMost
    <3> QED BY <2>2, <3>2 DEF InRange
  <2>4. Promise!Within(k, r) <=> KeyNumber(f) = KeyNumber(k)
    <3>1. KeyNumber(f) \in Nat /\ KeyNumber(k) \in Nat
      BY KeysAreNumbers
    <3>2. Promise!Within(k, r) <=> KeyNumber(f) <= KeyNumber(k) /\ KeyNumber(k) <= KeyNumber(f)
      BY <2>2 DEF Promise!Within, KeyLeq
    <3> QED BY <3>1, <3>2
  <2> QED BY <2>3, <2>4, KeysAreNumbers
<1> QED BY <1>2, <1>3

LEMMA PromisedShape ==
    ASSUME TypeOK
    PROVE  /\ DOMAIN asked = 1..Len(asked) /\ DOMAIN Promised = 1..Len(asked)
           /\ Len(asked) \in Nat
           /\ \A a \in 1..Len(asked) :
                 /\ asked[a] \in Ask
                 /\ Promised[a] = [from |-> asked[a].from, to |-> asked[a].to,
                                   value |-> Meant(asked[a].datum)]
                 /\ \A k : Promise!Within(k, Promised[a]) <=> Promise!Within(k, asked[a])
<1>1. /\ asked \in Seq(Ask) /\ DOMAIN asked = 1..Len(asked) /\ Len(asked) \in Nat
  BY DEF TypeOK
<1>2. DOMAIN Promised = DOMAIN asked
  BY DEF Promised
<1>3. ASSUME NEW a \in 1..Len(asked)
      PROVE  /\ asked[a] \in Ask
             /\ Promised[a] = [from |-> asked[a].from, to |-> asked[a].to,
                               value |-> Meant(asked[a].datum)]
             /\ \A k : Promise!Within(k, Promised[a]) <=> Promise!Within(k, asked[a])
  <2>1. asked[a] \in Ask
    BY <1>1
  <2>2. Promised[a] = [from |-> asked[a].from, to |-> asked[a].to,
                       value |-> Meant(asked[a].datum)]
    BY <1>1 DEF Promised
  <2>3. Promised[a].from = asked[a].from /\ Promised[a].to = asked[a].to
    BY <2>2
  <2> QED BY <2>1, <2>2, <2>3 DEF Promise!Within
<1> QED BY <1>1, <1>2, <1>3

(* What RangeMap takes for legal is what netfilter needs. *)
LEMMA LegalIsDisjoint ==
    ASSUME IInv, Promise!Legal(Promised)
    PROVE  Disjoint
<1>1. TypeOK /\ (Interval \/ \A a \in 1..Len(asked) : asked[a].from = asked[a].to)
  BY DEF IInv, Represented
<1>2. ASSUME NEW a \in 1..Len(asked)
      PROVE  AtMost(KeyBytes(asked[a].from), KeyBytes(asked[a].to))
  <2>1. /\ asked[a] \in Ask /\ Promised[a].from = asked[a].from
        /\ Promised[a].to = asked[a].to /\ a \in DOMAIN Promised
    BY <1>1, PromisedShape
  <2>2. asked[a].from \in Keys /\ asked[a].to \in Keys
    BY <2>1 DEF Ask
  <2>3. KeyLeq(asked[a].from, asked[a].to)
    BY <2>1 DEF Promise!Legal
  <2>4. CASE Concat
    <3>1. asked[a].from = asked[a].to
      BY <1>1, <2>4, KeyTypeAssumption DEF Concat
    <3> QED BY <3>1 DEF AtMost
  <2>5. CASE ~ Concat
    BY <2>2, <2>3, <2>5, KeysAreNumbers
  <2> QED BY <2>4, <2>5
<1>3. ASSUME NEW a \in 1..Len(asked), NEW c \in 1..Len(asked), NEW b \in Bytes(KeyLen),
             InRange(b, asked[a]), InRange(b, asked[c])
      PROVE  a = c
  <2>1. /\ asked[a] \in Ask /\ asked[c] \in Ask
        /\ a \in DOMAIN Promised /\ c \in DOMAIN Promised
    BY <1>1, PromisedShape
  <2>2. PICK k \in Keys : KeyBytes(k) = b
    <3>1. CASE Concat
      <4>1. asked[a].from \in Keys /\ asked[a].to = asked[a].from
        BY <1>1, <2>1, <3>1, KeyTypeAssumption DEF Concat, Ask
      <4>2. KeyBytes(asked[a].from) \in Bytes(KeyLen) /\ KeyLen \in Nat
        BY <4>1, KeyBytesType, KeyLenType
      <4>3. KeyBytes(asked[a].from) = b
        BY <1>3, <4>1, <4>2, OrderChains DEF InRange
      <4> QED BY <4>1, <4>3
    <3>2. CASE ~ Concat
      <4>1. b \in Bytes(FieldLens[1])
        BY <3>2 DEF KeyLen
      <4>2. DOMAIN FieldLens = 1..1
        BY <3>2, FieldLenType
      <4>3. <<b>> = [i \in 1..1 |-> b]
        OBVIOUS
      <4>4. <<b>> \in Keys
        BY <4>1, <4>2, <4>3 DEF Keys
      <4>5. KeyBytes(<<b>>) = b
        BY <3>2 DEF KeyBytes
      <4> QED BY <4>4, <4>5
    <3> QED BY <3>1, <3>2
  <2>3. Promise!Within(k, asked[a]) /\ Promise!Within(k, asked[c])
    BY <1>1, <1>3, <2>1, <2>2, InsideIsWithin
  <2>4. Promise!Within(k, Promised[a]) /\ Promise!Within(k, Promised[c])
    BY <1>1, <2>3, PromisedShape
  <2> QED BY <2>1, <2>4 DEF Promise!Legal
<1>4. DOMAIN asked = 1..Len(asked)
  BY <1>1, PromisedShape
<1> QED BY <1>2, <1>3, <1>4 DEF Disjoint

(***************************************************************************)
(* Legal ranges are answered with what the data of the ranges around a key *)
(* mean, in numbers where EveryKeyIsAnswered speaks of bytes.              *)
(***************************************************************************)
AnsweredAsMeant ==
    Promise!Legal(Promised) =>
        \A k \in Keys :
            Answers[k] = {Meant(asked[a].datum) :
                             a \in {c \in 1..Len(asked) : Promise!Within(k, asked[c])}}

LEMMA AnswersAreMeant ==
    ASSUME Readable PROVE Spec => []AnsweredAsMeant
<1>1. ASSUME IInv, RangesMatched PROVE AnsweredAsMeant
  <2> SUFFICES ASSUME Promise!Legal(Promised), NEW k \in Keys
               PROVE  Answers[k] =
                        {Meant(asked[a].datum) :
                           a \in {c \in 1..Len(asked) : Promise!Within(k, asked[c])}}
    BY DEF AnsweredAsMeant
  <2>1. /\ TypeOK /\ Disjoint
        /\ Interval \/ \A a \in 1..Len(asked) : asked[a].from = asked[a].to
    BY <1>1, LegalIsDisjoint DEF IInv, Represented
  <2>2. KeyBytes(k) \in Bytes(KeyLen)
    BY KeyBytesType
  <2>3. \A a \in 1..Len(asked) :
           InRange(KeyBytes(k), asked[a]) <=> Promise!Within(k, asked[a])
    BY <2>1, PromisedShape, InsideIsWithin
  <2>4. Lookup(KeyBytes(k)) =
           {WriteElem(asked[a].datum) :
               a \in {c \in 1..Len(asked) : Promise!Within(k, asked[c])}}
    <3>1. DOMAIN asked = 1..Len(asked)
      BY <2>1, PromisedShape
    <3>2. {c \in 1..Len(asked) : InRange(KeyBytes(k), asked[c])} =
          {c \in 1..Len(asked) : Promise!Within(k, asked[c])}
      BY <2>3
    <3>3. Lookup(KeyBytes(k)) =
             {WriteElem(asked[a].datum) :
                 a \in {c \in 1..Len(asked) : InRange(KeyBytes(k), asked[c])}}
      BY <1>1, <2>1, <2>2, <3>1 DEF RangesMatched
    <3> QED BY <3>2, <3>3
  <2>5. \A a \in 1..Len(asked) : Reads(WriteElem(asked[a].datum)) = Meant(asked[a].datum)
    <3>1. \A a \in 1..Len(asked) : asked[a].datum \in Datums
      BY <2>1, PromisedShape DEF Ask
    <3> QED BY <3>1, DataAreRead
  <2>6. Answers[k] = {Reads(x) : x \in Lookup(KeyBytes(k))}
    BY DEF Answers
  <2> DEFINE S == {c \in 1..Len(asked) : Promise!Within(k, asked[c])}
  <2>7. S \subseteq 1..Len(asked)
    OBVIOUS
  <2> HIDE DEF S
  <2>8. {Reads(x) : x \in {WriteElem(asked[a].datum) : a \in S}} =
        {Meant(asked[a].datum) : a \in S}
    BY <2>5, <2>7
  <2> QED BY <2>4, <2>6, <2>8 DEF S
<1> QED BY <1>1, InductiveInvariant, EveryKeyIsAnswered, PTL
LEMMA LastAdded ==
    ASSUME IInv, NEW from, NEW to, NEW d, Adds(from, to, d)
    PROVE  /\ asked'[Len(asked) + 1] = [from |-> from, to |-> to, datum |-> d]
           /\ Len(asked') = Len(asked) + 1
           /\ \A a \in 1..Len(asked) : asked'[a] = asked[a]
<1> DEFINE r == [from |-> from, to |-> to, datum |-> d]
<1>1. asked' = Append(asked, r)
  BY DEF Adds
<1>2. asked \in Seq(Ask \cup {r})
  BY DEF IInv, TypeOK
<1> HIDE DEF r
<1>3. asked'[Len(asked) + 1] = r /\ Len(asked') = Len(asked) + 1
      /\ \A a \in 1..Len(asked) : asked'[a] = asked[a]
  BY <1>1, <1>2, AppendProperties
<1> QED BY <1>3 DEF r

(* An add to the set is an add to the map. *)
LEMMA AddsIsAdd ==
    ASSUME IInv, IInv', AnsweredAsMeant, AnsweredAsMeant',
           NEW from, NEW to, NEW d, Adds(from, to, d)
    PROVE  Promise!Next
<1> DEFINE q == [from |-> from, to |-> to, value |-> Meant(d)]
<1>1. from \in Keys /\ to \in Keys /\ d \in Datums
  BY DEF Adds
<1>2. q \in Promise!Range
  BY <1>1 DEF Promise!Range
<1>3. PICK n \in Nat : n = Len(asked)
  BY DEF IInv, TypeOK
<1>4. /\ asked'[n + 1] = [from |-> from, to |-> to, datum |-> d]
      /\ Len(asked') = n + 1
      /\ \A a \in 1..n : asked'[a] = asked[a]
  BY <1>3, LastAdded
<1>5. /\ DOMAIN asked = 1..n /\ DOMAIN asked' = 1..(n + 1)
  BY <1>3, <1>4 DEF IInv, TypeOK
<1>6. q.from = from /\ q.to = to /\ q.value = Meant(d)
  OBVIOUS
<1>7. /\ Promised' = [i \in 1..(n + 1) |-> IF i = n + 1 THEN q ELSE Promised[i]]
      /\ DOMAIN Promised = 1..n
  <2>1. Promised = [i \in 1..n |->
            [from |-> asked[i].from, to |-> asked[i].to, value |-> Meant(asked[i].datum)]]
    BY <1>5 DEF Promised
  <2>2. Promised' = [i \in 1..(n + 1) |->
            [from |-> asked'[i].from, to |-> asked'[i].to, value |-> Meant(asked'[i].datum)]]
    BY <1>5 DEF Promised
  <2>3. ASSUME NEW i \in 1..(n + 1)
        PROVE  [from |-> asked'[i].from, to |-> asked'[i].to, value |-> Meant(asked'[i].datum)]
               = IF i = n + 1 THEN q ELSE Promised[i]
    <3>1. CASE i = n + 1
      <4>1. asked'[i].from = from /\ asked'[i].to = to /\ asked'[i].datum = d
        BY <3>1, <1>4
      <4> QED BY <3>1, <4>1
    <3>2. CASE i # n + 1
      <4>1. i \in 1..n
        BY <3>2
      <4> QED BY <3>2, <4>1, <2>1, <1>4
    <3> QED BY <3>1, <3>2
  <2> HIDE DEF q
  <2> QED BY <2>1, <2>2, <2>3
<1> HIDE DEF q
<1>8. Promised' = Append(Promised, q)
  <2>1. Promised \in Seq(Promise!Range \cup {q})
    <3>1. ASSUME NEW i \in 1..n PROVE Promised[i] \in Promise!Range
      <4>1. asked[i].from \in Keys /\ asked[i].to \in Keys /\ asked[i].datum \in Datums
        <5>1. asked[i] \in Ask
          BY <1>3 DEF IInv, TypeOK
        <5> QED BY <5>1 DEF Ask
      <4>2. Promised[i] = [from |-> asked[i].from, to |-> asked[i].to,
                           value |-> Meant(asked[i].datum)]
        BY <1>5 DEF Promised
      <4> QED BY <4>1, <4>2 DEF Promise!Range
    <3>2. Promised = [i \in 1..n |-> Promised[i]]
      BY <1>5 DEF Promised
    <3> QED BY <3>1, <3>2
  <2>2. Len(Promised) = n
    BY <2>1, <1>7
  <2>3. /\ Append(Promised, q) \in Seq(Promise!Range \cup {q})
        /\ Len(Append(Promised, q)) = n + 1
        /\ \A i \in 1..n : Append(Promised, q)[i] = Promised[i]
        /\ Append(Promised, q)[n + 1] = q
    BY <2>1, <2>2, AppendProperties
  <2>4. /\ Promised' \in Seq(Promise!Range \cup {q}) /\ Len(Promised') = n + 1
    <3>1. ASSUME NEW i \in 1..(n + 1)
          PROVE  (IF i = n + 1 THEN q ELSE Promised[i]) \in Promise!Range \cup {q}
      <4>1. CASE i = n + 1
        BY <4>1
      <4>2. CASE i # n + 1
        <5>1. i \in 1..Len(Promised)
          BY <4>2, <2>2
        <5> QED BY <4>2, <5>1, <2>1, ElementOfSeq
      <4> QED BY <4>1, <4>2
    <3>2. Promised' \in [1..(n + 1) -> Promise!Range \cup {q}]
      BY <3>1, <1>7
    <3> QED BY <3>2
  <2>5. ASSUME NEW i \in 1..(n + 1) PROVE Promised'[i] = Append(Promised, q)[i]
    <3>1. CASE i = n + 1
      BY <3>1, <1>7, <2>3
    <3>2. CASE i # n + 1
      <4>1. i \in 1..n
        BY <3>2
      <4> QED BY <3>2, <4>1, <1>7, <2>3
    <3> QED BY <3>1, <3>2
  <2> QED BY <2>3, <2>4, <2>5, SeqEqual
<1>9. ASSUME Promise!Legal(Promised')
      PROVE  Answers' = [k \in Keys |->
                           IF Promise!Within(k, q) THEN {q.value} ELSE Answers[k]]
  <2>1. /\ \A i \in 1..(n + 1) : Promised'[i] = IF i = n + 1 THEN q ELSE Promised[i]
        /\ DOMAIN Promised' = 1..(n + 1)
    BY <1>7
  <2>2. /\ \A i \in 1..n : i \in DOMAIN Promised' /\ Promised'[i] = Promised[i]
        /\ n + 1 \in DOMAIN Promised' /\ Promised'[n + 1] = q
    BY <2>1
  <2>3. Promise!Legal(Promised)
    BY <1>7, <1>9, <2>2 DEF Promise!Legal
  <2>4. ASSUME NEW k \in Keys
        PROVE  Answers'[k] = IF Promise!Within(k, q) THEN {q.value} ELSE Answers[k]
    <3> DEFINE In(a) == Promise!Within(k, asked[a])
               New(a) == Promise!Within(k, asked'[a])
    <3>1. Answers[k] = {Meant(asked[a].datum) : a \in {c \in 1..n : In(c)}}
      BY <1>3, <2>3 DEF AnsweredAsMeant
    <3>2. Answers'[k] = {Meant(asked'[a].datum) : a \in {c \in 1..(n + 1) : New(c)}}
      BY <1>4, <1>9 DEF AnsweredAsMeant
    <3>3. \A a \in 1..n : New(a) <=> In(a)
      BY <1>4
    <3>4. New(n + 1) <=> Promise!Within(k, q)
      BY <1>4, <1>6 DEF Promise!Within
    <3>5. \A a \in 1..n : In(a) <=> Promise!Within(k, Promised[a])
      BY <1>3, PromisedShape DEF IInv
    <3>6. asked'[n + 1].datum = d
      BY <1>4
    <3> HIDE DEF In, New
    <3>7. CASE Promise!Within(k, q)
      <4>1. \A a \in 1..n : ~ In(a)
        <5> SUFFICES ASSUME NEW a \in 1..n, In(a) PROVE FALSE
          OBVIOUS
        <5>1. Promise!Within(k, Promised'[a]) /\ Promise!Within(k, Promised'[n + 1])
          BY <2>2, <3>5, <3>7
        <5>2. a = n + 1
          BY <1>9, <2>2, <5>1 DEF Promise!Legal
        <5> QED BY <5>2
      <4>2. {c \in 1..(n + 1) : New(c)} = {n + 1}
        <5>1. \A c \in 1..(n + 1) : c \in 1..n \/ c = n + 1
          OBVIOUS
        <5>2. n + 1 \in 1..(n + 1)
          OBVIOUS
        <5> QED BY <3>3, <3>4, <3>7, <4>1, <5>1, <5>2
      <4>3. Answers'[k] = {Meant(d)}
        BY <3>2, <3>6, <4>2
      <4> QED BY <3>7, <4>3, <1>6
    <3>8. CASE ~ Promise!Within(k, q)
      <4>1. {c \in 1..(n + 1) : New(c)} = {c \in 1..n : In(c)}
        <5>1. \A c \in 1..(n + 1) : c \in 1..n \/ c = n + 1
          OBVIOUS
        <5>2. \A c \in 1..n : c \in 1..(n + 1)
          OBVIOUS
        <5> QED BY <3>3, <3>4, <3>8, <5>1, <5>2
      <4>2. \A a \in {c \in 1..n : In(c)} : asked'[a].datum = asked[a].datum
        BY <1>4
      <4>3. Answers'[k] = Answers[k]
        BY <3>1, <3>2, <4>1, <4>2
      <4> QED BY <3>8, <4>3
    <3> QED BY <3>7, <3>8
  <2>5. Answers' = [k \in Keys |-> Answers'[k]]
    BY DEF Answers
  <2> HIDE DEF Answers
  <2> QED BY <2>4, <2>5
<1>10. Promise!Add(q)
  BY <1>8, <1>9 DEF Promise!Add, Promised, Answers
<1> QED BY <1>2, <1>10 DEF Promise!Next

(***************************************************************************)
(* A set of any kind, key type and size is the map from the numbers its    *)
(* keys stand for to the data it was given, as long as the ranges do not   *)
(* overlap: each add changes the answers to the keys it names and to no    *)
(* others (set/mod.rs, add).                                               *)
(***************************************************************************)
THEOREM ImplementsRangeMap ==
    ASSUME Readable PROVE Spec => RangeMapSpec
<1>1. Init => Promise!Init
  <2> SUFFICES ASSUME Init PROVE Promise!Init
    OBVIOUS
  <2>1. elems = <<>> /\ asked = <<>>
    BY DEF Init
  <2>2. \A b : Lookup(b) = {}
    BY <2>1 DEF Lookup
  <2>3. Answers = [k \in Keys |-> {}]
    BY <2>2 DEF Answers
  <2>4. Promised = <<>>
    BY <2>1 DEF Promised
  <2> QED BY <2>3, <2>4 DEF Promise!Init, Promised, Answers
<1>2. IInv /\ IInv' /\ AnsweredAsMeant /\ AnsweredAsMeant' /\ [Next]_vars
      => [Promise!Next]_<<Promised, Answers>>
  <2> SUFFICES ASSUME IInv, IInv', AnsweredAsMeant, AnsweredAsMeant', [Next]_vars
               PROVE  [Promise!Next]_<<Promised, Answers>>
    OBVIOUS
  <2>1. CASE Next
    <3>1. PICK from \in Keys, to \in Keys, d \in Datums : Adds(from, to, d)
      BY <2>1, NextAdds
    <3> QED BY <3>1, AddsIsAdd
  <2>2. CASE UNCHANGED vars
    BY <2>2 DEF vars, Promised, Answers, Lookup, Found, Closest
  <2> QED BY <2>1, <2>2
<1> QED BY <1>1, <1>2, InductiveInvariant, AnswersAreMeant, PTL
        DEF Spec, RangeMapSpec, Promise!Spec, Promised, Answers
=============================================================================
