-------------------------- MODULE MCSetKeys_proofs --------------------------
(***************************************************************************)
(* What SetKeys_proofs proves of every key type holds of the pairs that    *)
(* MCSetKeys builds: they are an instance of it, with bytes of any size.   *)
(***************************************************************************)
EXTENDS MCSetKeys, TLAPS

PairProofs == INSTANCE SetKeys_proofs WITH
    FieldLens <- TwoFields, Interval <- FALSE, Map <- TRUE, Data <- Verdicts,
    elems <- pairElems, asked <- pairAsked

(* The key type of the pairs is one. *)
LEMMA PairAssumptions ==
    /\ TwoFields \in Seq(Nat \ {0})
    /\ Len(TwoFields) \in {1, 2}
    /\ FALSE \in BOOLEAN /\ TRUE \in BOOLEAN
    /\ FALSE => Len(TwoFields) = 1
BY DEF TwoFields

(* A run that builds pairs builds a set of pairs. *)
LEMMA EitherIsPairs == EitherSpec => Pairs!Spec
<1>1. EitherInit => Pairs!Init
  BY DEF EitherInit
<1>2. [EitherNext]_<<vars, pairElems, pairAsked>> => [Pairs!Next]_(Pairs!vars)
  BY DEF EitherNext, Pairs!vars
<1> QED BY <1>1, <1>2, PTL DEF EitherSpec, Pairs!Spec

(* Pairs and PairProofs name one specification: their parts are equal.     *)
LEMMA SameParts ==
    /\ Pairs!Keys = PairProofs!Keys
    /\ Pairs!Datums = PairProofs!Datums
    /\ \A k : Pairs!KeyBytes(k) = PairProofs!KeyBytes(k)
    /\ \A d : Pairs!WriteElem(d) = PairProofs!WriteElem(d)
    /\ \A b : Pairs!Cut(b) = PairProofs!Cut(b)
    /\ \A b : Pairs!IncrementBe(b) = PairProofs!IncrementBe(b)
    /\ Pairs!None = PairProofs!None
<1>1. Pairs!Keys = PairProofs!Keys
  BY DEF Pairs!Keys, PairProofs!Keys, Pairs!Bytes, PairProofs!Bytes,
         Pairs!Byte, PairProofs!Byte
<1>2. Pairs!Datums = PairProofs!Datums
  BY DEF Pairs!Datums, PairProofs!Datums
<1>3. ASSUME NEW k PROVE Pairs!KeyBytes(k) = PairProofs!KeyBytes(k)
  BY DEF Pairs!KeyBytes, PairProofs!KeyBytes, Pairs!Pad, PairProofs!Pad,
         Pairs!Padded, PairProofs!Padded, Pairs!Concat, PairProofs!Concat
<1>4. ASSUME NEW d PROVE Pairs!WriteElem(d) = PairProofs!WriteElem(d)
  BY DEF Pairs!WriteElem, PairProofs!WriteElem, Pairs!VerdictCode,
         PairProofs!VerdictCode, Pairs!Jumps, PairProofs!Jumps
<1>5. ASSUME NEW b PROVE Pairs!Cut(b) = PairProofs!Cut(b)
  BY DEF Pairs!Cut, PairProofs!Cut, Pairs!Desc, PairProofs!Desc,
         Pairs!Concat, PairProofs!Concat, Pairs!Padded, PairProofs!Padded
<1>6. ASSUME NEW b PROVE Pairs!IncrementBe(b) = PairProofs!IncrementBe(b)
  BY DEF Pairs!IncrementBe, PairProofs!IncrementBe, Pairs!Reaches,
         PairProofs!Reaches, Pairs!WrappingAdd, PairProofs!WrappingAdd,
         Pairs!None, PairProofs!None
<1>7. Pairs!None = PairProofs!None
  BY DEF Pairs!None, PairProofs!None
<1> QED BY <1>1, <1>2, <1>3, <1>4, <1>5, <1>6, <1>7

LEMMA SameNumber == \A b : Pairs!Number(b) = PairProofs!Number(b)
  BY DEF Pairs!Number, PairProofs!Number

(* A behaviour of the one is a behaviour of the other. *)
LEMMA SameSpec == Pairs!Spec => PairProofs!Spec
<1>1. Pairs!Init => PairProofs!Init
  BY DEF Pairs!Init, PairProofs!Init
<1>2. [Pairs!Next]_(Pairs!vars) => [PairProofs!Next]_(PairProofs!vars)
  BY SameParts
     DEF Pairs!Next, PairProofs!Next, Pairs!vars, PairProofs!vars,
         Pairs!AddKey, PairProofs!AddKey, Pairs!AddRange, PairProofs!AddRange,
         Pairs!AddExact, PairProofs!AddExact, Pairs!Asks, PairProofs!Asks,
         Pairs!Start, PairProofs!Start, Pairs!End, PairProofs!End
<1> QED BY <1>1, <1>2, PTL DEF PairProofs!Spec, Pairs!Spec

----------------------------------------------------------------------------
(***************************************************************************)
(* Every key of a pair that is added is cut by the description of its set  *)
(* into its two fields: set_key (set/mod.rs) announces the lengths that    *)
(* Data::data of a pair (datatype.rs) pads to.                             *)
(***************************************************************************)
THEOREM PairsFit == EitherSpec => []PairsFitDescription
<1>1. PairProofs!Spec => []PairProofs!DescriptionFitsKeys
  BY PairProofs!DescriptionFits, PairAssumptions, BaseAssumption, MaxAddsAssumption
<1>2. PairProofs!DescriptionFitsKeys => PairsFitDescription
  BY SameParts DEF PairsFitDescription, PairProofs!DescriptionFitsKeys, Pairs!DescriptionFitsKeys
<1> QED BY <1>1, <1>2, EitherIsPairs, SameSpec, PTL

----------------------------------------------------------------------------
(* What is promised of a map of pairs                                      *)

(* The two names mean the same by a value and find the same elements. *)
LEMMA SameMeaning ==
    /\ \A x : Pairs!Reads(x) = PairProofs!Reads(x)
    /\ \A d : Pairs!Meant(d) = PairProofs!Meant(d)
    /\ \A b : Pairs!Lookup(b) = PairProofs!Lookup(b)
    /\ \A k, l : Pairs!KeyLeq(k, l) <=> PairProofs!KeyLeq(k, l)
<1>1. ASSUME NEW x PROVE Pairs!Reads(x) = PairProofs!Reads(x)
  BY DEF Pairs!Reads, PairProofs!Reads, Pairs!Attr, PairProofs!Attr,
         Pairs!NfVerdict, PairProofs!NfVerdict
<1>2. ASSUME NEW d PROVE Pairs!Meant(d) = PairProofs!Meant(d)
  BY DEF Pairs!Meant, PairProofs!Meant, Pairs!Jumps, PairProofs!Jumps
<1>3. ASSUME NEW b PROVE Pairs!Lookup(b) = PairProofs!Lookup(b)
  BY DEF Pairs!Lookup, PairProofs!Lookup, Pairs!Found, PairProofs!Found
<1>4. ASSUME NEW k, NEW l PROVE Pairs!KeyLeq(k, l) <=> PairProofs!KeyLeq(k, l)
  BY SameNumber DEF Pairs!KeyLeq, PairProofs!KeyLeq, Pairs!KeyNumber, PairProofs!KeyNumber,
     Pairs!Concat, PairProofs!Concat
<1> QED BY <1>1, <1>2, <1>3, <1>4

(* What the promise is made about, by either name. *)
Promised ==
    [i \in DOMAIN pairAsked |->
        [from |-> pairAsked[i].from, to |-> pairAsked[i].to,
         value |-> Pairs!Meant(pairAsked[i].datum)]]

Answers == [k \in Pairs!Keys |-> {Pairs!Reads(a) : a \in Pairs!Lookup(Pairs!KeyBytes(k))}]

(* PairProofs maps its state to the same promise. *)
Same ==
    /\ Promised = [i \in DOMAIN pairAsked |->
                    [from |-> pairAsked[i].from, to |-> pairAsked[i].to,
                     value |-> PairProofs!Meant(pairAsked[i].datum)]]
    /\ Answers = [k \in PairProofs!Keys |->
                    {PairProofs!Reads(a) : a \in PairProofs!Lookup(PairProofs!KeyBytes(k))}]

(* They are the same in every state. *)
LEMMA MappingsAgree == Same
BY SameParts, SameMeaning DEF Same, Promised, Answers

(* The promise kept under one name is kept under the other. *)
LEMMA SamePromise == PairProofs!Promise!Spec => Pairs!Promise!Spec
<1>1. PairProofs!Promise!Init => Pairs!Promise!Init
  BY SameParts, SameMeaning DEF PairProofs!Promise!Init, Pairs!Promise!Init
<1>2. /\ PairProofs!Promise!Range = Pairs!Promise!Range
      /\ \A k, r : PairProofs!Promise!Within(k, r) <=> Pairs!Promise!Within(k, r)
      /\ \A s : PairProofs!Promise!Legal(s) <=> Pairs!Promise!Legal(s)
  <2>1. PairProofs!Promise!Range = Pairs!Promise!Range
    <3>1. {PairProofs!Meant(d) : d \in PairProofs!Datums} = {Pairs!Meant(d) : d \in Pairs!Datums}
      BY SameParts, SameMeaning
    <3> QED BY <3>1, SameParts DEF PairProofs!Promise!Range, Pairs!Promise!Range
  <2>2. \A k, r : PairProofs!Promise!Within(k, r) <=> Pairs!Promise!Within(k, r)
    BY SameMeaning DEF PairProofs!Promise!Within, Pairs!Promise!Within
  <2>3. \A s : PairProofs!Promise!Legal(s) <=> Pairs!Promise!Legal(s)
    BY <2>2, SameParts, SameMeaning DEF PairProofs!Promise!Legal, Pairs!Promise!Legal
  <2> QED BY <2>1, <2>2, <2>3
<1>3. ASSUME Same, Same', NEW r, PairProofs!Promise!Add(r)
      PROVE  Pairs!Promise!Add(r)
  <2>1. /\ Promised' = Append(Promised, r)
        /\ Pairs!Promise!Legal(Promised') =>
             Answers' = [k \in PairProofs!Keys |->
                            IF PairProofs!Promise!Within(k, r) THEN {r.value} ELSE Answers[k]]
    BY <1>2, <1>3 DEF Same, PairProofs!Promise!Add
  <2>2. Pairs!Promise!Legal(Promised') =>
          Answers' = [k \in Pairs!Keys |->
                         IF Pairs!Promise!Within(k, r) THEN {r.value} ELSE Answers[k]]
    BY <1>2, <2>1, SameParts
  <2> QED BY <2>1, <2>2 DEF Promised, Answers, Pairs!Promise!Add
<1>4. Same /\ Same' /\ PairProofs!Promise!Next => Pairs!Promise!Next
  BY <1>2, <1>3 DEF PairProofs!Promise!Next, Pairs!Promise!Next
<1> DEFINE P == [i \in DOMAIN pairAsked |->
                   [from |-> pairAsked[i].from, to |-> pairAsked[i].to,
                    value |-> PairProofs!Meant(pairAsked[i].datum)]]
           A == [k \in PairProofs!Keys |->
                   {PairProofs!Reads(a) : a \in PairProofs!Lookup(PairProofs!KeyBytes(k))}]
<1>5. Same /\ Same' /\ [PairProofs!Promise!Next]_<<P, A>>
      => [Pairs!Promise!Next]_<<Promised, Answers>>
  BY <1>4 DEF Same
<1> QED BY <1>1, <1>5, MappingsAgree, PTL
        DEF PairProofs!Promise!Spec, Pairs!Promise!Spec, Promised, Answers

(***************************************************************************)
(* A verdict map of pairs, none added twice, answers every packet with the *)
(* verdict that was added for both of its fields, and no other: Set::add   *)
(* (set/mod.rs) with the padded keys of Data::data implements RangeMap.    *)
(***************************************************************************)
THEOREM PairsMap == EitherSpec => PairMapSpec
<1>1. PairProofs!Readable
  BY DEF PairProofs!Readable, PairProofs!Datums, Verdicts
<1>2. PairProofs!Spec => PairProofs!RangeMapSpec
  BY <1>1, PairProofs!ImplementsRangeMap, PairAssumptions, BaseAssumption, MaxAddsAssumption
<1> QED BY <1>2, EitherIsPairs, SameSpec, SamePromise, PTL
        DEF PairMapSpec, PairProofs!RangeMapSpec, Pairs!RangeMapSpec
=============================================================================
