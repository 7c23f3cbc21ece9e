------------------------------ MODULE MCSetKeys ------------------------------
(***************************************************************************)
(* SetKeys with bits for bytes, twice: a map of intervals, and a verdict   *)
(* map of concatenated keys (Pairs), of which a behaviour builds one.      *)
(* Keys of two bits have carries, a least and a greatest key, ranges that  *)
(* touch and gaps; a pair of one and two bytes is padded to eight.         *)
(***************************************************************************)
EXTENDS SetKeys

OneField == <<2>>
TwoFields == <<1, 2>>

PortOrJump == {[tag |-> "value", arg |-> "p"], [tag |-> "jump", arg |-> "c"]}
Verdicts == {[tag |-> "accept", arg |-> "none"], [tag |-> "goto", arg |-> "c"]}
Rejecting == {[tag |-> "accept", arg |-> "none"], [tag |-> "reject", arg |-> "none"]}

VARIABLES pairElems, pairAsked

Pairs == INSTANCE SetKeys WITH
    FieldLens <- TwoFields, Interval <- FALSE, Map <- TRUE, Data <- Verdicts,
    elems <- pairElems, asked <- pairAsked

EitherInit == Init /\ Pairs!Init

EitherNext ==
    \/ pairAsked = <<>> /\ Next /\ UNCHANGED <<pairElems, pairAsked>>
    \/ asked = <<>> /\ Pairs!Next /\ UNCHANGED vars

EitherSpec == EitherInit /\ [][EitherNext]_<<vars, pairElems, pairAsked>>

----------------------------------------------------------------------------
(* The fields of a pair, each padded to words, are where its description   *)
(* says (DescriptionFitsKeys).                                             *)
PairsFitDescription == Pairs!DescriptionFitsKeys

(* A map of pairs is a map from the numbers of both fields to the verdicts *)
(* it was given: padding makes no two keys one (RangeMapSpec).             *)
PairMapSpec == Pairs!RangeMapSpec
=============================================================================
