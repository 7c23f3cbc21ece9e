----------------------------- MODULE MCSetBatch -----------------------------
(***************************************************************************)
(* SetBatch with sets of up to four elements of two lengths, of which a    *)
(* message holds two or three, in pages that hold no message of elements,  *)
(* some of them, one, or one behind another message.                       *)
(***************************************************************************)
EXTENDS SetBatch

MCElemLens == {2, 3}
MCReleases ==
    {[version |-> <<6, 9>>, parsable |-> TRUE], [version |-> <<6, 10>>, parsable |-> TRUE],
     [version |-> <<6, 9>>, parsable |-> FALSE]}
=============================================================================
