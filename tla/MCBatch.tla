------------------------------ MODULE MCBatch ------------------------------
(***************************************************************************)
(* Batch in pages that hold the frame and short messages but not each      *)
(* message, on both sides of 6.10.                                         *)
(***************************************************************************)
EXTENDS Batch

MCReleases == [version : {<<6, 9>>, <<6, 10>>}, parsable : {TRUE}]
=============================================================================
