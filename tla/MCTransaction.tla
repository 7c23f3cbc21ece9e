--------------------------- MODULE MCTransaction ---------------------------
(***************************************************************************)
(* Transaction with batches of up to three messages in pages that hold any *)
(* of them, on both sides of 6.10, in a release build that may not be able *)
(* to read the version and guesses right or wrong, and a socket that holds *)
(* fewer answers than the longest batch asks for.                          *)
(***************************************************************************)
EXTENDS Transaction

MCReleases == [version : {<<6, 9>>, <<6, 10>>}, parsable : BOOLEAN]
=============================================================================
