----------------------------- MODULE MCSetElems -----------------------------
(***************************************************************************)
(* SetElems with lengths of a few units.  A nest of 9 holds its header and *)
(* two intervals of short elements, or one of long ones and a key, so      *)
(* sets of six elements need up to three messages, overflow on a key, on a *)
(* start and on an end, and fill a message exactly.                        *)
(***************************************************************************)
EXTENDS SetElems

MCElemLens == {2, 3}
=============================================================================
