--------------------------- MODULE RxHandoverMC ---------------------------
(* A call takes a second at most, the links are made in three, and three   *)
(* calls may fail.                                                         *)
EXTENDS RxHandover
=============================================================================
