----------------------------- MODULE RxWorldMC -----------------------------
(* A small world.  The corrector gains one unit more than the fall in every *)
(* update: within the bounds a block is carried for as many updates as tol *)
(* allows and then lost, or, when supports stop its fall, after three.     *)
EXTENDS RxWorld

MCRequests == {0, 1, 2}
MCPoses == {<<15, -15, 0, 7, -7, 20>>}
MCPublishers == {"rx90_publisher"}
MCMoves == {0, 1}
=============================================================================
