-------------------------- MODULE RxInteractiveMC --------------------------
(* Two poses of the arm and three of the cube: free, in contact in other   *)
(* points, and in a collision without points.                              *)
EXTENDS RxInteractive

MCArmPoses == {1, 2}
MCWorldPoses == {1, 2, 3}
MCPoints == {"a", "b", "c"}
MCContacts ==
  [pair \in MCArmPoses \X MCWorldPoses |->
     CASE pair[2] = 1 -> [collision |-> FALSE, points |-> {}]
       [] pair[2] = 2 -> [collision |-> TRUE,
                          points |-> IF pair[1] = 1 THEN {"a", "b"}
                                     ELSE {"b", "c"}]
       [] OTHER -> [collision |-> TRUE, points |-> {}]]
=============================================================================
