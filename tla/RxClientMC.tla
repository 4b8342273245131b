----------------------------- MODULE RxClientMC ------------------------------
(***************************************************************************)
(* Small instances of RxClient.                                            *)
(***************************************************************************)
EXTENDS RxClient, TLC

MCParked == <<400, 0, 100>>
MCLeftP == {<<0, 100, 0>>}
MCStackWords == {0}
MCTyped == {<<20>>}

(* Entry 1 of the position is 0 or what was typed or read, plus what up to *)
(* two options o add; entries 2 to 6 are 0 or those of the initial one.    *)
(* Option i sends as many words as an earlier option or the stack left.    *)
Shifts == {ToWord(10 * i) : i \in -4 .. 22}
Tails == {<<0, 0, 0, 0, 0>>,
          [i \in 1 .. 5 |-> ToWord(InitialPosition[i + 1])]}
MCPositions ==
  {<< >>} \cup
  UNION {{<<ROBOT_AUTOMOVE, a>> \o t,
          <<ROBOT_AUTOMOVE, a>> \o t \o [i \in 1 .. 3 |-> 0],
          <<ROBOT_AUTOMOVE, a>> \o t \o [i \in 1 .. 13 |-> 0]} :
            a \in Shifts, t \in Tails}
Symmetry == Permutations(Conns)
=============================================================================
