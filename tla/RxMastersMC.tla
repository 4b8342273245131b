----------------------------- MODULE RxMastersMC -----------------------------
(***************************************************************************)
(* Small instances of RxMasters.                                           *)
(***************************************************************************)
EXTENDS RxMasters, TLC

Write(fun, addr, values) ==
  [fun |-> fun, raddr |-> 0, rn |-> 0, waddr |-> addr, vals |-> values]
WriteOne(addr, value) == Write(WRITE_ONLY_REGISTER, addr, <<value>>)
Zeros(n) == [i \in 1 .. n |-> 0]

Up == WriteOne(ADDR_CLIENT, Jogs.UP)
Catch == WriteOne(ADDR_CLIENT, ROBOT_CATCH)
Auto == Write(WRITE_MULTIPLE_REGISTERS, ADDR_CLIENT,
              <<ROBOT_AUTOMOVE, 0, 0, 10, 65446, 65446, 0>>)
TooLong == Write(WRITE_MULTIPLE_REGISTERS, ADDR_CLIENT,
                 <<ROBOT_AUTOMOVE>> \o Zeros(19))
ReadState == [fun |-> READ_REGISTERS, raddr |-> ADDR_RX90_STATE, rn |-> 2,
              waddr |-> 0, vals |-> << >>]
ReadCoils == [fun |-> 1, raddr |-> 0, rn |-> 1, waddr |-> 0, vals |-> << >>]
JogAndRead == [fun |-> READ_WRITE_REGISTERS, raddr |-> ADDR_CLIENT, rn |-> 1,
               waddr |-> ADDR_CLIENT, vals |-> <<Jogs.DOWN>>]
OpenPincers == WriteOne(ADDR_PINZA, OPEN_PINCERS)
BreakPincers == WriteOne(ADDR_PINZA, 2)

MCParked == <<400, 0, 100>>
MCLeftP == {<< >>, <<0, 100, 0>>}
MCNoP == {<< >>}
MCStackWords == {0, ADDR_CLIENT}
MCStackCommand == {ADDR_CLIENT}
MCRequests == {Up, Catch, Auto, TooLong, ReadCoils, JogAndRead}
MCRequestsLive == {Catch, ReadCoils, BreakPincers}
MCRequestsAny == {Up, Auto, TooLong, OpenPincers, BreakPincers, ReadState}
Symmetry == Permutations(Conns)
=============================================================================
