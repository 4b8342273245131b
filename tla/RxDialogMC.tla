----------------------------- MODULE RxDialogMC ------------------------------
(***************************************************************************)
(* Small instances of RxDialog.                                            *)
(***************************************************************************)
EXTENDS RxDialog

Whole == [points |-> 0, asks |-> FALSE, waits |-> FALSE]
Decimal == [points |-> 1, asks |-> FALSE, waits |-> FALSE]
Here == [points |-> 0, asks |-> TRUE, waits |-> TRUE]

(* The commands of the server and of rx90_rviz_control. *)
MCWhole == {Whole, Here}
(* The joints of rx90_serial, sent as typed. *)
MCDecimal == {Whole, Decimal, Here}
=============================================================================
