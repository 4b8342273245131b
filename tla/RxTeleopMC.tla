---------------------------- MODULE RxTeleopMC ------------------------------
(***************************************************************************)
(* Small instances of RxTeleop.                                            *)
(***************************************************************************)
EXTENDS RxTeleop

(* Within the limits; within them only until truncated; with tenths, as in *)
(* a comment of rx90_serial's main().                                      *)
MCTyped == {<<1220, -770, -190, 550, 450, -430>>,
            <<-1550, -1985, 0, 0, 0, 0>>,
            <<-591, -888, 373, 906, 63, -430>>}
MCAll == {"No_modbus", "rx90_serial", "rx90_rviz_control"}
MCRviz == {"rx90_rviz_control"}
=============================================================================
