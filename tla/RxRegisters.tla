----------------------------- MODULE RxRegisters -----------------------------
(***************************************************************************)
(* The vocabulary the Modbus server and the Modbus client of the RX90      *)
(* share: the register table and its addresses, the function and command   *)
(* codes (constant.h), the 16-bit word every register is, and the signed   *)
(* reading of a word both programs use for angles.                         *)
(***************************************************************************)
EXTENDS Integers, Sequences

(* The register table: 20 words of 16 bits. *)
NUM_REG == 20
Addrs == 0 .. NUM_REG - 1
Word == 0 .. 65535

(* Mutant of ToWord: the register keeps the int. *)
ToInt(i) == i

(* Writing a C int to a uint16_t keeps its low 16 bits. *)
ToWord(i) == i % 65536

NCLIENT == 0
ADDR_RX90_STATE == 2
ADDR_CLIENT == 3
ADDR_INI_POSITION == 4
ADDR_FIN_POSITION == 9
ADDR_PINZA == 10
OPEN_PINCERS == 0
CLOSE_PINCERS == 1

(* The register table's legend names who writes each register: the client  *)
(* writes the command and the six joint positions, the server the rest.    *)
ClientRegisters == ADDR_CLIENT .. ADDR_FIN_POSITION

READ_REGISTERS == 3
WRITE_ONLY_REGISTER == 6
WRITE_MULTIPLE_REGISTERS == 16
WRITE_MASK_REGISTER == 22
READ_WRITE_REGISTERS == 23
READ_FIFO == 24
Functions == 0 .. 127

(* Values of ADDR_RX90_STATE and ADDR_CLIENT that are not robot commands. *)
DISCONNECT == -1
NO_COMMAND == 0
STATE_POWERINGON == 101
COMMAND_START == 501
COMMAND_FINISH == 502

(* The command codes main() turns into one jog of the arm.  ROBOT_DROP is  *)
(* NO_COMMAND's own value, and main() has no branch for it.                *)
Jogs == [UP |-> 908, DOWN |-> 902, LEFT |-> 904, RIGHT |-> 906,
         BACKWARD |-> 907, FORWARD |-> 909]
ROBOT_CATCH == 905
ROBOT_DROP == 0
ROBOT_AUTOMOVE == 307

(* Rx90::uintToInt and the client's uintToInt: words above 65176 are the   *)
(* two's complement of a negative angle.                                   *)
UintToInt(w) == IF w > 65176 THEN -(65536 - w) ELSE w

(* The client's char2int: the n-th number of the text replaces entry n of  *)
(* the position (entry 0 is the command), the entries the text does not    *)
(* reach keep what they held.                                              *)
Char2Int(numbers, position) ==
  [i \in DOMAIN position |->
     IF i \in 1 .. Len(numbers) THEN ToWord(numbers[i]) ELSE position[i]]
=============================================================================
