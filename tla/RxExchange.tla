----------------------------- MODULE RxExchange ------------------------------
(***************************************************************************)
(* What every caller of Rx90::sendCommand takes for granted: commands are  *)
(* carried out one at a time, and a call returns when its command has      *)
(* been.                                                                   *)
(***************************************************************************)
EXTENDS Naturals

VARIABLES
  state,  \* "idle", "sent" or "executed": the command in hand
  count   \* commands carried out so far

Init == state = "idle" /\ count = 0

Call == state = "idle" /\ state' = "sent" /\ UNCHANGED count
Execute == state = "sent" /\ state' = "executed" /\ count' = count + 1
Return == state = "executed" /\ state' = "idle" /\ UNCHANGED count

Next == Call \/ Execute \/ Return

Spec == Init /\ [][Next]_<<state, count>>
=============================================================================
