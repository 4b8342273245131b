------------------------------- MODULE RxClient -------------------------------
(***************************************************************************)
(* The client program of the RX90 (src/Server_Client/modbus/client)        *)
(* together with the server: each connection belongs to one run of the     *)
(* program.  An option of the menu is a list of Modbus calls the program   *)
(* makes one after the other; a call sends a request and returns when a    *)
(* reply arrives or the response timeout passes, and the request of a call *)
(* that timed out is still on its way.                                     *)
(***************************************************************************)
EXTENDS RxServer

CONSTANTS
  StackInts,   \* what the uninitialised numReg may hold
  Typed,       \* the positions a user may type for option m
  MaxOptions,  \* bound: options chosen, over all runs of the program
  MaxTimeouts, \* bound: calls that time out
  Backlog,     \* the length modbus_tcp_listen gives the queue of connections
  Positions    \* what a write of several registers may carry, for MasterRequests

ASSUME InputAssumption == StackInts \subseteq Int /\ Typed \subseteq Seq(Int)
ASSUME BoundsAssumption ==
  MaxOptions \in Nat /\ MaxTimeouts \in Nat /\ Backlog \in Nat
ASSUME PositionsAssumption == Positions \subseteq Seq(Word)

VARIABLES
  todo,        \* the calls of the chosen option still to return
  waiting,     \* the id of the call under way, 0 when none is
  position,    \* the array position, and the word after it that i writes
  numReg,
  options,     \* options chosen so far
  timeouts,    \* calls timed out so far
  sent,        \* requests sent so far
  taken,       \* replies taken so far
  clean,       \* history: no call of the present option has failed
  overran      \* history: a request that writes ADDR_PINZA has been sent

callVars == <<todo, waiting, position, numReg, sent, taken>>
countVars == <<options, timeouts>>
clientVars == <<callVars, countVars, clean, overran>>
vars == <<serverVars, clientVars>>

-----------------------------------------------------------------------------
(* The calls.  The field needs says how the pincers must be while the arm  *)
(* moves, for the properties only.                                         *)

Command(code) == [do |-> "command", code |-> code, needs |-> "any"]
Toggle == [do |-> "toggle", needs |-> "any"]
Message == [do |-> "message", needs |-> "any"]
Move(by, needs) == [do |-> "move", by |-> by, needs |-> needs]
ReadPosition(needs) == [do |-> "readPosition", needs |-> needs]
CatchIf(state) == [do |-> "catchIf", state |-> state, needs |-> "any"]
ReadAll == [do |-> "readAll", needs |-> "any"]

(* Mutant of MoveObject: the object is not caught before it is displaced. *)
MoveObjectUncaught ==
  <<Move(-10, "any"), ReadPosition("any"), CatchIf(CLOSE_PINCERS),
    Move(10, "open"), ReadPosition("open"), CatchIf(CLOSE_PINCERS),
    Move(90, "closed"), ReadPosition("closed"), CatchIf(CLOSE_PINCERS),
    Move(-10, "open"), ReadPosition("open")>>

(* Option o: approach the object with open pincers, close them on it,      *)
(* displace it, let it go, draw back.                                      *)
MoveObject ==
  <<Move(-10, "any"), ReadPosition("any"), CatchIf(CLOSE_PINCERS),
    Move(10, "open"), ReadPosition("open"), CatchIf(OPEN_PINCERS),
    Move(90, "closed"), ReadPosition("closed"), CatchIf(CLOSE_PINCERS),
    Move(-10, "open"), ReadPosition("open")>>

InitialPosition == <<0, 0, 10, -90, -90, 0>>

(* Key 8 of the manual control: the test for the other arrows stands       *)
(* inside the branch of 8, which ends with a second write.                 *)
KeyUp == <<Command(Jogs.UP), Command(Jogs.UP)>>

(* What the arrow keys are drawn for: 8 up, 2 down, 4 left, 6 right.       *)
ArrowKeys == [UP |-> KeyUp, DOWN |-> << >>, LEFT |-> << >>, RIGHT |-> << >>]

-----------------------------------------------------------------------------
(* The array position and numReg are uninitialised (client.cpp:23, 28).    *)
Init ==
  /\ ServerInit
  /\ todo = [c \in Conns |-> << >>]
  /\ waiting = [c \in Conns |-> 0]
  /\ position \in [Conns -> [0 .. 6 -> StackWords]]
  /\ numReg \in [Conns -> StackInts]
  /\ options = 0
  /\ timeouts = 0
  /\ sent = [c \in Conns |-> 0]
  /\ taken = [c \in Conns |-> 0]
  /\ clean = [c \in Conns |-> TRUE]
  /\ overran = FALSE

Connect(c) ==
  /\ conn[c] = "new" /\ Len(backlog) < Backlog
  /\ conn' = [conn EXCEPT ![c] = "open"]
  /\ backlog' = Append(backlog, c)
  /\ UNCHANGED <<mainVars, modbusVars, session, inbox, outbox, armVars,
                 written, clientVars>>

(* The user chooses at the menu; the program does what precedes the calls. *)
Choose(c, calls, p, n) ==
  /\ conn[c] = "open" /\ todo[c] = << >> /\ options < MaxOptions
  /\ todo' = [todo EXCEPT ![c] = calls]
  /\ position' = [position EXCEPT ![c] = p]
  /\ numReg' = [numReg EXCEPT ![c] = n]
  /\ options' = options + 1
  /\ clean' = [clean EXCEPT ![c] = TRUE]
  /\ UNCHANGED <<serverVars, waiting, timeouts, sent, taken, overran>>

(* c, an arrow: 8 sends UP twice, the other arrows send nothing. *)
OptionArrow(c) == \E a \in DOMAIN ArrowKeys :
  Choose(c, ArrowKeys[a], position[c], numReg[c])

(* c, 9. *)
OptionBackward(c) ==
  Choose(c, <<Command(Jogs.BACKWARD)>>, position[c], numReg[c])

(* c, 5. *)
OptionPincers(c) == Choose(c, <<Toggle>>, position[c], numReg[c])

(* m: the position typed, which may have fewer than six numbers. *)
OptionMove(c) == \E numbers \in Typed :
  Choose(c, <<Move(0, "any")>>, Char2Int(numbers, position[c]), 7)

(* o. *)
OptionObject(c) == Choose(c, MoveObject, position[c], 7)

(* i: the number of registers is whatever an earlier option left. *)
OptionInitial(c) ==
  Choose(c, <<Move(0, "any")>>, Char2Int(InitialPosition, position[c]),
         numReg[c])

(* p. *)
OptionPosition(c) == Choose(c, <<ReadPosition("any")>>, position[c], 7)

(* r. *)
OptionRegisters(c) == Choose(c, <<ReadAll>>, position[c], NUM_REG)

Option(c) ==
  \/ OptionArrow(c) \/ OptionBackward(c) \/ OptionPincers(c) \/ OptionMove(c)
  \/ OptionObject(c) \/ OptionInitial(c) \/ OptionPosition(c)
  \/ OptionRegisters(c)

-----------------------------------------------------------------------------
(* Mutant of Shifted: the sum is not cut to a word. *)
ShiftedUnbounded(c, by) ==
  [position[c] EXCEPT ![0] = ROBOT_AUTOMOVE, ![1] = @ + by]

(* The position a call is about to send: the command in entry 0, and       *)
(* entry 1 shifted by what option o adds.                                  *)
Shifted(c, by) ==
  [position[c] EXCEPT ![0] = ROBOT_AUTOMOVE, ![1] = ToWord(@ + by)]

(* Mutant of WriteRequest: COMMAND_ADDR is one too low. *)
WriteRequestBelow(fun, vals) ==
  [fun |-> fun, raddr |-> 0, rn |-> 0, waddr |-> ADDR_RX90_STATE,
   vals |-> vals]

WriteRequest(fun, vals) ==
  [fun |-> fun, raddr |-> 0, rn |-> 0, waddr |-> ADDR_CLIENT, vals |-> vals]
ReadRequest(addr, n) ==
  [fun |-> READ_REGISTERS, raddr |-> addr, rn |-> n, waddr |-> 0,
   vals |-> << >>]

(* The request of a call.  More than seven registers are read past the     *)
(* array position; the words found there are taken to be 0.                *)
RequestOf(c, call) ==
  CASE call.do = "command" -> WriteRequest(WRITE_ONLY_REGISTER, <<call.code>>)
    [] call.do = "toggle"  -> WriteRequest(WRITE_ONLY_REGISTER, <<ROBOT_CATCH>>)
    [] call.do = "move"    ->
         WriteRequest(WRITE_MULTIPLE_REGISTERS,
                      [i \in 1 .. numReg[c] |->
                         IF i <= 7 THEN Shifted(c, call.by)[i - 1] ELSE 0])
    [] call.do = "readPosition"         -> ReadRequest(ADDR_CLIENT, numReg[c])
    [] call.do = "readAll"              -> ReadRequest(0, numReg[c])
    [] call.do \in {"message", "catchIf"} -> ReadRequest(ADDR_PINZA, 1)

Call(c) ==
  /\ conn[c] = "open" /\ waiting[c] = 0 /\ todo[c] # << >>
  /\ sent' = [sent EXCEPT ![c] = @ + 1]
  /\ waiting' = [waiting EXCEPT ![c] = sent'[c]]
  /\ inbox' = [inbox EXCEPT ![c] =
                 Append(@, [id |-> sent'[c], req |-> RequestOf(c, Head(todo[c]))])]
  /\ position' = IF Head(todo[c]).do = "move"
                 THEN [position EXCEPT ![c] = Shifted(c, Head(todo[c]).by)]
                 ELSE position
  /\ overran' = (overran \/ ADDR_PINZA \in Written(RequestOf(c, Head(todo[c]))))
  /\ UNCHANGED <<mainVars, modbusVars, session, backlog, conn, outbox, armVars,
                 written, todo, numReg, taken, countVars, clean>>

(* What follows a call that returned true with these values. *)
Continuation(call, vals) ==
  CASE call.do = "toggle" -> <<Message>>
    [] call.do = "catchIf" /\ vals[1] = call.state -> <<Command(ROBOT_CATCH)>>
    [] OTHER -> << >>

(* External, libmodbus: the transaction id of a reply is compared with the *)
(* request's, and an exception is an error.                                *)
Matches(c) == /\ Head(outbox[c]).id = waiting[c]
              /\ Head(outbox[c]).rep.kind = "confirm"

Arrived(c) == conn[c] = "open" /\ waiting[c] # 0 /\ outbox[c] # << >>

(* A reply arrives and the call returns true... *)
ReturnTrue(c) ==
  /\ Arrived(c) /\ Matches(c)
  /\ LET vals == Head(outbox[c]).rep.vals
     IN  /\ todo' = [todo EXCEPT ![c] =
                       Continuation(Head(@), vals) \o Tail(@)]
         /\ position' = IF Head(todo[c]).do = "readPosition"
                        THEN [position EXCEPT ![c] =
                                [i \in 0 .. 6 |-> vals[i + 1]]]
                        ELSE position
  /\ waiting' = [waiting EXCEPT ![c] = 0]
  /\ outbox' = [outbox EXCEPT ![c] = Tail(@)]
  /\ taken' = [taken EXCEPT ![c] = @ + 1]
  /\ UNCHANGED <<mainVars, modbusVars, session, backlog, conn, inbox, armVars,
                 written, numReg, sent, countVars, clean, overran>>

(* ... or false, which is printed: the program goes on with the next call. *)
GiveUp(c) ==
  /\ todo' = [todo EXCEPT ![c] = Tail(@)]
  /\ waiting' = [waiting EXCEPT ![c] = 0]
  /\ clean' = [clean EXCEPT ![c] = FALSE]
  /\ UNCHANGED <<mainVars, modbusVars, session, backlog, conn, inbox, armVars,
                 written, position, numReg, sent, options, overran>>

ReturnFalse(c) ==
  /\ Arrived(c) /\ ~Matches(c)
  /\ GiveUp(c)
  /\ outbox' = [outbox EXCEPT ![c] = Tail(@)]
  /\ taken' = [taken EXCEPT ![c] = @ + 1]
  /\ UNCHANGED timeouts

(* No reply within the response timeout. *)
Timeout(c) ==
  /\ conn[c] = "open" /\ waiting[c] # 0 /\ outbox[c] = << >>
  /\ timeouts < MaxTimeouts
  /\ timeouts' = timeouts + 1
  /\ GiveUp(c)
  /\ UNCHANGED <<outbox, taken>>

(* The program ends, by option q or because it is killed in a call. *)
Quit(c) ==
  /\ conn[c] = "open"
  /\ conn' = [conn EXCEPT ![c] = "closed"]
  /\ outbox' = [outbox EXCEPT ![c] = << >>]
  /\ UNCHANGED <<mainVars, modbusVars, session, backlog, inbox, armVars,
                 written, clientVars>>

ClientStep ==
  \E c \in Conns : Connect(c) \/ Option(c) \/ Call(c) \/ ReturnTrue(c)
                     \/ ReturnFalse(c) \/ Timeout(c) \/ Quit(c)

Next == (ServerStep /\ UNCHANGED clientVars) \/ ClientStep

Spec == Init /\ [][Next]_vars

-----------------------------------------------------------------------------
Needs == {"any", "open", "closed"}
Calls ==
  [do : {"command"}, code : {Jogs.UP, Jogs.BACKWARD, ROBOT_CATCH},
   needs : {"any"}]
  \cup [do : {"toggle", "message", "readAll"}, needs : {"any"}]
  \cup [do : {"move"}, by : Int, needs : Needs]
  \cup [do : {"readPosition"}, needs : Needs]
  \cup [do : {"catchIf"}, state : {OPEN_PINCERS, CLOSE_PINCERS},
        needs : {"any"}]

(* Every variable of the client stays in its type. *)
TypeOK ==
  /\ todo \in [Conns -> Seq(Calls)]
  /\ waiting \in [Conns -> Nat]
  /\ \A c \in Conns : waiting[c] # 0 => todo[c] # << >> /\ waiting[c] = sent[c]
  /\ position \in [Conns -> [0 .. 6 -> Word]]
  /\ numReg \in [Conns -> StackInts \cup {7, NUM_REG}]
  /\ options \in 0 .. MaxOptions
  /\ timeouts \in 0 .. MaxTimeouts
  /\ sent \in [Conns -> Nat] /\ taken \in [Conns -> Nat]
  /\ clean \in [Conns -> BOOLEAN]
  /\ overran \in BOOLEAN

(* Key 5: when the program prints that the pincers were closed or opened,  *)
(* that is what they are now, however many of its earlier calls timed out  *)
(* and are still being answered, until an option i chosen while numReg     *)
(* holds 8 to 17 writes past the position over ADDR_PINZA.                 *)
MessageTellsPincers ==
  [][\A c \in Conns :
       (ReturnTrue(c) /\ serialOpen /\ ~overran
          /\ Head(todo[c]).do = "message") =>
         (Head(outbox[c]).rep.vals[1] = CLOSE_PINCERS
            <=> arm.gripper = "closed")]_vars

(* Option o: unless one of its calls failed, the arm surrounds the object  *)
(* and draws back from it with open pincers, and displaces it with closed  *)
(* ones.  The confirmation of a catch says nothing of its execution: that  *)
(* the server carries out a session's requests one at a time does.  (An    *)
(* option i of any program that wrote over ADDR_PINZA ends this as well.)  *)
PincersSuitMove ==
  (serialOpen /\ ~overran /\ pc = "drive" /\ action = "AUTOMOVE"
     /\ conn[session] = "open" /\ todo[session] # << >> /\ clean[session]) =>
    Head(todo[session]).needs \in {"any", arm.gripper}

(* The client program is one of the masters of RxMasters, and one that     *)
(* writes only the client's registers, or more than the table has.         *)
MasterRequests ==
  {[fun |-> READ_REGISTERS, raddr |-> a, rn |-> n, waddr |-> 0, vals |-> << >>] :
     a \in {0, ADDR_CLIENT, ADDR_PINZA}, n \in {1, 7, NUM_REG}}
  \cup {[fun |-> WRITE_ONLY_REGISTER, raddr |-> 0, rn |-> 0,
         waddr |-> ADDR_CLIENT, vals |-> <<code>>] :
          code \in {Jogs.UP, Jogs.BACKWARD, ROBOT_CATCH}}
  \cup {[fun |-> WRITE_MULTIPLE_REGISTERS, raddr |-> 0, rn |-> 0,
         waddr |-> ADDR_CLIENT, vals |-> p] : p \in Positions}

(* An option makes at most eleven calls, each followed by at most one more. *)
MaxCalls == 22 * MaxOptions

Masters == INSTANCE RxMasters WITH Requests <- MasterRequests,
                                   MaxSent <- MaxCalls

(* Every behaviour of the client program with the server is a behaviour of *)
(* the server under those masters, so what holds there holds here.         *)
ClientIsMaster == Masters!Spec
ClientKeepsToItsRegisters == Masters!OnlyClientRegisters
=============================================================================
