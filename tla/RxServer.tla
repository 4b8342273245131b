------------------------------ MODULE RxServer ------------------------------
(***************************************************************************)
(* The Modbus server of the RX90 (src/Server_Client/modbus/server): the    *)
(* loop of main(), the class serverModBUS that takes requests off the      *)
(* connection and answers them, and the class Rx90 that sends V+ commands  *)
(* to the arm's controller one at a time.  The controller and libmodbus    *)
(* are external: they are modelled as far as the server relies on them.    *)
(*                                                                         *)
(* This module is the server's side only.  The masters at the other end of *)
(* the connections are modules of their own (RxMasters: any master;        *)
(* RxClient: the client program of the repository).                        *)
(***************************************************************************)
EXTENDS RxRegisters

CONSTANTS
  Conns,       \* TCP connections, each opened at most once
  NoConn,      \* "no connection is served"
  StackWords,  \* what an uninitialised 16-bit word may hold
  Parked,      \* where the arm stands when the server starts
  LeftP        \* what an earlier run of the server may have left in P

ASSUME ConnsAssumption == NoConn \notin Conns
ASSUME StackAssumption == StackWords \subseteq Word
ASSUME ParkedAssumption == Parked \in Int \X Int \X Int
ASSUME LeftAssumption == LeftP \subseteq (Int \X Int \X Int) \cup {<< >>}

VARIABLES
  regs,        \* mb_mapping->tab_registers
  pc,          \* where main() is
  op,          \* serverModBUS::clientOperation, the fields that are used
  query,       \* the request in hand: the id of its frame, and its type
               \* once analizeRequest has classified it
  action,      \* the Rx90::Action being carried out
  line,        \* the next command of that action's script
  shift,       \* Rx90::x, y, z
  nClient,     \* main()'s count of connections
  session,     \* the connection ctx->s belongs to
  backlog,     \* connections established but not accepted yet
  conn,        \* "new", "open" or "closed", as its master sees it
  inbox,       \* requests under way to the server, per connection
  outbox,      \* replies under way to the master, per connection
  arm,         \* the V+ controller and the arm; history, in its field own:
               \* has this run of the server set P?
  serialOpen,  \* did the serial port open?
  written      \* history: commands written to ADDR_CLIENT in this session

mainVars == <<pc, action, line, shift, nClient>>
modbusVars == <<regs, op, query>>
netVars == <<session, backlog, conn, inbox, outbox>>
armVars == <<arm, serialOpen>>
serverVars == <<mainVars, modbusVars, netVars, armVars, written>>

-----------------------------------------------------------------------------
(* Requests and replies.  A request carries the fields its function code   *)
(* has; raddr and rn are what it reads, waddr and vals what it writes.     *)

RequestSpace == [fun : Functions, raddr : Word, rn : Nat, waddr : Word,
                 vals : Seq(Word)]
ReplySpace == [kind : {"confirm", "exception"}, vals : Seq(Word)]

NoRequest == [fun |-> 0, raddr |-> 0, rn |-> 0, waddr |-> 0, vals |-> << >>]
NoQuery == [id |-> 0, req |-> NoRequest, type |-> "READ_ONLY"]

(* External, libmodbus: modbus_reply serves these functions of a mapping   *)
(* that has holding registers only, and refuses every other.               *)
Reading(r) == r.fun \in {READ_REGISTERS, READ_WRITE_REGISTERS}
Writing(r) == r.fun \in {WRITE_ONLY_REGISTER, WRITE_MULTIPLE_REGISTERS,
                         READ_WRITE_REGISTERS}

(* External, libmodbus: every address the request touches must exist. *)
Fits(r) == /\ Reading(r) => r.raddr + r.rn <= NUM_REG
           /\ Writing(r) => r.waddr + Len(r.vals) <= NUM_REG
Served(r) == (Reading(r) \/ Writing(r)) /\ Fits(r)

Written(r) == IF Served(r) /\ Writing(r)
              THEN r.waddr .. r.waddr + Len(r.vals) - 1 ELSE {}

(* The register table after modbus_reply. *)
AfterWrite(r) ==
  [a \in Addrs |-> IF a \in Written(r) THEN r.vals[a - r.waddr + 1]
                                       ELSE regs[a]]

(* modbus_reply writes before it reads. *)
ReadBack(r) == IF Reading(r)
               THEN [i \in 1 .. r.rn |-> AfterWrite(r)[r.raddr + i - 1]]
               ELSE << >>

Reply(r) == IF Served(r) THEN [kind |-> "confirm", vals |-> ReadBack(r)]
                         ELSE [kind |-> "exception", vals |-> << >>]
Exception == [kind |-> "exception", vals |-> << >>]

(* A reply to a connection its master has closed is lost. *)
Deliver(reply) ==
  outbox' = IF conn[session] = "open"
            THEN [outbox EXCEPT ![session] =
                    Append(@, [id |-> query.id, rep |-> reply])]
            ELSE outbox

-----------------------------------------------------------------------------
(* The arm.  A point of space is given relative to #ORIGIN, the place      *)
(* Rx90::init moves to; NoPoint is a location variable never set.          *)

Point == Int \X Int \X Int
NoPoint == << >>
Home == <<0, 0, 0>>
Plus(p, d) == <<p[1] + d[1], p[2] + d[2], p[3] + d[3]>>

(* DELTA_VH is 50 millimetres. *)
Delta == [UP |-> <<0, 0, 50>>, DOWN |-> <<0, 0, -50>>,
          RIGHT |-> <<-50, 0, 0>>, LEFT |-> <<50, 0, 0>>,
          BACKWARD |-> <<0, 50, 0>>, FORWARD |-> <<0, -50, 0>>]

(* The actions of Rx90; INIT stands for its constructor. *)
Actions == {"NONE", "INIT", "CATCH", "DROP", "AUTOMOVE"} \cup DOMAIN Jogs

(* Mutant of Script: the arm moves before P is set anew. *)
ScriptMovesFirst ==
  [a \in Actions |->
  CASE a = "INIT"     -> <<"SET #ORIGIN", "SPEED", "ABOVE", "MOVE #ORIGIN",
                           "HERE ORIGIN", "OPENI", "ENABLE CP">>
    [] a = "CATCH"    -> <<"CLOSEI", "SET P", "MOVE P">>
    [] a = "DROP"     -> <<"OPENI", "SET P", "MOVE P">>
    [] a = "AUTOMOVE" -> <<"MOVE P">>
    [] OTHER          -> <<"MOVE P", "SET P">>]

(* The V+ commands of each action, in the order the code sends them. *)
Script ==
  [a \in Actions |->
  CASE a = "INIT"     -> <<"SET #ORIGIN", "SPEED", "ABOVE", "MOVE #ORIGIN",
                           "HERE ORIGIN", "OPENI", "ENABLE CP">>
    [] a = "CATCH"    -> <<"CLOSEI", "SET P", "MOVE P">>
    [] a = "DROP"     -> <<"OPENI", "SET P", "MOVE P">>
    [] a = "AUTOMOVE" -> <<"MOVE P">>
    [] OTHER          -> <<"SET P", "MOVE P">>]

(* External, V+: what the controller does with one command.  A move to a   *)
(* location that was never set is refused and the arm stays.               *)
Obey(a, command) ==
  CASE command = "MOVE #ORIGIN" -> [a EXCEPT !.at = Home]
    [] command = "HERE ORIGIN"  -> [a EXCEPT !.origin = a.at]
    [] command = "OPENI"        -> [a EXCEPT !.gripper = "open"]
    [] command = "CLOSEI"       -> [a EXCEPT !.gripper = "closed"]
    [] command = "SET P"        -> [a EXCEPT !.P = Plus(a.origin, shift),
                                             !.own = TRUE]
    [] command = "MOVE P"       -> [a EXCEPT !.at = IF a.P = NoPoint THEN @
                                                     ELSE a.P]
    [] OTHER -> a

-----------------------------------------------------------------------------
(* Start-up: init() of the server, then the constructor of Rx90.  The      *)
(* controller is not restarted with the server: its locations keep what an *)
(* earlier run gave them.                                                  *)

ServerInit ==
  /\ regs = [a \in Addrs |->
               IF a = ADDR_RX90_STATE THEN ToWord(DISCONNECT)
               ELSE IF a = ADDR_PINZA THEN OPEN_PINCERS ELSE NO_COMMAND]
  /\ pc = "drive" /\ action = "INIT" /\ line = 1
  /\ shift = Home
  /\ nClient = 1
  /\ op \in [addr_write : StackWords, numReg_write : StackWords]
  /\ query = NoQuery
  /\ session = NoConn
  /\ backlog = << >>
  /\ conn = [c \in Conns |-> "new"]
  /\ inbox = [c \in Conns |-> << >>]
  /\ outbox = [c \in Conns |-> << >>]
  /\ serialOpen \in BOOLEAN
  /\ arm \in [origin : {Parked}, P : LeftP, at : {Parked},
              gripper : {"open", "closed"}, own : {FALSE}]
  /\ written = {}

(* Mutant of SendCommand: it waits for the '?' only HERE is answered with. *)
SendCommandAwaitsQuestion ==
  /\ pc = "drive" /\ line <= Len(Script[action])
  /\ Script[action][line] # "MOVE P"
  /\ arm' = IF serialOpen THEN Obey(arm, Script[action][line]) ELSE arm
  /\ line' = line + 1
  /\ UNCHANGED <<pc, action, shift, nClient, modbusVars, netVars, serialOpen,
                 written>>

(* Rx90::sendCommand: the command goes out and the call returns when the   *)
(* controller has answered; without a serial port it only prints.          *)
SendCommand ==
  /\ pc = "drive" /\ line <= Len(Script[action])
  /\ arm' = IF serialOpen THEN Obey(arm, Script[action][line]) ELSE arm
  /\ line' = line + 1
  /\ UNCHANGED <<pc, action, shift, nClient, modbusVars, netVars, serialOpen,
                 written>>

(* Mutant of Returned: the drop branch does not write ADDR_PINZA. *)
ReturnedDropUnrecorded ==
  /\ pc = "drive" /\ line = Len(Script[action]) + 1
  /\ pc' = IF action = "INIT" THEN "accept" ELSE "receive"
  /\ regs' = CASE action = "INIT"  -> [regs EXCEPT ![ADDR_RX90_STATE] =
                                                         STATE_POWERINGON]
               [] action = "CATCH" -> [regs EXCEPT ![ADDR_PINZA] =
                                                         CLOSE_PINCERS]
               [] OTHER            -> regs
  /\ line' = 1
  /\ UNCHANGED <<action, shift, nClient, op, query, netVars, armVars, written>>

(* Back in main() after the last command of the script: the constructor's  *)
(* is followed by STATE_POWERINGON and the first accept, a catch or drop   *)
(* by the write of ADDR_PINZA, and the loop goes round.                    *)
Returned ==
  /\ pc = "drive" /\ line = Len(Script[action]) + 1
  /\ pc' = IF action = "INIT" THEN "accept" ELSE "receive"
  /\ regs' = CASE action = "INIT"  -> [regs EXCEPT ![ADDR_RX90_STATE] =
                                                         STATE_POWERINGON]
               [] action = "CATCH" -> [regs EXCEPT ![ADDR_PINZA] =
                                                         CLOSE_PINCERS]
               [] action = "DROP"  -> [regs EXCEPT ![ADDR_PINZA] =
                                                         OPEN_PINCERS]
               [] OTHER            -> regs
  /\ line' = 1
  /\ UNCHANGED <<action, shift, nClient, op, query, netVars,
                 armVars, written>>

-----------------------------------------------------------------------------
(* Mutant of MarkSession: the last command stays in the register. *)
MarkSessionNot(mark) == regs

(* main() marks the ends of a session in ADDR_CLIENT itself, over whatever *)
(* command the register held.                                              *)
MarkSession(mark) == [regs EXCEPT ![ADDR_CLIENT] = mark]

(* waitClient: the first time main() leaves NCLIENT alone, later times it  *)
(* counts.                                                                 *)
WaitClient ==
  /\ pc = "accept" /\ backlog # << >>
  /\ session' = Head(backlog)
  /\ backlog' = Tail(backlog)
  /\ regs' = IF session = NoConn
             THEN MarkSession(COMMAND_START)
             ELSE [MarkSession(COMMAND_START) EXCEPT ![NCLIENT] =
                                                       ToWord(nClient + 1)]
  /\ nClient' = IF session = NoConn THEN nClient ELSE nClient + 1
  /\ written' = {}
  /\ pc' = "receive"
  /\ UNCHANGED <<action, line, shift, op, query, conn, inbox, outbox,
                 armVars>>

(* analizeRequest: the fields of clientOperation a request sets.  The      *)
(* default branch sets none of them.                                       *)
ClientOperation(r) ==
  CASE r.fun = WRITE_ONLY_REGISTER ->
         [addr_write |-> r.waddr, numReg_write |-> 1]
    [] r.fun = WRITE_MASK_REGISTER ->
         [addr_write |-> r.waddr, numReg_write |-> 1]
    [] r.fun \in {WRITE_MULTIPLE_REGISTERS, READ_WRITE_REGISTERS} ->
         [addr_write |-> r.waddr, numReg_write |-> Len(r.vals)]
    [] OTHER -> op

(* The variable type is uninitialised when the default branch is taken. *)
RequestTypes(r) ==
  CASE r.fun \in {READ_REGISTERS, READ_FIFO} -> {"READ_ONLY"}
    [] r.fun \in {WRITE_ONLY_REGISTER, WRITE_MULTIPLE_REGISTERS,
                  WRITE_MASK_REGISTER} -> {"WRITE_ONLY"}
    [] r.fun = READ_WRITE_REGISTERS -> {"READ_WRITE"}
    [] OTHER -> {"READ_ONLY", "WRITE_ONLY", "NOT_PERMITTED"}

(* The check of the registers a request writes, as the code has it. *)
Forbidden(o) ==
  \E i \in 0 .. o.numReg_write - 1 :
    /\ o.addr_write + i < ADDR_CLIENT
    /\ o.addr_write + i > ADDR_FIN_POSITION

(* modbus_receive returns a request, and analizeRequest classifies it. *)
Receive ==
  /\ pc = "receive" /\ inbox[session] # << >>
  /\ LET frame == Head(inbox[session])
     IN  /\ op' = ClientOperation(frame.req)
         /\ \E t \in RequestTypes(frame.req) :
              query' = [id |-> frame.id, req |-> frame.req,
                        type |-> IF t # "READ_ONLY" /\ Forbidden(op')
                                 THEN "NOT_PERMITTED" ELSE t]
  /\ inbox' = [inbox EXCEPT ![session] = Tail(@)]
  /\ pc' = "analysed"
  /\ UNCHANGED <<action, line, shift, nClient, regs, session, backlog, conn,
                 outbox, armVars, written>>

(* receiveCommand returns RX90_COMMAND for a write that starts at          *)
(* ADDR_CLIENT; it answers every other request itself and goes on waiting. *)
IsRx90Command ==
  /\ query.type \notin {"READ_ONLY", "NOT_PERMITTED"}
  /\ op.addr_write = ADDR_CLIENT

(* modbus_reply: the registers change, the reply leaves. *)
Confirm ==
  /\ regs' = AfterWrite(query.req)
  /\ Deliver(Reply(query.req))
  /\ written' = IF ADDR_CLIENT \in Written(query.req)
                THEN written \cup {AfterWrite(query.req)[ADDR_CLIENT]}
                ELSE written
  /\ query' = NoQuery

Answer ==
  /\ pc = "analysed" /\ ~IsRx90Command /\ query.type # "NOT_PERMITTED"
  /\ Confirm
  /\ pc' = "receive"
  /\ UNCHANGED <<action, line, shift, nClient, op, session,
                 backlog, conn, inbox, armVars>>

(* Mutant of Refuse: the request is dropped without an answer. *)
RefuseSilently ==
  /\ pc = "analysed" /\ query.type = "NOT_PERMITTED"
  /\ query' = NoQuery
  /\ pc' = "receive"
  /\ UNCHANGED <<action, line, shift, nClient, regs, op, netVars, armVars,
                 written>>

(* sendException(1). *)
Refuse ==
  /\ pc = "analysed" /\ query.type = "NOT_PERMITTED"
  /\ Deliver(Exception)
  /\ query' = NoQuery
  /\ pc' = "receive"
  /\ UNCHANGED <<action, line, shift, nClient, regs, op, session, backlog,
                 conn, inbox, armVars, written>>

(* Mutant of ConfirmCommand: the command is carried out unconfirmed. *)
ConfirmCommandSilently ==
  /\ pc = "analysed" /\ IsRx90Command
  /\ regs' = AfterWrite(query.req)
  /\ written' = IF ADDR_CLIENT \in Written(query.req)
                THEN written \cup {AfterWrite(query.req)[ADDR_CLIENT]}
                ELSE written
  /\ query' = NoQuery
  /\ pc' = "command"
  /\ UNCHANGED <<action, line, shift, nClient, op, netVars, armVars>>

(* main() confirms a robot command before it carries it out. *)
ConfirmCommand ==
  /\ pc = "analysed" /\ IsRx90Command
  /\ Confirm
  /\ pc' = "command"
  /\ UNCHANGED <<action, line, shift, nClient, op, session,
                 backlog, conn, inbox, armVars>>

-----------------------------------------------------------------------------
(* One branch of main()'s chain of ifs each; reg is the word main() reads  *)
(* back from ADDR_CLIENT.                                                  *)
reg == regs[ADDR_CLIENT]

(* Mutant of Start: the "reg == ROBOT_DROP" of the drop branch assigns. *)
StartAsDrop(a) ==
  /\ action' = a
  /\ line' = 1
  /\ regs' = [regs EXCEPT ![ADDR_RX90_STATE] =
                            IF a = "DROP" THEN ROBOT_DROP ELSE reg]
  /\ pc' = "drive"
  /\ UNCHANGED <<nClient, op, query, netVars, armVars, written>>

(* The action begins: ADDR_RX90_STATE takes the command. *)
Start(a) ==
  /\ action' = a
  /\ line' = 1
  /\ regs' = [regs EXCEPT ![ADDR_RX90_STATE] = reg]
  /\ pc' = "drive"
  /\ UNCHANGED <<nClient, op, query, netVars, armVars, written>>

(* UP, DOWN, LEFT, RIGHT, BACKWARD, FORWARD: Rx90::move adds to x, y or z. *)
Jog(a) ==
  /\ pc = "command" /\ reg = Jogs[a]
  /\ Start(a)
  /\ shift' = Plus(shift, Delta[a])

(* CATCH toggles: it closes open pincers and opens closed ones. *)
Pincers ==
  /\ pc = "command" /\ reg = ROBOT_CATCH
  /\ \/ regs[ADDR_PINZA] = OPEN_PINCERS /\ Start("CATCH")
     \/ regs[ADDR_PINZA] = CLOSE_PINCERS /\ Start("DROP")
  /\ UNCHANGED shift

(* Rx90::automove: the target is printed, not sent. *)
Automove ==
  /\ pc = "command" /\ reg = ROBOT_AUTOMOVE
  /\ Start("AUTOMOVE")
  /\ UNCHANGED shift

(* CATCH with pincers in neither state leaves action as it was, any other  *)
(* word makes it NONE; neither moves the arm.                              *)
NoAction ==
  /\ pc = "command"
  /\ \/ /\ reg = ROBOT_CATCH
        /\ regs[ADDR_PINZA] \notin {OPEN_PINCERS, CLOSE_PINCERS}
        /\ UNCHANGED action
     \/ /\ reg \notin {ROBOT_CATCH, ROBOT_AUTOMOVE}
                        \cup {Jogs[a] : a \in DOMAIN Jogs}
        /\ action' = "NONE"
  /\ pc' = "receive"
  /\ UNCHANGED <<line, shift, nClient, modbusVars, netVars, armVars, written>>

(* modbus_receive returns -1: the master has closed the connection and the *)
(* requests it had sent are read, or something goes wrong while a request  *)
(* arrives (a pause in the frame, a damaged one).  Either way main() waits *)
(* for another client and never reads the old connection again, which it   *)
(* does not close.                                                         *)
Disconnect ==
  /\ pc = "receive" /\ (inbox[session] = << >> => conn[session] = "closed")
  /\ regs' = MarkSession(COMMAND_FINISH)
  /\ pc' = "accept"
  /\ UNCHANGED <<action, line, shift, nClient, op, query, netVars,
                 armVars, written>>

RunCommand == Pincers \/ Automove \/ NoAction \/ \E a \in DOMAIN Jogs : Jog(a)

ServerStep ==
  \/ SendCommand \/ Returned \/ WaitClient \/ Receive \/ Answer \/ Refuse
  \/ ConfirmCommand \/ RunCommand \/ Disconnect

-----------------------------------------------------------------------------
Frames(R) == [id : Nat, req : R]
Queries(R) ==
  [id : Nat, req : R \cup {NoRequest},
   type : {"READ_ONLY", "WRITE_ONLY", "READ_WRITE", "NOT_PERMITTED"}]
Replies == [id : Nat, rep : ReplySpace]

(* What the server's variables hold when the masters send requests of R;   *)
(* a part of the type invariants of the modules that have masters.         *)
ServerTypes(R) ==
  /\ regs \in [Addrs -> Word]
  /\ pc \in {"drive", "accept", "receive", "analysed", "command"}
  /\ op \in [addr_write : Word, numReg_write : Nat]
  /\ query \in Queries(R)
  /\ action \in Actions
  /\ line \in 1 .. 8
  /\ shift \in Point
  /\ nClient \in Nat
  /\ \/ session \in Conns
     \/ /\ session = NoConn
        /\ pc = "accept" \/ (pc = "drive" /\ action = "INIT")
  /\ backlog \in Seq(Conns)
  /\ conn \in [Conns -> {"new", "open", "closed"}]
  /\ inbox \in [Conns -> Seq(Frames(R))]
  /\ outbox \in [Conns -> Seq(Replies)]
  /\ arm \in [origin : Point, P : Point \cup {NoPoint}, at : Point,
              gripper : {"open", "closed"}, own : BOOLEAN]
  /\ serialOpen \in BOOLEAN
  /\ written \subseteq Word
=============================================================================
