------------------------------ MODULE RxMasters ------------------------------
(***************************************************************************)
(* The server of RxServer under any Modbus masters: each connection is     *)
(* opened at most once, carries any requests of the set Requests, and may  *)
(* be closed at any moment, with requests and replies still under way.     *)
(***************************************************************************)
EXTENDS RxServer

CONSTANTS
  Requests,   \* the requests the masters may send
  MaxSent,    \* bound: requests per connection
  Backlog     \* the length modbus_tcp_listen gives the queue of connections

ASSUME RequestsAssumption == Requests \subseteq RequestSpace
ASSUME BoundsAssumption == MaxSent \in Nat /\ Backlog \in Nat

VARIABLES
  sent,       \* requests sent so far, per connection: the id of the last
  taken       \* replies taken so far, per connection

masterVars == <<sent, taken>>
vars == <<serverVars, masterVars>>

Init ==
  /\ ServerInit
  /\ sent = [c \in Conns |-> 0]
  /\ taken = [c \in Conns |-> 0]

(* The kernel completes the connection while the server is busy; main()    *)
(* sees it when it next waits for a client.                                *)
Connect(c) ==
  /\ conn[c] = "new" /\ Len(backlog) < Backlog
  /\ conn' = [conn EXCEPT ![c] = "open"]
  /\ backlog' = Append(backlog, c)
  /\ UNCHANGED <<mainVars, modbusVars, session, inbox, outbox, armVars,
                 written, masterVars>>

Send(c) ==
  /\ conn[c] = "open" /\ sent[c] < MaxSent
  /\ \E r \in Requests :
       inbox' = [inbox EXCEPT ![c] = Append(@, [id |-> sent[c] + 1, req |-> r])]
  /\ sent' = [sent EXCEPT ![c] = @ + 1]
  /\ UNCHANGED <<mainVars, modbusVars, session, backlog, conn, outbox, armVars,
                 written, taken>>

TakeReply(c) ==
  /\ conn[c] = "open" /\ outbox[c] # << >>
  /\ outbox' = [outbox EXCEPT ![c] = Tail(@)]
  /\ taken' = [taken EXCEPT ![c] = @ + 1]
  /\ UNCHANGED <<mainVars, modbusVars, session, backlog, conn, inbox, armVars,
                 written, sent>>

(* The connection ends: any suffix of the requests under way is lost, and  *)
(* so are the replies.                                                     *)
Close(c) ==
  /\ conn[c] = "open"
  /\ conn' = [conn EXCEPT ![c] = "closed"]
  /\ \E n \in 0 .. Len(inbox[c]) :
       inbox' = [inbox EXCEPT ![c] = SubSeq(@, 1, n)]
  /\ outbox' = [outbox EXCEPT ![c] = << >>]
  /\ UNCHANGED <<mainVars, modbusVars, session, backlog, armVars, written,
                 masterVars>>

MasterStep == \E c \in Conns : Connect(c) \/ Send(c) \/ TakeReply(c) \/ Close(c)

Next == (ServerStep /\ UNCHANGED masterVars) \/ MasterStep

Spec == Init /\ [][Next]_vars

(* The server's thread runs, and the controller answers every command; the *)
(* masters owe nothing.                                                    *)
FairSpec == Spec /\ WF_vars(ServerStep /\ UNCHANGED masterVars)

-----------------------------------------------------------------------------
(* Every variable stays in the set of values the code can give it. *)
TypeOK ==
  /\ ServerTypes(Requests)
  /\ sent \in [Conns -> Nat]
  /\ taken \in [Conns -> Nat]

Driving == pc = "drive" /\ action # "INIT"

(* constant.h:31: "ADDR_RX90_STATE y ADDR_CLIENT deben coincidir al        *)
(* ejecutar un comando": while the commands of an action are being sent,   *)
(* the state the masters read is the command being executed.               *)
StateMatchesCommand == Driving => regs[ADDR_RX90_STATE] = regs[ADDR_CLIENT]

(* The masters write the registers the table assigns to the client only.   *)
OnlyClientRegisters == \A r \in Requests : Written(r) \subseteq ClientRegisters

(* The register ADDR_PINZA, from which main() decides whether CATCH closes *)
(* or opens and which the client reads before it approaches an object,     *)
(* says what the pincers are whenever the server listens.  (Given an open  *)
(* serial port and masters that write only the client's registers.)        *)
PincersTrackGripper ==
  (serialOpen /\ pc # "drive") =>
    (regs[ADDR_PINZA] = CLOSE_PINCERS <=> arm.gripper = "closed")

(* Rx90::x, y, z against the controller's P and the arm, whenever the      *)
(* server listens.  Once a jog, a catch or a drop has set P, all three     *)
(* agree, whatever mixture of commands and reconnections follows: an       *)
(* automove, which sends MOVE P without setting it (the line that would is *)
(* commented out), leaves the arm where it is, and never takes it to the   *)
(* angles it prints.  Until then an automove takes the arm to the P an     *)
(* earlier run of the server left, while x, y, z stay 0.                   *)
ArmWhereServerThinks ==
  (serialOpen /\ pc # "drive") =>
    IF arm.own THEN arm.P = shift /\ arm.at = shift
               ELSE shift = Home /\ arm.at \in {Home, arm.P}

(* What the arm executes was written by the master served now: no command  *)
(* of an earlier connection survives in the register table into a new one, *)
(* not even through a write the table refuses.                             *)
CommandOfThisSession == Driving => regs[ADDR_CLIENT] \in written

(* The ids of the replies, the request in the server's hands, and the      *)
(* requests still to be read, in that order, are consecutive: each request *)
(* of an open connection is answered once, in order, with none skipped.    *)
Pipeline(c) ==
  [i \in 1 .. Len(outbox[c]) |-> outbox[c][i].id]
    \o (IF pc = "analysed" /\ session = c THEN <<query.id>> ELSE << >>)
    \o [i \in 1 .. Len(inbox[c]) |-> inbox[c][i].id]

EachRequestAnsweredOnce ==
  \A c \in Conns : conn[c] = "open" =>
    Pipeline(c) = [i \in 1 .. sent[c] - taken[c] |-> taken[c] + i]

-----------------------------------------------------------------------------
(* What a comment of the program says and the code does not do. *)

RobotCommands ==
  {ROBOT_CATCH, ROBOT_AUTOMOVE} \cup {Jogs[a] : a \in DOMAIN Jogs}

(* server.cpp:82 "obtiene el comando escrito por el cliente": a robot      *)
(* command is carried out only for the request that wrote it.              *)
OnlyWrittenCommandsRun ==
  [][(pc = "analysed" /\ pc' = "command"
        /\ regs'[ADDR_CLIENT] \in RobotCommands)
       => ADDR_CLIENT \in Written(query.req)]_vars

-----------------------------------------------------------------------------
(* The action the command register calls for: a catch is one when          *)
(* ADDR_PINZA says open, a drop when it says closed, and neither when a    *)
(* master has written another word there.                                  *)
CalledFor(a) ==
  CASE a = "CATCH" -> reg = ROBOT_CATCH /\ regs[ADDR_PINZA] = OPEN_PINCERS
    [] a = "DROP"  -> reg = ROBOT_CATCH /\ regs[ADDR_PINZA] = CLOSE_PINCERS
    [] a = "AUTOMOVE" -> reg = ROBOT_AUTOMOVE
    [] a \in DOMAIN Jogs -> reg = Jogs[a]
    [] OTHER -> FALSE

(* The controller has answered the last command of the action the command  *)
(* register calls for, and the gripper is as that action leaves it.        *)
CarriedOut ==
  /\ pc = "drive" /\ CalledFor(action) /\ line = Len(Script[action]) + 1
  /\ (serialOpen /\ action = "CATCH") => arm.gripper = "closed"
  /\ (serialOpen /\ action = "DROP") => arm.gripper = "open"

(* A command main() has confirmed is carried out to its last V+ command,   *)
(* by the action the registers call for, and the server listens again, for *)
(* every way the masters behave meanwhile.  (A catch confirmed while       *)
(* ADDR_PINZA says neither open nor closed calls for no action: main()     *)
(* only prints that it does not know the pincers.)                         *)
ConfirmedIsCarriedOut ==
  /\ (pc = "command" /\ \E a \in Actions : CalledFor(a)) ~> CarriedOut
  /\ CarriedOut ~> pc = "receive"

(* A request that reached the served connection is answered, unless its    *)
(* master closes the connection or the server, on an error of reception,   *)
(* takes it for closed.                                                    *)
ServedIsAnswered ==
  \A c \in Conns : \A n \in 1 .. MaxSent :
    (session = c /\ sent[c] >= n) ~>
       (conn[c] = "closed" \/ taken[c] + Len(outbox[c]) >= n \/ pc = "accept")
=============================================================================
