--------------------------- MODULE RxMastersProofs ---------------------------
(***************************************************************************)
(* Theorems about RxMasters, for every set of connections and of requests. *)
(***************************************************************************)
EXTENDS RxMasters, RxServerProofs

USE DEF NUM_REG, NCLIENT, ADDR_RX90_STATE, ADDR_CLIENT, ADDR_INI_POSITION,
        ADDR_FIN_POSITION, ADDR_PINZA, OPEN_PINCERS, CLOSE_PINCERS,
        DISCONNECT, NO_COMMAND, STATE_POWERINGON, COMMAND_START,
        COMMAND_FINISH, ROBOT_CATCH, ROBOT_DROP, ROBOT_AUTOMOVE

(* The server starts with every variable in its type. *)
LEMMA TypeInit == Init => TypeOK
BY ServerTypeInit DEF Init, TypeOK

(* Every step of the server or of a master keeps the types. *)
LEMMA TypeStep == TypeOK /\ [Next]_vars => TypeOK'
<1> SUFFICES ASSUME TypeOK, [Next]_vars PROVE TypeOK'
  OBVIOUS
<1> USE DEF mainVars, modbusVars, netVars, armVars, serverVars, masterVars, vars
<1>1. ASSUME ServerStep, UNCHANGED masterVars PROVE TypeOK'
  <2>1. ServerTypes(Requests)'
    BY <1>1, RequestsAssumption, ServerTypeStep DEF TypeOK
  <2> QED BY <1>1, <2>1 DEF TypeOK
<1>2. ASSUME NEW c \in Conns, Connect(c) PROVE TypeOK'
  <2>1. backlog' \in Seq(Conns) /\ conn' \in [Conns -> {"new", "open", "closed"}]
    BY <1>2 DEF Connect, TypeOK, ServerTypes
  <2> QED BY <1>2, <2>1 DEF Connect, TypeOK, ServerTypes
<1>3. ASSUME NEW c \in Conns, Send(c) PROVE TypeOK'
  <2>1. PICK r \in Requests :
          inbox' = [inbox EXCEPT ![c] = Append(@, [id |-> sent[c] + 1, req |-> r])]
    BY <1>3 DEF Send
  <2>2. [id |-> sent[c] + 1, req |-> r] \in Frames(Requests)
    BY DEF Frames, TypeOK, ServerTypes
  <2>3. inbox' \in [Conns -> Seq(Frames(Requests))]
    BY <2>1, <2>2 DEF TypeOK, ServerTypes
  <2>4. sent' \in [Conns -> Nat]
    BY <1>3 DEF Send, TypeOK, ServerTypes
  <2> QED BY <1>3, <2>3, <2>4 DEF Send, TypeOK, ServerTypes
<1>4. ASSUME NEW c \in Conns, TakeReply(c) PROVE TypeOK'
  <2>1. outbox' \in [Conns -> Seq(Replies)]
    BY <1>4 DEF TakeReply, TypeOK, ServerTypes
  <2>2. taken' \in [Conns -> Nat]
    BY <1>4 DEF TakeReply, TypeOK, ServerTypes
  <2> QED BY <1>4, <2>1, <2>2 DEF TakeReply, TypeOK, ServerTypes
<1>5. ASSUME NEW c \in Conns, Close(c) PROVE TypeOK'
  <2>1. PICK n \in 0 .. Len(inbox[c]) :
          inbox' = [inbox EXCEPT ![c] = SubSeq(@, 1, n)]
    BY <1>5 DEF Close
  <2>2. inbox[c] \in Seq(Frames(Requests))
    BY DEF TypeOK, ServerTypes
  <2>3. SubSeq(inbox[c], 1, n) \in Seq(Frames(Requests))
    BY <2>2
  <2>4. inbox' \in [Conns -> Seq(Frames(Requests))]
    BY <2>1, <2>3 DEF TypeOK, ServerTypes
  <2>5. /\ outbox' \in [Conns -> Seq(Replies)]
        /\ conn' \in [Conns -> {"new", "open", "closed"}]
    BY <1>5 DEF Close, TypeOK, ServerTypes
  <2> QED BY <1>5, <2>4, <2>5 DEF Close, TypeOK, ServerTypes
<1>6. CASE UNCHANGED vars
  BY <1>6 DEF TypeOK, ServerTypes
<1> QED BY <1>1, <1>2, <1>3, <1>4, <1>5, <1>6 DEF Next, MasterStep

(* Every variable of the server, of the arm and of the network stays in    *)
(* its type, for any number of connections and any well-formed requests.   *)
THEOREM TypeCorrect == Spec => []TypeOK
BY TypeInit, TypeStep, PTL DEF Spec

-----------------------------------------------------------------------------
(* The command register.  Neither invariant is inductive as it stands: a   *)
(* stale word becomes a command only when main() reads it back, so the     *)
(* invariant speaks of the register at all times.                          *)
SessionInv ==
  /\ regs[ADDR_CLIENT] \in RobotCommands => regs[ADDR_CLIENT] \in written
  /\ Driving => /\ regs[ADDR_CLIENT] \in RobotCommands
                /\ regs[ADDR_RX90_STATE] = regs[ADDR_CLIENT]

(* The words main() writes to ADDR_CLIENT itself are no robot commands. *)
LEMMA MarksAreNoCommands ==
  NO_COMMAND \notin RobotCommands /\ COMMAND_START \notin RobotCommands
    /\ COMMAND_FINISH \notin RobotCommands
  BY DEF RobotCommands, Jogs

(* The invariant of the sessions holds when the server starts. *)
LEMMA SessionInit == Init => SessionInv
  BY MarksAreNoCommands DEF Init, ServerInit, SessionInv, Driving, Addrs

(* Every step keeps it: the table changes only by a write of the session,  *)
(* by the marks, or by the server's own registers.                         *)
LEMMA SessionStep == TypeOK /\ SessionInv /\ [Next]_vars => SessionInv'
<1> SUFFICES ASSUME TypeOK, SessionInv, [Next]_vars PROVE SessionInv'
  OBVIOUS
<1> USE DEF mainVars, modbusVars, netVars, armVars, serverVars, masterVars, vars
<1>0. regs \in [Addrs -> Word] /\ ADDR_CLIENT \in Addrs
      /\ ADDR_RX90_STATE \in Addrs
  BY DEF TypeOK, ServerTypes, Addrs
<1>1. CASE SendCommand
  BY <1>1 DEF SendCommand, SessionInv, Driving
<1>2. CASE Returned
  <2>1. regs'[ADDR_CLIENT] = regs[ADDR_CLIENT] /\ pc' # "drive"
    BY <1>0, <1>2 DEF Returned
  <2> QED BY <1>2, <2>1 DEF Returned, SessionInv, Driving
<1>3. CASE WaitClient
  <2>1. regs'[ADDR_CLIENT] = COMMAND_START /\ pc' # "drive"
    BY <1>0, <1>3 DEF WaitClient, MarkSession
  <2> QED BY <2>1, MarksAreNoCommands DEF SessionInv, Driving
<1>4. CASE Receive
  BY <1>4 DEF Receive, SessionInv, Driving
<1>5. ASSUME Confirm, pc' # "drive" PROVE SessionInv'
  <2>1. regs' = AfterWrite(query.req)
    BY <1>5 DEF Confirm
  <2>2. CASE ADDR_CLIENT \in Written(query.req)
    BY <1>5, <2>1, <2>2 DEF Confirm, SessionInv, Driving
  <2>3. CASE ADDR_CLIENT \notin Written(query.req)
    <3>1. regs'[ADDR_CLIENT] = regs[ADDR_CLIENT]
      BY <1>0, <2>1, <2>3 DEF AfterWrite
    <3> QED BY <1>5, <2>3, <3>1 DEF Confirm, SessionInv, Driving
  <2> QED BY <2>2, <2>3
<1>6. CASE Answer
  BY <1>5, <1>6 DEF Answer
<1>7. CASE Refuse
  BY <1>7 DEF Refuse, SessionInv, Driving
<1>8. CASE ConfirmCommand
  BY <1>5, <1>8 DEF ConfirmCommand
<1>9. CASE RunCommand
  <2>1. ASSUME NEW a, Start(a), reg \in RobotCommands PROVE SessionInv'
    BY <1>0, <2>1 DEF Start, reg, SessionInv, Driving
  <2>2. CASE Pincers
    BY <2>1, <2>2 DEF Pincers, RobotCommands
  <2>3. CASE Automove
    BY <2>1, <2>3 DEF Automove, RobotCommands
  <2>4. CASE NoAction
    BY <2>4 DEF NoAction, SessionInv, Driving
  <2>5. ASSUME NEW a \in DOMAIN Jogs, Jog(a) PROVE SessionInv'
    BY <2>1, <2>5 DEF Jog, RobotCommands
  <2> QED BY <1>9, <2>2, <2>3, <2>4, <2>5 DEF RunCommand
<1>10. CASE Disconnect
  <2>1. regs'[ADDR_CLIENT] = COMMAND_FINISH /\ pc' # "drive"
    BY <1>0, <1>10 DEF Disconnect, MarkSession
  <2> QED BY <2>1, MarksAreNoCommands DEF SessionInv, Driving
<1>11. CASE MasterStep
  BY <1>11 DEF MasterStep, Connect, Send, TakeReply, Close, SessionInv, Driving
<1>12. CASE UNCHANGED vars
  BY <1>12 DEF SessionInv, Driving
<1> QED BY <1>1, <1>2, <1>3, <1>4, <1>6, <1>7, <1>8, <1>9, <1>10, <1>11, <1>12
        DEF Next, ServerStep

(* The invariant of the sessions always holds. *)
LEMMA SessionAlways == Spec => []SessionInv
BY TypeCorrect, SessionInit, SessionStep, PTL DEF Spec

(* constant.h:31 holds for every master: while an action is carried out    *)
(* the state register and the command register agree.                      *)
THEOREM StateAgrees == Spec => []StateMatchesCommand
<1>1. SessionInv => StateMatchesCommand
  BY DEF SessionInv, StateMatchesCommand
<1> QED BY <1>1, SessionAlways, PTL

(* No command crosses from one connection into the next. *)
THEOREM NoCommandSurvives == Spec => []CommandOfThisSession
<1>1. SessionInv => CommandOfThisSession
  BY DEF SessionInv, CommandOfThisSession
<1> QED BY <1>1, SessionAlways, PTL

-----------------------------------------------------------------------------
(* The arm.  Between two commands the location variable P is either what   *)
(* the server found in it or where x, y, z say; inside a script it depends *)
(* on the line.                                                            *)
Settled == /\ arm.origin = Home
           /\ arm.own => arm.P = shift /\ arm.at = shift
           /\ ~arm.own => shift = Home /\ arm.at \in {Home, arm.P}

ArmInv ==
  serialOpen =>
    /\ (pc # "drive" \/ action = "AUTOMOVE") => Settled
    /\ (pc = "drive" /\ action = "INIT") =>
         /\ shift = Home /\ ~arm.own
         /\ line > 4 => arm.at = Home
         /\ line > 5 => arm.origin = Home
    /\ (pc = "drive" /\ action \notin {"INIT", "AUTOMOVE"}) =>
         /\ arm.origin = Home
         /\ line >= Len(Script[action]) => arm.own /\ arm.P = shift
         /\ line > Len(Script[action]) => arm.at = shift

(* The invariant of the arm holds when the server starts. *)
LEMMA ArmInit == Init => ArmInv
<1>. SUFFICES ASSUME Init PROVE ArmInv
  OBVIOUS
<1>1. pc = "drive" /\ action = "INIT" /\ line = 1 /\ shift = Home
  BY DEF Init, ServerInit
<1>2. arm.own = FALSE
  BY DEF Init, ServerInit
<1>3. ~ (line > 4) /\ ~ (line > 5)
  BY <1>1
<1>. QED  BY <1>1, <1>2, <1>3 DEF ArmInv

(* Every step keeps it: the cases are the lines of the scripts and the     *)
(* branches that start them.                                               *)
LEMMA ArmStep == TypeOK /\ ArmInv /\ [Next]_vars => ArmInv'
<1> SUFFICES ASSUME TypeOK, ArmInv, [Next]_vars PROVE ArmInv'
  OBVIOUS
<1> USE DEF mainVars, modbusVars, netVars, armVars, serverVars, masterVars, vars
<1>1. CASE SendCommand
  <2> SUFFICES ASSUME serialOpen PROVE ArmInv'
    BY <1>1 DEF SendCommand, ArmInv
  <2>1. line' = line + 1
    BY <1>1 DEF SendCommand
  <2>2. line <= Len(Script[action])
    BY <1>1 DEF SendCommand
  <2>3. arm' = Obey(arm, Script[action][line])
    BY <1>1 DEF SendCommand
  <2>4. pc = "drive" /\ UNCHANGED <<pc, action, shift, serialOpen>>
    BY <1>1 DEF SendCommand
  <2>5. line \in 1 .. 8
    BY DEF TypeOK, ServerTypes
  <2>6. arm \in Arms /\ shift \in Point /\ action \in Actions
    BY DEF TypeOK, ServerTypes, Arms
  <2>7. CASE action = "INIT"
    <3>1. shift = Home /\ ~arm.own
      BY <2>4, <2>7 DEF ArmInv
    <3>2. line > 4 => arm.at = Home
      BY <2>4, <2>7 DEF ArmInv
    <3>3. line > 5 => arm.origin = Home
      BY <2>4, <2>7 DEF ArmInv
    <3>4. Len(Script[action]) = 7
      BY <2>7, InitScript
    <3>5. line \in 1 .. 7
      BY <2>2, <2>5, <3>4
    <3>6. /\ Script[action][line] # "SET P" /\ Script[action][line] # "MOVE P"
          /\ Script[action][line] = "MOVE #ORIGIN" <=> line = 4
          /\ Script[action][line] = "HERE ORIGIN" <=> line = 5
      BY <2>7, <3>5, InitCommands
    <3>7. ~arm'.own
      BY <2>3, <2>6, <3>1, <3>6, ObeyOwn, Zenon
    <3>8. line' > 4 => arm'.at = Home
      <4>1. line' > 4 => line > 4 \/ line = 4
        BY <2>1, <3>5
      <4>2. line = 4 => arm'.at = Home
        BY <2>3, <2>6, <3>6, ObeyEffect, ZenonT(60)
      <4>3. line > 4 /\ line # 4 => arm'.at = arm.at
        BY <2>3, <2>6, <3>6, ObeyEffect
      <4> QED BY <3>2, <4>1, <4>2, <4>3
    <3>9. line' > 5 => arm'.origin = Home
      <4>1. line' > 5 => line > 5 \/ line = 5
        BY <2>1, <3>5
      <4>2. line = 5 => line > 4
        OBVIOUS
      <4> QED BY <2>3, <2>6, <3>2, <3>3, <3>6, <4>1, <4>2, ObeyEffect,
                 ZenonT(60)
    <3> QED BY <2>4, <2>7, <3>1, <3>7, <3>8, <3>9 DEF ArmInv
  <2>8. CASE action = "AUTOMOVE"
    <3>1. Len(Script[action]) = 1
      BY <2>8, AutomoveScript
    <3>2. line = 1
      BY <2>2, <2>5, <3>1
    <3>3. arm' = Obey(arm, "MOVE P")
      BY <2>3, <2>8, <3>2, AutomoveScript
    <3>4. Settled
      BY <2>4, <2>8 DEF ArmInv
    <3>5. arm' \in Arms /\ (arm'.own <=> arm.own)
      BY <2>6, <3>3, ObeyOwn, ObeyType
    <3>6. /\ arm'.origin = arm.origin /\ arm'.P = arm.P
          /\ arm'.at = IF arm.P # NoPoint THEN arm.P ELSE arm.at
      BY <2>6, <3>3, ObeyEffect
    <3>7. Settled'
      BY <2>4, <3>4, <3>5, <3>6 DEF Settled
    <3> QED BY <2>4, <2>8, <3>7 DEF ArmInv
  <2>9. ASSUME action \notin {"INIT", "AUTOMOVE"},
               NEW n \in {2, 3}, Len(Script[action]) = n,
               line = n => Script[action][line] = "MOVE P",
               line = n - 1 => Script[action][line] = "SET P",
               Script[action][line] # "HERE ORIGIN"
        PROVE  ArmInv'
    <3>1. Script[action][line] = "MOVE P" \/ line # n
      BY <2>9
    <3>2. arm.origin = Home
      BY <2>4, <2>9 DEF ArmInv
    <3>3. line >= n => arm.own /\ arm.P = shift
      BY <2>4, <2>9 DEF ArmInv
    <3>4. NoPoint # shift /\ Plus(Home, shift) = shift
      BY <2>6, PlusHome DEF NoPoint, Point
    <3>5. line <= n
      BY <2>2, <2>9
    <3>6. line \in 1 .. n
      BY <2>5, <3>5
    <3>7. line = n \/ line = n - 1 \/ (line # n /\ line < n - 1)
      BY <3>6
    <3>8. arm'.origin = Home
      BY <2>3, <2>6, <2>9, <3>2, ObeyEffect
    <3>9. CASE line = n
      <4>1. line >= n
        BY <3>9
      <4>2. arm' = Obey(arm, "MOVE P") /\ arm.P = shift /\ arm.own
        BY <2>3, <3>1, <3>3, <3>9, <4>1
      <4>3. arm'.P = shift /\ arm'.at = shift
        BY <2>6, <3>4, <4>2, ObeyEffect
      <4>4. arm'.own
        BY <2>6, <4>2, ObeyOwn, Zenon
      <4> QED BY <2>4, <2>9, <3>8, <4>3, <4>4 DEF ArmInv
    <3>10. CASE line = n - 1
      <4>1. arm'.P = shift
        BY <2>3, <2>6, <2>9, <3>2, <3>4, <3>10, ObeyEffect
      <4>2. ~ (line' > n)
        BY <2>1, <3>10
      <4>3. arm'.own
        BY <2>3, <2>6, <2>9, <3>10, ObeyOwn
      <4> QED BY <2>4, <2>9, <3>8, <4>1, <4>2, <4>3 DEF ArmInv
    <3>11. CASE line < n - 1
      <4>1. ~ (line' > n) /\ ~ (line' >= n)
        BY <2>1, <2>5, <3>11
      <4> QED BY <2>4, <2>9, <3>8, <4>1 DEF ArmInv
    <3> QED BY <3>7, <3>9, <3>10, <3>11
  <2>10. CASE action \in {"CATCH", "DROP"}
    <3>1. Len(Script[action]) = 3
      BY <2>10, GripScript
    <3>2. line \in 1 .. 3
      BY <2>2, <2>5, <3>1
    <3>3. line = 1 \/ line = 2 \/ line = 3
      BY <3>2
    <3>4. line = 3 => Script[action][line] = "MOVE P"
      BY <2>10, GripScript
    <3>5. line = 3 - 1 => Script[action][line] = "SET P"
      <4>1. 3 - 1 = 2
        OBVIOUS
      <4> QED BY <2>10, <4>1, GripScript
    <3>6. Script[action][line] # "HERE ORIGIN"
      BY <2>10, <3>3, GripScript
    <3>7. action \notin {"INIT", "AUTOMOVE"}
      BY <2>10
    <3> QED BY <2>9, <3>1, <3>4, <3>5, <3>6, <3>7
  <2>11. CASE action \notin {"INIT", "CATCH", "DROP", "AUTOMOVE"}
    <3>1. Len(Script[action]) = 2
      BY <2>6, <2>11, JogScript
    <3>2. line \in 1 .. 2
      BY <2>2, <2>5, <3>1
    <3>3. line = 1 \/ line = 2
      BY <3>2
    <3>4. line = 2 => Script[action][line] = "MOVE P"
      BY <2>6, <2>11, JogScript
    <3>5. line = 2 - 1 => Script[action][line] = "SET P"
      <4>1. 2 - 1 = 1
        OBVIOUS
      <4> QED BY <2>6, <2>11, <4>1, JogScript
    <3>6. Script[action][line] # "HERE ORIGIN"
      BY <2>6, <2>11, <3>3, JogScript
    <3> QED BY <2>9, <2>11, <3>1, <3>4, <3>5, <3>6
  <2> QED BY <2>7, <2>8, <2>10, <2>11
<1>2. CASE Returned
  <2>1. /\ pc = "drive" /\ pc' # "drive" /\ line = Len(Script[action]) + 1
        /\ UNCHANGED <<shift, arm, serialOpen>>
    BY <1>2 DEF Returned
  <2>2. action \in Actions
    BY DEF TypeOK, ServerTypes
  <2>3. serialOpen => Settled
    <3>1. CASE action = "INIT"
      <4>1. Len(Script[action]) = 7
        BY <3>1, InitScript
      <4>2. line > 4 /\ line > 5
        BY <2>1, <4>1
      <4> QED BY <2>1, <3>1, <4>2 DEF ArmInv, Settled
    <3>2. CASE action = "AUTOMOVE"
      BY <2>1, <3>2 DEF ArmInv
    <3>3. ASSUME action \notin {"INIT", "AUTOMOVE"},
                 NEW n \in {2, 3}, Len(Script[action]) = n
          PROVE  serialOpen => Settled
      <4>1. line = n + 1
        BY <2>1, <3>3
      <4>2. line > n /\ line >= n
        BY <4>1
      <4> QED BY <2>1, <3>3, <4>2 DEF ArmInv, Settled
    <3>4. CASE action \in {"CATCH", "DROP"}
      BY <3>3, <3>4, GripScript
    <3>5. CASE action \notin {"INIT", "CATCH", "DROP", "AUTOMOVE"}
      BY <2>2, <3>3, <3>5, JogScript
    <3> QED BY <3>1, <3>2, <3>4, <3>5
  <2> QED BY <2>1, <2>3 DEF ArmInv, Settled
<1>3. ASSUME pc # "drive", pc' # "drive", UNCHANGED <<shift, arm, serialOpen>>
      PROVE  ArmInv'
  BY <1>3 DEF ArmInv, Settled
<1>4. CASE WaitClient \/ Receive \/ Answer \/ Refuse \/ ConfirmCommand
             \/ NoAction \/ Disconnect
  BY <1>3, <1>4 DEF WaitClient, Receive, Answer, Refuse, ConfirmCommand,
                    NoAction, Disconnect
<1>5. CASE Pincers \/ \E a \in DOMAIN Jogs : Jog(a)
  <2>1. PICK a \in {"CATCH", "DROP"} \cup DOMAIN Jogs : pc = "command" /\ Start(a)
    BY <1>5 DEF Pincers, Jog
  <2>2. a \in Actions /\ a \notin {"INIT", "AUTOMOVE"}
    BY DEF Actions, Jogs
  <2>3. pc' = "drive" /\ action' = a /\ line' = 1 /\ UNCHANGED <<arm, serialOpen>>
    BY <2>1 DEF Start
  <2>4. Len(Script[a]) = 2 \/ Len(Script[a]) = 3
    BY <2>2, GripScript, JogScript
  <2>5. ~ (line' >= Len(Script[a])) /\ ~ (line' > Len(Script[a]))
    BY <2>3, <2>4
  <2> QED BY <2>1, <2>2, <2>3, <2>5 DEF ArmInv, Settled
<1>6. CASE Automove
  BY <1>6 DEF Automove, Start, ArmInv, Settled
<1>7. CASE MasterStep
  BY <1>7 DEF MasterStep, Connect, Send, TakeReply, Close, ArmInv, Settled
<1>8. CASE UNCHANGED vars
  BY <1>8 DEF ArmInv, Settled
<1> QED BY <1>1, <1>2, <1>4, <1>5, <1>6, <1>7, <1>8
        DEF Next, ServerStep, RunCommand

(* Whatever the masters send and whatever an earlier run of the server     *)
(* left in P: x, y, z, the controller's P and the arm agree each time the  *)
(* server listens once P has been set, and before that the arm is at home  *)
(* or where the old P is.                                                  *)
THEOREM DeadReckoning == Spec => []ArmWhereServerThinks
<1>1. ArmInv => ArmWhereServerThinks
  BY DEF ArmInv, ArmWhereServerThinks, Settled
<1> QED BY <1>1, TypeCorrect, ArmInit, ArmStep, PTL DEF Spec

-----------------------------------------------------------------------------
(* For masters that keep to the client's registers, as the client program  *)
(* does, ADDR_PINZA says what the pincers are.                             *)
THEOREM PincersAgree ==
  ASSUME OnlyClientRegisters
  PROVE  Spec => []PincersTrackGripper
<1>1. PincersInv => PincersTrackGripper
  BY DEF PincersInv, PincersTrackGripper, Agree
<1>2. TypeOK /\ PincersInv /\ [Next]_vars => PincersInv'
  <2>. SUFFICES ASSUME TypeOK, PincersInv, [Next]_vars PROVE PincersInv'
    OBVIOUS
  <2>1. KeepsPincers(Requests)
    BY DEF OnlyClientRegisters, ClientRegisters, KeepsPincers
  <2>2. CASE ServerStep
    BY <2>1, <2>2, PincersStep DEF TypeOK
  <2>3. CASE MasterStep \/ UNCHANGED vars
    BY <2>3 DEF MasterStep, Connect, Send, TakeReply, Close, mainVars, modbusVars,
                armVars, serverVars, vars, PincersInv, Agree
  <2>. QED  BY <2>2, <2>3 DEF Next
<1>3. Init => PincersInv
  BY PincersInit DEF Init
<1> QED BY <1>1, <1>2, <1>3, TypeCorrect, PTL DEF Spec

-----------------------------------------------------------------------------
(* The order of the requests.  The replies under way, the request in the   *)
(* server's hands and the requests under way carry the ids taken + 1 to    *)
(* sent, in that order; a connection not yet opened has none.              *)
OrderInv ==
  /\ Unopened
  /\ \A c \in Conns : conn[c] = "new" => sent[c] = 0 /\ taken[c] = 0
  /\ \A c \in Conns : conn[c] = "open" => InOrder(c, taken[c], sent[c])

LEMMA OrderInit == Init => OrderInv
<1>. SUFFICES ASSUME Init PROVE OrderInv
  OBVIOUS
<1>1. /\ session = NoConn /\ backlog = << >> /\ conn = [c \in Conns |-> "new"]
      /\ inbox = [c \in Conns |-> << >>] /\ outbox = [c \in Conns |-> << >>]
      /\ sent = [c \in Conns |-> 0] /\ taken = [c \in Conns |-> 0]
  BY DEF Init, ServerInit
<1>2. \A c \in Conns : conn[c] # "open" /\ c # session
  BY <1>1, ConnsAssumption
<1>3. ~ \E i \in 1 .. Len(backlog) : TRUE
  BY <1>1
<1>. QED  BY <1>1, <1>2, <1>3 DEF OrderInv, Unopened

(* Every step of the server or of a master keeps the order. *)
LEMMA OrderStep == TypeOK /\ OrderInv /\ [Next]_vars => OrderInv'
<1>. SUFFICES ASSUME TypeOK, OrderInv, [Next]_vars PROVE OrderInv'
  OBVIOUS
<1>. USE DEF mainVars, modbusVars, netVars, armVars, serverVars, masterVars, vars
<1>0. /\ ServerTypes(Requests)
      /\ sent \in [Conns -> Nat] /\ taken \in [Conns -> Nat]
      /\ conn \in [Conns -> {"new", "open", "closed"}]
      /\ inbox \in [Conns -> Seq(Frames(Requests))]
      /\ outbox \in [Conns -> Seq(Replies)]
      /\ backlog \in Seq(Conns)
  BY DEF TypeOK, ServerTypes
<1>1. ASSUME ServerStep, UNCHANGED masterVars PROVE OrderInv'
  <2>1. Unopened' /\ conn' = conn
    <3>1. Unopened'
      BY <1>0, <1>1, UnopenedStep DEF OrderInv
    <3>. QED
      BY <1>1, <3>1 DEF ServerStep, SendCommand, Returned, WaitClient, Receive, Answer,
           Refuse, ConfirmCommand, Disconnect, RunCommand, Pincers, Automove,
           NoAction, Jog, Start
  <2>2. ASSUME NEW c \in Conns, conn[c] = "open"
        PROVE  InOrder(c, taken[c], sent[c])'
    <3>1. PICK n \in Nat : n = taken[c]
      BY <1>0
    <3>2. PICK m \in Nat : m = sent[c]
      BY <1>0
    <3>3. InOrder(c, n, m)
      BY <2>2, <3>1, <3>2 DEF OrderInv
    <3>4. InOrder(c, n, m)'
      BY <1>0, <1>1, <2>2, <3>3, InOrderStep
    <3>5. taken'[c] = n /\ sent'[c] = m
      BY <1>1, <3>1, <3>2
    <3>. QED  BY <3>4, <3>5 DEF InOrder
  <2>. QED  BY <1>1, <2>1, <2>2 DEF OrderInv
<1>2. ASSUME NEW c \in Conns, Connect(c) PROVE OrderInv'
  <2>1. /\ conn[c] = "new" /\ conn' = [conn EXCEPT ![c] = "open"]
        /\ backlog' = Append(backlog, c)
        /\ UNCHANGED <<pc, query, session, inbox, outbox, sent, taken>>
    BY <1>2 DEF Connect
  <2>2. Unopened'
    <3>1. /\ Len(backlog) \in Nat /\ Len(backlog') = Len(backlog) + 1
          /\ \A i \in 1 .. Len(backlog) : backlog'[i] = backlog[i]
          /\ backlog'[Len(backlog) + 1] = c
      BY <1>0, <2>1, AppendProperties
    <3>2. ASSUME NEW i \in 1 .. Len(backlog') PROVE conn'[backlog'[i]] # "new"
      <4>1. i \in 1 .. Len(backlog) \/ i = Len(backlog) + 1
        BY <3>1
      <4>. QED  BY <1>0, <2>1, <3>1, <4>1 DEF OrderInv, Unopened
    <3>. QED  BY <1>0, <2>1, <3>2 DEF OrderInv, Unopened
  <2>3. c # session /\ inbox[c] = << >> /\ outbox[c] = << >>
        /\ sent[c] = 0 /\ taken[c] = 0
    BY <2>1 DEF OrderInv, Unopened
  <2>4. InOrder(c, taken[c], sent[c])'
    BY <2>1, <2>3 DEF InOrder, Hand
  <2>5. ASSUME NEW d \in Conns, d # c, conn'[d] = "open"
        PROVE  InOrder(d, taken[d], sent[d])'
    BY <1>0, <2>1, <2>5 DEF OrderInv, InOrder, Hand
  <2>. QED  BY <1>0, <2>1, <2>2, <2>4, <2>5 DEF OrderInv
<1>3. ASSUME NEW c \in Conns, Send(c) PROVE OrderInv'
  <2>1. PICK n \in Nat, m \in Nat : n = taken[c] /\ m = sent[c]
    BY <1>0
  <2>2. PICK r \in Requests :
          inbox' = [inbox EXCEPT ![c] = Append(@, [id |-> m + 1, req |-> r])]
    BY <1>3, <2>1 DEF Send
  <2>3. /\ conn[c] = "open" /\ sent' = [sent EXCEPT ![c] = @ + 1]
        /\ UNCHANGED <<pc, query, session, backlog, conn, outbox, taken>>
    BY <1>3 DEF Send
  <2>4. InOrder(c, n, m + 1)'
    BY <1>0, <2>1, <2>2, <2>3, InOrderSend DEF OrderInv
  <2>5. InOrder(c, taken[c], sent[c])'
    BY <1>0, <2>1, <2>3, <2>4 DEF InOrder
  <2>6. ASSUME NEW d \in Conns, d # c, conn[d] = "open"
        PROVE  InOrder(d, taken[d], sent[d])'
    BY <1>0, <2>2, <2>3, <2>6 DEF OrderInv, InOrder, Hand
  <2>. QED  BY <1>0, <2>2, <2>3, <2>5, <2>6 DEF OrderInv, Unopened
<1>4. ASSUME NEW c \in Conns, TakeReply(c) PROVE OrderInv'
  <2>1. PICK n \in Nat, m \in Nat : n = taken[c] /\ m = sent[c]
    BY <1>0
  <2>2. /\ conn[c] = "open" /\ outbox[c] # << >>
        /\ outbox' = [outbox EXCEPT ![c] = Tail(@)]
        /\ taken' = [taken EXCEPT ![c] = @ + 1]
        /\ UNCHANGED <<pc, query, session, backlog, conn, inbox, sent>>
    BY <1>4 DEF TakeReply
  <2>3. InOrder(c, n + 1, m)'
    BY <1>0, <2>1, <2>2, InOrderTake DEF OrderInv
  <2>4. InOrder(c, taken[c], sent[c])'
    BY <1>0, <2>1, <2>2, <2>3 DEF InOrder
  <2>5. ASSUME NEW d \in Conns, d # c, conn[d] = "open"
        PROVE  InOrder(d, taken[d], sent[d])'
    BY <1>0, <2>2, <2>5 DEF OrderInv, InOrder, Hand
  <2>. QED  BY <1>0, <2>2, <2>4, <2>5 DEF OrderInv, Unopened
<1>5. ASSUME NEW c \in Conns, Close(c) PROVE OrderInv'
  <2>1. /\ conn[c] = "open" /\ conn' = [conn EXCEPT ![c] = "closed"]
        /\ \A d \in Conns : d # c => inbox'[d] = inbox[d] /\ outbox'[d] = outbox[d]
        /\ UNCHANGED <<pc, query, session, backlog, sent, taken>>
    BY <1>0, <1>5 DEF Close
  <2>2. ASSUME NEW d \in Conns, d # c, conn[d] = "open"
        PROVE  InOrder(d, taken[d], sent[d])'
    BY <2>1, <2>2 DEF OrderInv, InOrder, Hand
  <2>. QED  BY <1>0, <2>1, <2>2 DEF OrderInv, Unopened
<1>6. CASE UNCHANGED vars
  BY <1>6 DEF OrderInv, Unopened, InOrder, Hand
<1>. QED  BY <1>1, <1>2, <1>3, <1>4, <1>5, <1>6 DEF Next, MasterStep

(* The pipeline of a connection whose requests are in order. *)
LEMMA PipelineOrdered ==
  ASSUME TypeOK, NEW c \in Conns, InOrder(c, taken[c], sent[c])
  PROVE  Pipeline(c) = [i \in 1 .. sent[c] - taken[c] |-> taken[c] + i]
<1>. DEFINE a == [i \in 1 .. Len(outbox[c]) |-> outbox[c][i].id]
            b == IF pc = "analysed" /\ session = c THEN <<query.id>> ELSE << >>
            d == [i \in 1 .. Len(inbox[c]) |-> inbox[c][i].id]
            k == sent[c] - taken[c]
            z == [i \in 1 .. k |-> taken[c] + i]
<1>1. /\ inbox[c] \in Seq(Frames(Requests)) /\ outbox[c] \in Seq(Replies)
      /\ taken[c] \in Nat /\ sent[c] \in Nat
  BY DEF TypeOK, ServerTypes
<1>2. PICK n \in Nat, m \in Nat, o \in Nat, h \in Nat, l \in Nat :
        /\ n = taken[c] /\ m = sent[c] /\ o = Len(outbox[c]) /\ h = Hand(c)
        /\ l = Len(inbox[c])
  <2>1. Hand(c) \in Nat
    BY DEF Hand
  <2>2. Len(outbox[c]) \in Nat /\ Len(inbox[c]) \in Nat
    BY <1>1
  <2>. QED  BY <1>1, <2>1, <2>2
<1>0. m = n + o + h + l
  BY <1>2 DEF InOrder
<1>3. /\ \A i \in 1 .. o : outbox[c][i].id = n + i
      /\ h = 1 => query.id = n + o + 1
      /\ \A i \in 1 .. l : inbox[c][i].id = n + o + h + i
  BY <1>2 DEF InOrder
<1>4. a \in Seq(Nat) /\ Len(a) = o /\ \A i \in 1 .. o : a[i] = n + i
  BY <1>2, <1>3
<1>5. b \in Seq(Nat) /\ Len(b) = h /\ \A i \in 1 .. h : b[i] = n + o + i
  BY <1>2, <1>3 DEF Hand
<1>6. d \in Seq(Nat) /\ Len(d) = l /\ \A i \in 1 .. l : d[i] = n + o + h + i
  <2>1. \A i \in 1 .. l : inbox[c][i].id = n + o + h + i /\ n + o + h + i \in Nat
    BY <1>3
  <2>. QED  BY <1>2, <2>1
<1>7. k \in Nat /\ k = o + h + l
  <2>1. m - n = o + h + l
    BY <1>0
  <2>. QED  BY <1>2, <2>1
<1>8. z \in Seq(Nat) /\ Len(z) = k /\ \A i \in 1 .. k : z[i] = n + i
  <2>. HIDE DEF k
  <2>1. z = [i \in 1 .. k |-> n + i] /\ k \in Nat
    BY <1>2, <1>7
  <2>2. \A i \in 1 .. k : n + i \in Nat
    BY <2>1
  <2>. HIDE DEF z
  <2>. QED  BY <2>1, <2>2
<1>. HIDE DEF a, b, d, k, z
<1>9. /\ a \o b \in Seq(Nat) /\ Len(a \o b) = o + h
      /\ \A i \in 1 .. o + h : (a \o b)[i] = n + i
  <2>1. /\ a \o b \in Seq(Nat) /\ Len(a \o b) = o + h
        /\ \A i \in 1 .. o + h : (a \o b)[i] = IF i <= o THEN a[i] ELSE b[i - o]
    BY <1>4, <1>5, ConcatProperties
  <2>2. ASSUME NEW i \in 1 .. o + h PROVE (a \o b)[i] = n + i
    <3>1. CASE i <= o
      BY <1>4, <2>1, <3>1
    <3>2. CASE ~ (i <= o)
      <4>1. i - o \in 1 .. h /\ n + o + (i - o) = n + i
        BY <3>2
      <4>. QED  BY <1>5, <2>1, <3>2, <4>1
    <3>. QED  BY <3>1, <3>2
  <2>. QED  BY <2>1, <2>2
<1>10. /\ (a \o b) \o d \in Seq(Nat) /\ Len((a \o b) \o d) = k
       /\ \A i \in 1 .. k : ((a \o b) \o d)[i] = n + i
  <2>1. /\ (a \o b) \o d \in Seq(Nat) /\ Len((a \o b) \o d) = k
        /\ \A i \in 1 .. k : ((a \o b) \o d)[i] =
             IF i <= o + h THEN (a \o b)[i] ELSE d[i - (o + h)]
    <3>. DEFINE e == a \o b
    <3>1. e \in Seq(Nat) /\ Len(e) = o + h
      BY <1>9
    <3>. HIDE DEF e
    <3>2. /\ e \o d \in Seq(Nat) /\ Len(e \o d) = (o + h) + l
          /\ \A i \in 1 .. (o + h) + l :
               (e \o d)[i] = IF i <= o + h THEN e[i] ELSE d[i - (o + h)]
      <4>1. /\ e \o d \in Seq(Nat) /\ Len(e \o d) = Len(e) + Len(d)
            /\ \A i \in 1 .. Len(e) + Len(d) :
                 (e \o d)[i] = IF i <= Len(e) THEN e[i] ELSE d[i - Len(e)]
        BY <1>6, <3>1, ConcatProperties, Zenon
      <4>2. Len(d) = l
        BY <1>6
      <4>. QED  BY <3>1, <4>1, <4>2, Zenon
    <3>3. (o + h) + l = k
      BY <1>7
    <3>. QED  BY <3>2, <3>3 DEF e
  <2>2. ASSUME NEW i \in 1 .. k PROVE ((a \o b) \o d)[i] = n + i
    <3>1. CASE i <= o + h
      BY <1>7, <1>9, <2>1, <3>1
    <3>2. CASE ~ (i <= o + h)
      <4>1. i \in Nat /\ i <= o + h + l
        BY <1>7
      <4>2. i - (o + h) \in 1 .. l /\ n + o + h + (i - (o + h)) = n + i
        BY <3>2, <4>1
      <4>3. d[i - (o + h)] = n + o + h + (i - (o + h))
        BY <1>6, <4>2
      <4>. QED  BY <2>1, <3>2, <4>2, <4>3
    <3>. QED  BY <3>1, <3>2
  <2>. QED  BY <2>1, <2>2
<1>11. (a \o b) \o d = z
  BY <1>7, <1>8, <1>10, SeqEqual
<1>12. Pipeline(c) = (a \o b) \o d
  BY DEF Pipeline, a, b, d
<1>. QED  BY <1>11, <1>12 DEF z, k

(* Whatever the masters send and whenever they connect or hang up, each    *)
(* request of an open connection is answered once and in order.            *)
THEOREM AnsweredInOrder == Spec => []EachRequestAnsweredOnce
<1>1. TypeOK /\ OrderInv => EachRequestAnsweredOnce
  BY PipelineOrdered DEF OrderInv, EachRequestAnsweredOnce
<1>. QED  BY <1>1, TypeCorrect, OrderInit, OrderStep, PTL DEF Spec
=============================================================================
