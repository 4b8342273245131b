--------------------------- MODULE RxServerProofs ---------------------------
(***************************************************************************)
(* Facts about RxServer that hold whatever its masters are: what its       *)
(* operators return, and what a step of the server keeps.  RxMastersProofs *)
(* and RxClientProofs add the steps of their masters.                      *)
(***************************************************************************)
EXTENDS RxServer, SequenceTheorems, TLAPS

USE DEF NUM_REG, NCLIENT, ADDR_RX90_STATE, ADDR_CLIENT, ADDR_INI_POSITION,
        ADDR_FIN_POSITION, ADDR_PINZA, OPEN_PINCERS, CLOSE_PINCERS,
        DISCONNECT, NO_COMMAND, STATE_POWERINGON, COMMAND_START,
        COMMAND_FINISH, ROBOT_CATCH, ROBOT_DROP, ROBOT_AUTOMOVE

(* A C int written to a register becomes a word. *)
LEMMA ToWordIsWord == \A i \in Int : ToWord(i) \in Word
  BY DEF ToWord, Word

(* The low 16 bits of an int that is not far from being a word. *)
LEMMA LowWord == ASSUME NEW a \in Int, 0 <= a, a < 65536 PROVE a % 65536 = a
OBVIOUS

LEMMA LowWordNegative ==
  ASSUME NEW a \in Int, -65536 <= a, a < 0 PROVE a % 65536 = a + 65536
OBVIOUS

LEMMA UintToIntIs ==
  ASSUME NEW w \in Word
  PROVE  /\ UintToInt(w) = IF w > 65176 THEN w - 65536 ELSE w
         /\ UintToInt(w) \in Int /\ UintToInt(w) >= -359
BY DEF UintToInt, Word

(* An angle of at least -359 degrees is the same when it has been through  *)
(* a register, written by one program and read as signed by the other; one *)
(* below never is.                                                         *)
THEOREM AnglesSurvive ==
  ASSUME NEW a \in Int, a <= 65176
  PROVE  UintToInt(ToWord(a)) = a <=> a >= -359
<1>0. ToWord(a) \in Word
  BY ToWordIsWord
<1>1. PICK w \in Word : w = ToWord(a)
  BY <1>0
<1>2. ASSUME a >= -359 PROVE UintToInt(w) = a
  <2>1. w = IF a < 0 THEN a + 65536 ELSE a
    <3>1. CASE a >= 0
      BY <1>1, <3>1, LowWord DEF ToWord
    <3>2. CASE a < 0
      BY <1>1, <1>2, <3>2, LowWordNegative DEF ToWord
    <3>. QED  BY <3>1, <3>2
  <2>. QED  BY <1>2, <2>1, UintToIntIs
<1>3. ASSUME a < -359 PROVE UintToInt(w) # a
  BY <1>3, UintToIntIs
<1>4. UintToInt(w) = a <=> a >= -359
  BY <1>2, <1>3
<1>. QED  BY <1>1, <1>4

(* The fields of a request, with what the arithmetic on them needs. *)
LEMMA RequestFields ==
  ASSUME NEW r \in RequestSpace
  PROVE  /\ r.vals \in Seq(Word) /\ Len(r.vals) \in Nat
         /\ r.rn \in Nat
         /\ r.raddr \in Word /\ r.raddr \in Nat
         /\ r.waddr \in Word /\ r.waddr \in Nat
         /\ r.fun \in Functions
<1>1. r.vals \in Seq(Word)
  BY DEF RequestSpace
<1>2. Len(r.vals) \in Nat
  BY <1>1
<1>3. r.raddr \in Word /\ r.waddr \in Word /\ r.rn \in Nat
      /\ r.fun \in Functions
  BY DEF RequestSpace
<1>4. \A w \in Word : w \in Nat
  BY DEF Word
<1>5. r.raddr \in Nat /\ r.waddr \in Nat
  BY <1>3, <1>4
<1> QED BY <1>1, <1>2, <1>3, <1>5

(* modbus_reply leaves a table of words a table of words. *)
LEMMA AfterWriteType ==
  ASSUME NEW r \in RequestSpace, regs \in [Addrs -> Word]
  PROVE  AfterWrite(r) \in [Addrs -> Word]
<1> SUFFICES ASSUME NEW a \in Addrs, a \in Written(r)
             PROVE  r.vals[a - r.waddr + 1] \in Word
  BY DEF AfterWrite
<1>1. a \in r.waddr .. r.waddr + Len(r.vals) - 1
  BY DEF Written
<1>2. r.waddr \in Nat /\ Len(r.vals) \in Nat
  BY RequestFields
<1>3. a - r.waddr + 1 \in 1 .. Len(r.vals)
  BY <1>1, <1>2
<1> QED BY <1>3, RequestFields

(* What modbus_reply sends back is a reply. *)
LEMMA ReplyType ==
  ASSUME NEW r \in RequestSpace, regs \in [Addrs -> Word]
  PROVE  Reply(r) \in ReplySpace
<1>1. CASE ~Served(r)
  BY <1>1 DEF Reply, ReplySpace
<1>2. CASE Served(r) /\ ~Reading(r)
  BY <1>2 DEF Reply, ReplySpace, ReadBack
<1>3. CASE Served(r) /\ Reading(r)
  <2>1. r.rn \in Nat /\ r.raddr \in Word /\ r.raddr + r.rn <= NUM_REG
    BY <1>3, RequestFields DEF Served, Fits
  <2>2. \A i \in 1 .. r.rn : AfterWrite(r)[r.raddr + i - 1] \in Word
    <3> SUFFICES ASSUME NEW i \in 1 .. r.rn
                 PROVE  AfterWrite(r)[r.raddr + i - 1] \in Word
      OBVIOUS
    <3>1. r.raddr \in Nat
      BY RequestFields
    <3>2. r.raddr + i - 1 \in Addrs
      BY <2>1, <3>1 DEF Addrs
    <3> QED BY <3>2, AfterWriteType
  <2>3. ReadBack(r) \in Seq(Word)
    BY <1>3, <2>1, <2>2 DEF ReadBack
  <2> QED BY <1>3, <2>3 DEF Reply, ReplySpace
<1> QED BY <1>1, <1>2, <1>3

(* The constants the server itself writes to registers are words. *)
LEMMA ServerWords ==
  /\ ToWord(DISCONNECT) \in Word
  /\ 0 \in Word /\ 1 \in Word /\ 101 \in Word /\ 501 \in Word /\ 502 \in Word
<1>1. 0 \in Word /\ 1 \in Word /\ 101 \in Word /\ 501 \in Word /\ 502 \in Word
  BY DEF Word
<1> QED BY <1>1, ToWordIsWord

(* Every script has at least one command and at most the seven of init(). *)
LEMMA ScriptLength ==
  ASSUME NEW a \in Actions
  PROVE  Len(Script[a]) \in 1 .. 7
<1>1. CASE a = "INIT" BY <1>1 DEF Script, Actions
<1>2. CASE a = "CATCH" BY <1>2 DEF Script, Actions
<1>3. CASE a = "DROP" BY <1>3 DEF Script, Actions
<1>4. CASE a = "AUTOMOVE" BY <1>4 DEF Script, Actions
<1>5. CASE a \notin {"INIT", "CATCH", "DROP", "AUTOMOVE"} BY <1>5 DEF Script, Actions
<1> QED BY <1>1, <1>2, <1>3, <1>4, <1>5

(* Adding two displacements gives a displacement. *)
LEMMA PlusType == \A p, d \in Point : Plus(p, d) \in Point
  BY DEF Plus, Point

(* The controller's state. *)
Arms == [origin : Point, P : Point \cup {NoPoint}, at : Point,
         gripper : {"open", "closed"}, own : BOOLEAN]

(* A command leaves the controller in its type. *)
LEMMA ObeyType ==
  ASSUME NEW a \in Arms, NEW c, shift \in Point
  PROVE  Obey(a, c) \in Arms
<1>1. Home \in Point
  BY DEF Home, Point
<1>2. Plus(a.origin, shift) \in Point
  BY PlusType DEF Arms
<1>3. CASE c = "MOVE #ORIGIN" BY <1>1, <1>3 DEF Obey, Arms
<1>4. CASE c = "HERE ORIGIN" BY <1>4 DEF Obey, Arms
<1>5. CASE c \in {"OPENI", "CLOSEI"} BY <1>5 DEF Obey, Arms
<1>6. CASE c = "SET P" BY <1>2, <1>6 DEF Obey, Arms
<1>7. CASE c = "MOVE P" /\ a.P = NoPoint BY <1>7 DEF Obey, Arms
<1>8. CASE c = "MOVE P" /\ a.P # NoPoint
  <2>1. a.P \in Point
    BY <1>8 DEF Arms
  <2> QED BY <1>8, <2>1 DEF Obey, Arms
<1>9. CASE c \notin {"MOVE #ORIGIN", "HERE ORIGIN", "OPENI", "CLOSEI", "SET P",
                   "MOVE P"}
  BY <1>9 DEF Obey
<1> QED BY <1>3, <1>4, <1>5, <1>6, <1>7, <1>8, <1>9

-----------------------------------------------------------------------------
(* The types. *)

(* A reply delivered keeps the queues of replies what they are. *)
LEMMA DeliverType ==
  ASSUME NEW R, ServerTypes(R), NEW rep \in ReplySpace, Deliver(rep),
         session \in Conns
  PROVE  outbox' \in [Conns -> Seq(Replies)]
<1>1. [id |-> query.id, rep |-> rep] \in Replies
  BY DEF ServerTypes, Replies, Queries
<1>2. outbox \in [Conns -> Seq(Replies)]
  BY DEF ServerTypes
<1>3. Append(outbox[session], [id |-> query.id, rep |-> rep]) \in Seq(Replies)
  BY <1>1, <1>2
<1> QED BY <1>2, <1>3 DEF Deliver

(* An empty hand is a query, and what is in the hand is a request. *)
LEMMA NoQueryType == ASSUME NEW R PROVE NoQuery \in Queries(R)
  BY DEF NoQuery, Queries

(* The request in hand is one a master may send. *)
LEMMA QueryRequest ==
  ASSUME NEW R \in SUBSET RequestSpace, ServerTypes(R)
  PROVE  query.req \in RequestSpace
<1>1. NoRequest \in RequestSpace
  BY ServerWords DEF NoRequest, RequestSpace, Functions
<1> QED BY <1>1 DEF ServerTypes, Queries

(* modbus_reply keeps the types of all it changes. *)
LEMMA ConfirmType ==
  ASSUME NEW R \in SUBSET RequestSpace, ServerTypes(R), Confirm,
         session \in Conns
  PROVE  /\ regs' \in [Addrs -> Word]
         /\ outbox' \in [Conns -> Seq(Replies)]
         /\ written' \subseteq Word
         /\ query' \in Queries(R)
<1>1. query.req \in RequestSpace /\ regs \in [Addrs -> Word]
  BY QueryRequest DEF ServerTypes
<1>2. AfterWrite(query.req) \in [Addrs -> Word]
  BY <1>1, AfterWriteType
<1>3. Reply(query.req) \in ReplySpace
  BY <1>1, ReplyType
<1>4. AfterWrite(query.req)[ADDR_CLIENT] \in Word
  BY <1>2 DEF Addrs
<1>5. outbox' \in [Conns -> Seq(Replies)]
  BY <1>3, DeliverType DEF Confirm
<1> QED BY <1>2, <1>4, <1>5, NoQueryType DEF Confirm, ServerTypes

(* The server starts with every variable in its type. *)
LEMMA ServerTypeInit == ASSUME NEW R, ServerInit PROVE ServerTypes(R)
<1>1. regs \in [Addrs -> Word]
  BY ServerWords DEF ServerInit
<1>2. op \in [addr_write : Word, numReg_write : Nat]
  <2>1. \A w \in Word : w \in Nat
    BY DEF Word
  <2> QED BY <2>1, StackAssumption DEF ServerInit
<1>3. Home \in Point /\ Parked \in Point
  BY ParkedAssumption DEF Home, Point
<1>4. arm \in [origin : Point, P : Point \cup {NoPoint}, at : Point,
              gripper : {"open", "closed"}, own : BOOLEAN]
  BY <1>3, LeftAssumption DEF ServerInit, Point, NoPoint
<1>5. backlog \in Seq(Conns) /\ inbox \in [Conns -> Seq(Frames(R))]
      /\ outbox \in [Conns -> Seq(Replies)]
  BY DEF ServerInit
<1>6. action \in Actions /\ line \in 1 .. 8 /\ pc = "drive" /\ nClient \in Nat
      /\ session \in Conns \cup {NoConn} /\ serialOpen \in BOOLEAN
      /\ written \subseteq Word /\ shift \in Point
  BY <1>3 DEF ServerInit, Actions
<1>7. conn \in [Conns -> {"new", "open", "closed"}]
  BY DEF ServerInit
<1> QED BY <1>1, <1>2, <1>4, <1>5, <1>6, <1>7, NoQueryType
        DEF ServerInit, ServerTypes

(* Every step of the server keeps the types. *)
LEMMA ServerTypeStep ==
  ASSUME NEW R \in SUBSET RequestSpace, ServerTypes(R), ServerStep
  PROVE  ServerTypes(R)'
<1> USE DEF mainVars, modbusVars, netVars, armVars, serverVars
<1>1. CASE SendCommand
  <2>1. arm' \in Arms
    BY <1>1, ObeyType DEF SendCommand, ServerTypes, Arms
  <2>2. Len(Script[action]) \in 1 .. 7 /\ line \in 1 .. 8
    BY ScriptLength DEF ServerTypes
  <2>3. line' = line + 1 /\ line <= Len(Script[action])
    BY <1>1 DEF SendCommand
  <2>4. \A n \in 1 .. 7, l \in 1 .. 8 : l <= n => l + 1 \in 1 .. 8
    OBVIOUS
  <2>5. line' \in 1 .. 8
    BY <2>2, <2>3, <2>4, Zenon
  <2> QED BY <1>1, <2>1, <2>5 DEF SendCommand, ServerTypes, Arms
<1>2. CASE Returned
  <2>1. regs' \in [Addrs -> Word]
    <3>1. \A a \in Addrs, w \in Word : [regs EXCEPT ![a] = w] \in [Addrs -> Word]
      BY DEF ServerTypes
    <3>2. ADDR_RX90_STATE \in Addrs /\ ADDR_PINZA \in Addrs
      BY DEF Addrs
    <3>3. CASE action = "INIT"
      BY <1>2, <3>1, <3>2, <3>3, ServerWords DEF Returned
    <3>4. CASE action = "CATCH"
      BY <1>2, <3>1, <3>2, <3>4, ServerWords DEF Returned
    <3>5. CASE action = "DROP"
      BY <1>2, <3>1, <3>2, <3>5, ServerWords DEF Returned
    <3>6. CASE action \notin {"INIT", "CATCH", "DROP"}
      BY <1>2, <3>6 DEF Returned, ServerTypes
    <3> QED BY <3>3, <3>4, <3>5, <3>6
  <2>2. session \in Conns \/ (session = NoConn /\ pc' = "accept")
    BY <1>2 DEF Returned, ServerTypes
  <2> QED BY <1>2, <2>1, <2>2 DEF Returned, ServerTypes
<1>3. CASE WaitClient
  <2>1. session' \in Conns /\ backlog' \in Seq(Conns)
    BY <1>3 DEF WaitClient, ServerTypes
  <2>2. MarkSession(COMMAND_START) \in [Addrs -> Word]
    BY ServerWords DEF MarkSession, ServerTypes
  <2>3. nClient' \in Nat /\ ToWord(nClient + 1) \in Word
    BY <1>3, ToWordIsWord DEF WaitClient, ServerTypes
  <2>4. regs' \in [Addrs -> Word]
    BY <1>3, <2>2, <2>3 DEF WaitClient
  <2> QED BY <1>3, <2>1, <2>3, <2>4 DEF WaitClient, ServerTypes
<1>4. CASE Receive
  <2> DEFINE frame == Head(inbox[session])
  <2>1. session \in Conns
    BY <1>4 DEF Receive, ServerTypes
  <2>2. inbox[session] \in Seq(Frames(R)) /\ inbox[session] # << >>
    BY <1>4, <2>1 DEF Receive, ServerTypes
  <2>3. frame \in Frames(R) /\ Tail(inbox[session]) \in Seq(Frames(R))
    BY <2>2
  <2>4. frame.id \in Nat /\ frame.req \in R
    BY <2>3 DEF Frames
  <2>5. op' \in [addr_write : Word, numReg_write : Nat]
    <3>1. frame.req.waddr \in Word /\ Len(frame.req.vals) \in Nat
      BY <2>4, RequestFields
    <3>2. op' = ClientOperation(frame.req)
      BY <1>4 DEF Receive
    <3> HIDE DEF frame
    <3> QED BY <3>1, <3>2 DEF ClientOperation, ServerTypes
  <2>6. query' \in Queries(R)
    <3>1. PICK t \in RequestTypes(frame.req) :
            query' = [id |-> frame.id, req |-> frame.req,
                      type |-> IF t # "READ_ONLY" /\ Forbidden(op')
                               THEN "NOT_PERMITTED" ELSE t]
      BY <1>4 DEF Receive
    <3>2. t \in {"READ_ONLY", "WRITE_ONLY", "READ_WRITE", "NOT_PERMITTED"}
      BY DEF RequestTypes
    <3> QED BY <2>4, <3>1, <3>2 DEF Queries
  <2>7. inbox' \in [Conns -> Seq(Frames(R))]
    BY <1>4, <2>1, <2>3 DEF Receive, ServerTypes
  <2> QED BY <1>4, <2>1, <2>5, <2>6, <2>7 DEF Receive, ServerTypes
<1>5. CASE Answer
  <2>1. session \in Conns /\ Confirm
    BY <1>5 DEF Answer, ServerTypes
  <2> QED BY <1>5, <2>1, ConfirmType DEF Answer, ServerTypes
<1>6. CASE Refuse
  <2>1. session \in Conns /\ Deliver(Exception) /\ Exception \in ReplySpace
    BY <1>6 DEF Refuse, ServerTypes, Exception, ReplySpace
  <2>2. outbox' \in [Conns -> Seq(Replies)]
    BY <2>1, DeliverType
  <2> QED BY <1>6, <2>1, <2>2, NoQueryType DEF Refuse, ServerTypes
<1>7. CASE ConfirmCommand
  <2>1. session \in Conns /\ Confirm
    BY <1>7 DEF ConfirmCommand, ServerTypes
  <2> QED BY <1>7, <2>1, ConfirmType DEF ConfirmCommand, ServerTypes
<1>8. CASE RunCommand
  <2>1. reg \in Word
    BY DEF reg, ServerTypes, Addrs
  <2>2. ASSUME NEW a \in Actions \ {"INIT"}, Start(a), shift' \in Point,
               pc = "command"
        PROVE  ServerTypes(R)'
    <3>1. session \in Conns
      BY <2>2 DEF ServerTypes
    <3>2. regs' \in [Addrs -> Word]
      BY <2>1, <2>2 DEF Start, ServerTypes
    <3> QED BY <1>8, <2>2, <3>1, <3>2 DEF Start, ServerTypes
  <2>3. CASE Pincers
    BY <1>8, <2>2, <2>3 DEF Pincers, Actions, ServerTypes
  <2>4. CASE Automove
    BY <1>8, <2>2, <2>4 DEF Automove, Actions, ServerTypes
  <2>5. ASSUME NEW a \in DOMAIN Jogs, Jog(a) PROVE ServerTypes(R)'
    <3>1. Delta[a] \in Point
      BY DEF Delta, Jogs, Point
    <3>2. shift' \in Point
      BY <2>5, <3>1, PlusType DEF Jog, ServerTypes
    <3>3. a \in Actions \ {"INIT"}
      BY DEF Actions, Jogs
    <3> QED BY <1>8, <2>2, <2>5, <3>2, <3>3 DEF Jog
  <2>6. CASE NoAction
    BY <1>8, <2>6 DEF NoAction, Actions, ServerTypes
  <2> QED BY <1>8, <2>3, <2>4, <2>5, <2>6 DEF RunCommand
<1>9. CASE Disconnect
  <2>1. regs' \in [Addrs -> Word]
    BY <1>9, ServerWords DEF Disconnect, MarkSession, ServerTypes
  <2> QED BY <1>9, <2>1 DEF Disconnect, ServerTypes
<1> QED BY <1>1, <1>2, <1>3, <1>4, <1>5, <1>6, <1>7, <1>8, <1>9 DEF ServerStep

-----------------------------------------------------------------------------
(* Adding nothing to the origin. *)
LEMMA PlusHome == \A p \in Point : Plus(Home, p) = p
  BY DEF Plus, Home, Point

(* What one command changes of the controller's state. *)
LEMMA ObeyEffect ==
  ASSUME NEW a \in Arms, NEW c
  PROVE  /\ Obey(a, c).origin = IF c = "HERE ORIGIN" THEN a.at ELSE a.origin
         /\ Obey(a, c).P = IF c = "SET P" THEN Plus(a.origin, shift) ELSE a.P
         /\ Obey(a, c).at = IF c = "MOVE #ORIGIN" THEN Home
                            ELSE IF c = "MOVE P" /\ a.P # NoPoint THEN a.P
                            ELSE a.at
         /\ Obey(a, c).gripper = IF c = "OPENI" THEN "open"
                                 ELSE IF c = "CLOSEI" THEN "closed"
                                 ELSE a.gripper
<1>1. CASE c = "MOVE #ORIGIN" BY <1>1 DEF Obey, Arms
<1>2. CASE c = "HERE ORIGIN" BY <1>2 DEF Obey, Arms
<1>3. CASE c = "OPENI" BY <1>3 DEF Obey, Arms
<1>4. CASE c = "CLOSEI" BY <1>4 DEF Obey, Arms
<1>5. CASE c = "SET P" BY <1>5 DEF Obey, Arms
<1>6. CASE c = "MOVE P" BY <1>6 DEF Obey, Arms
<1>7. CASE c \notin {"MOVE #ORIGIN", "HERE ORIGIN", "OPENI", "CLOSEI", "SET P",
                   "MOVE P"}
  BY <1>7 DEF Obey
<1> QED BY <1>1, <1>2, <1>3, <1>4, <1>5, <1>6, <1>7

(* It remembers when this run of the server has set P. *)
LEMMA ObeyOwn ==
  ASSUME NEW a \in Arms, NEW c
  PROVE  Obey(a, c).own = IF c = "SET P" THEN TRUE ELSE a.own
<1>1. CASE c \in {"MOVE #ORIGIN", "HERE ORIGIN", "OPENI", "CLOSEI", "MOVE P"}
  BY <1>1 DEF Obey, Arms
<1>2. CASE c = "SET P"
  BY <1>2 DEF Obey, Arms
<1>3. CASE c \notin {"MOVE #ORIGIN", "HERE ORIGIN", "OPENI", "CLOSEI", "SET P",
                   "MOVE P"}
  BY <1>3 DEF Obey
<1>. QED  BY <1>1, <1>2, <1>3

(* The scripts, command by command. *)
LEMMA InitScript ==
  ASSUME NEW a, a = "INIT"
  PROVE  /\ Len(Script[a]) = 7
         /\ Script[a][1] = "SET #ORIGIN" /\ Script[a][2] = "SPEED"
         /\ Script[a][3] = "ABOVE" /\ Script[a][4] = "MOVE #ORIGIN"
         /\ Script[a][5] = "HERE ORIGIN" /\ Script[a][6] = "OPENI"
         /\ Script[a][7] = "ENABLE CP"
  BY DEF Script, Actions

(* The commands of the constructor of Rx90, line by line. *)
LEMMA InitCommands ==
  ASSUME NEW a, a = "INIT", NEW i \in 1 .. 7
  PROVE  /\ Script[a][i] # "SET P" /\ Script[a][i] # "MOVE P"
         /\ Script[a][i] # "CLOSEI"
         /\ Script[a][i] = "MOVE #ORIGIN" <=> i = 4
         /\ Script[a][i] = "HERE ORIGIN" <=> i = 5
         /\ Script[a][i] = "OPENI" <=> i = 6
<1>0. i = 1 \/ i = 2 \/ i = 3 \/ i = 4 \/ i = 5 \/ i = 6 \/ i = 7
  OBVIOUS
<1>1. CASE i = 1 BY <1>1, InitScript
<1>2. CASE i = 2 BY <1>2, InitScript
<1>3. CASE i = 3 BY <1>3, InitScript
<1>4. CASE i = 4 BY <1>4, InitScript
<1>5. CASE i = 5 BY <1>5, InitScript
<1>6. CASE i = 6 BY <1>6, InitScript
<1>7. CASE i = 7 BY <1>7, InitScript
<1> QED BY <1>0, <1>1, <1>2, <1>3, <1>4, <1>5, <1>6, <1>7

(* A catch or a drop: the gripper first, then P is set and moved to. *)
LEMMA GripScript ==
  ASSUME NEW a, a \in {"CATCH", "DROP"}
  PROVE  /\ Len(Script[a]) = 3
         /\ Script[a][1] = IF a = "CATCH" THEN "CLOSEI" ELSE "OPENI"
         /\ Script[a][2] = "SET P" /\ Script[a][3] = "MOVE P"
<1>1. CASE a = "CATCH" BY <1>1 DEF Script, Actions
<1>2. CASE a = "DROP" BY <1>2 DEF Script, Actions
<1> QED BY <1>1, <1>2

(* An automove only moves to P. *)
LEMMA AutomoveScript ==
  ASSUME NEW a, a = "AUTOMOVE"
  PROVE  Len(Script[a]) = 1 /\ Script[a][1] = "MOVE P"
  BY DEF Script, Actions

(* A jog sets P and moves there. *)
LEMMA JogScript ==
  ASSUME NEW a \in Actions, a \notin {"INIT", "CATCH", "DROP", "AUTOMOVE"}
  PROVE  Len(Script[a]) = 2 /\ Script[a][1] = "SET P" /\ Script[a][2] = "MOVE P"
  BY DEF Script, Actions

-----------------------------------------------------------------------------
(* The pincers.  While a catch or a drop is under way the register still   *)
(* holds the old state, and the first command of the script has already    *)
(* changed the gripper: the invariant follows the line.                    *)
Agree == regs[ADDR_PINZA] = CLOSE_PINCERS <=> arm.gripper = "closed"

PincersInv ==
  serialOpen =>
    /\ (pc # "drive" \/ action \notin {"INIT", "CATCH", "DROP"}) => Agree
    /\ (pc = "drive" /\ action = "INIT") =>
         regs[ADDR_PINZA] = OPEN_PINCERS /\ (line > 6 => arm.gripper = "open")
    /\ (pc = "drive" /\ action = "CATCH") => (line > 1 => arm.gripper = "closed")
    /\ (pc = "drive" /\ action = "DROP") => (line > 1 => arm.gripper = "open")

(* Masters that leave ADDR_PINZA to the server. *)
KeepsPincers(R) == \A r \in R : ADDR_PINZA \notin Written(r)

(* The request in hand leaves ADDR_PINZA alone. *)
LEMMA PinzaKept ==
  ASSUME NEW R, KeepsPincers(R), ServerTypes(R)
  PROVE  AfterWrite(query.req)[ADDR_PINZA] = regs[ADDR_PINZA]
<1>1. CASE query.req = NoRequest
  BY <1>1 DEF NoRequest, AfterWrite, Written, Writing, Addrs,
     WRITE_ONLY_REGISTER, WRITE_MULTIPLE_REGISTERS, READ_WRITE_REGISTERS
<1>2. CASE query.req \in R
  <2>1. ADDR_PINZA \notin Written(query.req)
    BY <1>2 DEF KeepsPincers
  <2> QED BY <2>1 DEF AfterWrite, Addrs
<1> QED BY <1>1, <1>2 DEF ServerTypes, Queries

(* The invariant of the pincers holds when the server starts. *)
LEMMA PincersInit == ServerInit => PincersInv
  BY DEF ServerInit, PincersInv, Addrs

(* Every step keeps it, for masters that leave ADDR_PINZA alone. *)
LEMMA PincersStep ==
  ASSUME NEW R, KeepsPincers(R), ServerTypes(R), PincersInv, ServerStep
  PROVE  PincersInv'
<1> USE DEF mainVars, modbusVars, netVars, armVars, serverVars
<1>0. regs \in [Addrs -> Word] /\ ADDR_PINZA \in Addrs
      /\ ADDR_CLIENT \in Addrs /\ ADDR_RX90_STATE \in Addrs /\ NCLIENT \in Addrs
  BY DEF ServerTypes, Addrs
<1>1. CASE SendCommand
  <2> SUFFICES ASSUME serialOpen PROVE PincersInv'
    BY <1>1 DEF SendCommand, PincersInv
  <2>1. line' = line + 1
    BY <1>1 DEF SendCommand
  <2>2. line <= Len(Script[action])
    BY <1>1 DEF SendCommand
  <2>3. arm' = Obey(arm, Script[action][line])
    BY <1>1 DEF SendCommand
  <2>4. pc = "drive" /\ UNCHANGED <<pc, action, regs, serialOpen>>
    BY <1>1 DEF SendCommand
  <2>5. line \in 1 .. 8
    BY DEF ServerTypes
  <2>6. arm \in Arms /\ action \in Actions
    BY DEF ServerTypes, Arms
  <2>7. CASE action = "INIT"
    <3>1. Len(Script[action]) = 7
      BY <2>7, InitScript
    <3>2. line \in 1 .. 7
      BY <2>2, <2>5, <3>1
    <3>3. Script[action][line] # "CLOSEI"
          /\ (Script[action][line] = "OPENI" <=> line = 6)
      BY <2>7, <3>2, InitCommands
    <3>4. line' > 6 => line > 6 \/ line = 6
      BY <2>1, <3>2
    <3>5. line = 6 => arm'.gripper = "open"
      BY <2>3, <2>6, <3>3, ObeyEffect, ZenonT(60)
    <3>6. line # 6 => arm'.gripper = arm.gripper
      BY <2>3, <2>6, <3>3, ObeyEffect
    <3> QED BY <2>4, <2>7, <3>4, <3>5, <3>6 DEF PincersInv
  <2>8. CASE action \in {"CATCH", "DROP"}
    <3>1. Len(Script[action]) = 3
      BY <2>8, GripScript
    <3>2. line \in 1 .. 3
      BY <2>2, <2>5, <3>1
    <3>3. line = 1 \/ line = 2 \/ line = 3
      BY <3>2
    <3>4. CASE line = 1
      <4>1. arm'.gripper = IF action = "CATCH" THEN "closed" ELSE "open"
        <5>1. Script[action][line] = IF action = "CATCH" THEN "CLOSEI" ELSE "OPENI"
          BY <2>8, <3>4, GripScript
        <5>2. CASE action = "CATCH"
          <6>1. Script[action][line] = "CLOSEI"
            BY <5>1, <5>2
          <6>2. arm'.gripper = "closed"
            BY <2>3, <2>6, <6>1, ObeyEffect
          <6> QED BY <5>2, <6>2
        <5>3. CASE action = "DROP"
          <6>1. Script[action][line] = "OPENI"
            BY <5>1, <5>3
          <6>2. arm'.gripper = "open"
            BY <2>3, <2>6, <6>1, ObeyEffect
          <6> QED BY <5>3, <6>2
        <5> QED BY <2>8, <5>2, <5>3
      <4> QED BY <2>4, <2>8, <4>1 DEF PincersInv
    <3>5. CASE line = 2 \/ line = 3
      <4>1. line > 1
        BY <3>5
      <4>2. arm'.gripper = arm.gripper
        BY <2>3, <2>6, <2>8, <3>5, GripScript, ObeyEffect, ZenonT(60)
      <4> QED BY <2>4, <2>8, <4>1, <4>2 DEF PincersInv
    <3> QED BY <3>3, <3>4, <3>5
  <2>9. ASSUME action \notin {"INIT", "CATCH", "DROP"},
               Script[action][line] \notin {"OPENI", "CLOSEI"}
        PROVE  PincersInv'
    <3>1. arm'.gripper = arm.gripper
      BY <2>3, <2>6, <2>9, ObeyEffect
    <3> QED BY <2>4, <2>9, <3>1 DEF PincersInv, Agree
  <2>10. CASE action = "AUTOMOVE"
    <3>1. Len(Script[action]) = 1
      BY <2>10, AutomoveScript
    <3>2. line = 1
      BY <2>2, <2>5, <3>1
    <3> QED BY <2>9, <2>10, <3>2, AutomoveScript
  <2>11. CASE action \notin {"INIT", "CATCH", "DROP", "AUTOMOVE"}
    <3>1. Len(Script[action]) = 2
      BY <2>6, <2>11, JogScript
    <3>2. line \in 1 .. 2
      BY <2>2, <2>5, <3>1
    <3>3. line = 1 \/ line = 2
      BY <3>2
    <3>4. Script[action][line] \notin {"OPENI", "CLOSEI"}
      BY <2>6, <2>11, <3>3, JogScript
    <3> QED BY <2>9, <2>11, <3>4
  <2> QED BY <2>7, <2>8, <2>10, <2>11
<1>2. CASE Returned
  <2>1. /\ pc = "drive" /\ pc' # "drive" /\ line = Len(Script[action]) + 1
        /\ UNCHANGED <<arm, serialOpen>>
    BY <1>2 DEF Returned
  <2>2. serialOpen => Agree'
    <3>1. CASE action = "INIT"
      <4>1. Len(Script[action]) = 7
        BY <3>1, InitScript
      <4>2. line > 6
        BY <2>1, <4>1
      <4>3. regs'[ADDR_PINZA] = regs[ADDR_PINZA]
        BY <1>0, <1>2, <3>1 DEF Returned
      <4> QED BY <2>1, <3>1, <4>2, <4>3 DEF PincersInv, Agree
    <3>2. CASE action \in {"CATCH", "DROP"}
      <4>1. Len(Script[action]) = 3
        BY <3>2, GripScript
      <4>2. line > 1
        BY <2>1, <4>1
      <4>3. regs'[ADDR_PINZA] = IF action = "CATCH" THEN CLOSE_PINCERS
                                                    ELSE OPEN_PINCERS
        BY <1>0, <1>2, <3>2 DEF Returned
      <4> QED BY <2>1, <3>2, <4>2, <4>3 DEF PincersInv, Agree
    <3>3. CASE action \notin {"INIT", "CATCH", "DROP"}
      BY <1>2, <2>1, <3>3 DEF Returned, PincersInv, Agree
    <3> QED BY <3>1, <3>2, <3>3
  <2> QED BY <2>1, <2>2 DEF PincersInv
<1>3. ASSUME pc # "drive", UNCHANGED <<arm, serialOpen>>,
             regs'[ADDR_PINZA] = regs[ADDR_PINZA],
             pc' # "drive" \/ action' \notin {"INIT", "CATCH", "DROP"}
      PROVE  PincersInv'
  BY <1>3 DEF PincersInv, Agree
<1>4. CASE WaitClient \/ Disconnect
  <2>1. regs'[ADDR_PINZA] = regs[ADDR_PINZA]
    BY <1>0, <1>4 DEF WaitClient, Disconnect, MarkSession
  <2> QED BY <1>3, <1>4, <2>1 DEF WaitClient, Disconnect
<1>5. CASE Receive \/ Refuse \/ NoAction
  BY <1>3, <1>5 DEF Receive, Refuse, NoAction
<1>6. CASE Answer \/ ConfirmCommand
  BY <1>3, <1>6, PinzaKept DEF Answer, ConfirmCommand, Confirm
<1>7. ASSUME NEW a, pc = "command", Start(a) PROVE regs'[ADDR_PINZA] = regs[ADDR_PINZA]
  BY <1>0, <1>7 DEF Start
<1>8. CASE Pincers
  <2>1. PICK a \in {"CATCH", "DROP"} : Start(a)
    BY <1>8 DEF Pincers
  <2>2. pc' = "drive" /\ action' = a /\ line' = 1
    BY <2>1 DEF Start
  <2>3. ~ (line' > 1)
    BY <2>2
  <2> QED BY <2>2, <2>3 DEF PincersInv
<1>9. CASE Automove
  BY <1>3, <1>7, <1>9 DEF Automove, Start
<1>10. ASSUME NEW a \in DOMAIN Jogs, Jog(a) PROVE PincersInv'
  <2>1. a \notin {"INIT", "CATCH", "DROP"}
    BY DEF Jogs
  <2> QED BY <1>3, <1>7, <1>10, <2>1 DEF Jog, Start
<1> QED BY <1>1, <1>2, <1>4, <1>5, <1>6, <1>8, <1>9, <1>10
        DEF ServerStep, RunCommand

-----------------------------------------------------------------------------
(* The order of the requests.  Of connection c the replies under way, the  *)
(* request in the server's hands and the requests under way have the ids   *)
(* from n + 1 to m, in that order.                                         *)
Hand(c) == IF pc = "analysed" /\ session = c THEN 1 ELSE 0

InOrder(c, n, m) ==
  /\ m = n + Len(outbox[c]) + Hand(c) + Len(inbox[c])
  /\ \A i \in 1 .. Len(outbox[c]) : outbox[c][i].id = n + i
  /\ Hand(c) = 1 => query.id = n + Len(outbox[c]) + 1
  /\ \A i \in 1 .. Len(inbox[c]) :
       inbox[c][i].id = n + Len(outbox[c]) + Hand(c) + i

LEMMA Regroup ==
  ASSUME NEW n \in Nat, NEW k \in Nat, NEW i \in Nat
  PROVE  /\ n + k + 0 + (i + 1) = n + k + 1 + i
         /\ n + k + 1 + i = n + (k + 1) + 0 + i
OBVIOUS

(* A request is taken into the hands. *)
LEMMA InOrderReceive ==
  ASSUME NEW R, ServerTypes(R), Receive,
         NEW c \in Conns, NEW n \in Nat, NEW m \in Nat, InOrder(c, n, m)
  PROVE  InOrder(c, n, m)'
<1>1. session \in Conns /\ inbox \in [Conns -> Seq(Frames(R))]
      /\ outbox \in [Conns -> Seq(Replies)] /\ inbox[session] # << >>
      /\ pc = "receive" /\ pc' = "analysed" /\ UNCHANGED <<outbox, session>>
  BY DEF Receive, ServerTypes
<1>2. inbox' = [inbox EXCEPT ![session] = Tail(@)]
      /\ query'.id = Head(inbox[session]).id
  BY DEF Receive
<1>3. CASE c # session
  <2>1. inbox'[c] = inbox[c] /\ outbox'[c] = outbox[c]
    BY <1>1, <1>2, <1>3
  <2>2. Hand(c) = 0 /\ Hand(c)' = 0
    BY <1>1, <1>3 DEF Hand
  <2>. QED  BY <2>1, <2>2 DEF InOrder
<1>4. CASE c = session
  <2>1. inbox'[c] = Tail(inbox[c]) /\ inbox[c] \in Seq(Frames(R))
        /\ inbox[c] # << >>
    BY <1>1, <1>2, <1>4
  <2>2. /\ Len(inbox[c]) \in Nat /\ Len(inbox'[c]) = Len(inbox[c]) - 1
        /\ Len(inbox[c]) > 0 /\ Head(inbox[c]) = inbox[c][1]
        /\ \A i \in 1 .. Len(inbox'[c]) : inbox'[c][i] = inbox[c][i + 1]
    BY <2>1
  <2>3. Hand(c) = 0 /\ Hand(c)' = 1
    BY <1>1, <1>4 DEF Hand
  <2>4. Len(outbox[c]) \in Nat
    BY <1>1
  <2>5. query'.id = n + Len(outbox[c]) + 1
    <3>1. 1 \in 1 .. Len(inbox[c])
      BY <2>2
    <3>2. inbox[c][1].id = n + Len(outbox[c]) + 0 + 1
      BY <2>3, <3>1 DEF InOrder
    <3>. QED  BY <1>2, <1>4, <2>2, <2>4, <3>2
  <2>6. ASSUME NEW i \in 1 .. Len(inbox'[c])
        PROVE  inbox'[c][i].id = n + Len(outbox[c]) + 1 + i
    <3>1. i + 1 \in 1 .. Len(inbox[c]) /\ i \in Nat
      <4>1. Len(inbox'[c]) \in Nat
        BY <2>2
      <4>. QED  BY <2>2, <4>1
    <3>2. inbox[c][i + 1].id = n + Len(outbox[c]) + 0 + (i + 1)
      BY <2>3, <3>1 DEF InOrder
    <3>3. inbox'[c][i].id = inbox[c][i + 1].id
      BY <2>2
    <3>4. n + Len(outbox[c]) + 0 + (i + 1) = n + Len(outbox[c]) + 1 + i
      BY <2>4, <3>1, Regroup
    <3>. QED  BY <3>2, <3>3, <3>4
  <2>7. m = n + Len(outbox[c]) + 1 + Len(inbox'[c])
    <3>1. m = n + Len(outbox[c]) + 0 + Len(inbox[c])
      BY <2>3 DEF InOrder
    <3>2. PICK i \in Nat : i = Len(inbox'[c])
      BY <2>2
    <3>3. Len(inbox[c]) = i + 1
      BY <2>2, <3>2
    <3>4. n + Len(outbox[c]) + 0 + (i + 1) = n + Len(outbox[c]) + 1 + i
      BY <2>4, Regroup
    <3>. QED  BY <3>1, <3>2, <3>3, <3>4
  <2>. QED  BY <1>1, <2>3, <2>5, <2>6, <2>7 DEF InOrder
<1>. QED  BY <1>3, <1>4

(* The request in hand is answered. *)
LEMMA InOrderDeliver ==
  ASSUME NEW R, ServerTypes(R), NEW rep, Deliver(rep),
         pc = "analysed", pc' # "analysed", UNCHANGED <<inbox, session>>,
         NEW c \in Conns, conn[c] = "open",
         NEW n \in Nat, NEW m \in Nat, InOrder(c, n, m)
  PROVE  InOrder(c, n, m)'
<1>1. session \in Conns /\ outbox \in [Conns -> Seq(Replies)]
      /\ inbox \in [Conns -> Seq(Frames(R))]
  BY DEF ServerTypes
<1>2. CASE c # session
  <2>1. outbox'[c] = outbox[c] /\ Hand(c) = 0 /\ Hand(c)' = 0
    BY <1>1, <1>2 DEF Deliver, Hand
  <2>. QED  BY <2>1 DEF InOrder
<1>3. CASE c = session
  <2>. DEFINE r == [id |-> query.id, rep |-> rep]
  <2>1. outbox'[c] = Append(outbox[c], r) /\ Hand(c) = 1 /\ Hand(c)' = 0
    BY <1>1, <1>3 DEF Deliver, Hand
  <2>2. /\ Len(outbox[c]) \in Nat /\ Len(outbox'[c]) = Len(outbox[c]) + 1
        /\ \A i \in 1 .. Len(outbox[c]) : outbox'[c][i] = outbox[c][i]
        /\ outbox'[c][Len(outbox[c]) + 1] = r
    <3>. HIDE DEF r
    <3>1. outbox[c] \in Seq(Replies)
      BY <1>1
    <3>. QED  BY <2>1, <3>1
  <2>3. r.id = n + (Len(outbox[c]) + 1)
    BY <2>1, <2>2 DEF InOrder
  <2>. HIDE DEF r
  <2>4. ASSUME NEW i \in 1 .. Len(outbox'[c]) PROVE outbox'[c][i].id = n + i
    <3>1. i \in 1 .. Len(outbox[c]) \/ i = Len(outbox[c]) + 1
      BY <2>2
    <3>. QED  BY <2>2, <2>3, <3>1 DEF InOrder
  <2>5. Len(inbox[c]) \in Nat
    BY <1>1
  <2>6. ASSUME NEW i \in 1 .. Len(inbox'[c])
        PROVE  inbox'[c][i].id = n + Len(outbox'[c]) + 0 + i
    <3>1. inbox[c][i].id = n + Len(outbox[c]) + 1 + i
      BY <2>1 DEF InOrder
    <3>2. n + Len(outbox[c]) + 1 + Len(inbox[c])
            = n + (Len(outbox[c]) + 1) + 0 + Len(inbox[c])
      BY <2>2, <2>5, Regroup
    <3>3. inbox' = inbox
      OBVIOUS
    <3>. QED  BY <2>2, <3>1, <3>2, <3>3
  <2>7. m = n + Len(outbox'[c]) + 0 + Len(inbox'[c])
    <3>1. m = n + Len(outbox[c]) + 1 + Len(inbox[c])
      BY <2>1 DEF InOrder
    <3>2. n + Len(outbox[c]) + 1 + Len(inbox[c])
            = n + (Len(outbox[c]) + 1) + 0 + Len(inbox[c])
      BY <2>2, <2>5, Regroup
    <3>3. inbox' = inbox
      OBVIOUS
    <3>. QED  BY <2>2, <3>1, <3>2, <3>3
  <2>. QED  BY <2>1, <2>4, <2>6, <2>7 DEF InOrder
<1>. QED  BY <1>2, <1>3

(* The server takes the requests of a connection and answers them in the   *)
(* order in which they were sent, one answer for each.                     *)
LEMMA InOrderStep ==
  ASSUME NEW R, ServerTypes(R), ServerStep, NEW c \in Conns, conn[c] = "open",
         NEW n \in Nat, NEW m \in Nat, InOrder(c, n, m)
  PROVE  InOrder(c, n, m)'
<1>. USE DEF mainVars, modbusVars, netVars, armVars
<1>1. ASSUME pc # "analysed", pc' # "analysed", UNCHANGED <<inbox, outbox>>
      PROVE  InOrder(c, n, m)'
  BY <1>1 DEF InOrder, Hand
<1>2. CASE SendCommand \/ Returned \/ WaitClient \/ Disconnect
  BY <1>1, <1>2 DEF SendCommand, Returned, WaitClient, Disconnect
<1>3. CASE RunCommand
  BY <1>1, <1>3 DEF RunCommand, Pincers, Automove, Jog, NoAction, Start
<1>4. CASE Receive
  BY <1>4, InOrderReceive
<1>5. CASE Answer \/ ConfirmCommand
  <2>1. Deliver(Reply(query.req)) /\ pc = "analysed" /\ pc' # "analysed"
        /\ UNCHANGED <<inbox, session>>
    BY <1>5 DEF Answer, ConfirmCommand, Confirm
  <2>. QED  BY <2>1, InOrderDeliver
<1>6. CASE Refuse
  <2>1. Deliver(Exception) /\ pc = "analysed" /\ pc' # "analysed"
        /\ UNCHANGED <<inbox, session>>
    BY <1>6 DEF Refuse
  <2>. QED  BY <2>1, InOrderDeliver
<1>. QED  BY <1>2, <1>3, <1>4, <1>5, <1>6 DEF ServerStep

(* The same two steps at the master's end: a request leaves, a reply is    *)
(* taken.                                                                  *)
LEMMA InOrderSend ==
  ASSUME NEW R, ServerTypes(R), NEW c \in Conns, NEW n \in Nat, NEW m \in Nat,
         NEW r \in R, inbox' = [inbox EXCEPT ![c] = Append(@, [id |-> m + 1, req |-> r])],
         UNCHANGED <<pc, session, query, outbox>>, InOrder(c, n, m)
  PROVE  InOrder(c, n, m + 1)'
<1>1. inbox \in [Conns -> Seq(Frames(R))] /\ outbox \in [Conns -> Seq(Replies)]
  BY DEF ServerTypes
<1>2. PICK f \in Frames(R) : f = [id |-> m + 1, req |-> r] /\ f.id = m + 1
  BY DEF Frames
<1>3. inbox'[c] = Append(inbox[c], f) /\ inbox[c] \in Seq(Frames(R))
  BY <1>1, <1>2
<1>4. /\ Len(inbox[c]) \in Nat /\ Len(inbox'[c]) = Len(inbox[c]) + 1
      /\ \A i \in 1 .. Len(inbox[c]) : inbox'[c][i] = inbox[c][i]
      /\ inbox'[c][Len(inbox[c]) + 1] = f
  BY <1>3, AppendProperties
<1>5. Hand(c)' = Hand(c) /\ Hand(c) \in {0, 1} /\ Len(outbox[c]) \in Nat
  BY <1>1 DEF Hand
<1>6. PICK h \in Nat : h = n + Len(outbox[c]) + Hand(c)
  BY <1>5
<1>7. m = h + Len(inbox[c])
  BY <1>6 DEF InOrder
<1>8. m + 1 = h + Len(inbox'[c])
  BY <1>4, <1>7
<1>9. ASSUME NEW i \in 1 .. Len(inbox'[c]) PROVE inbox'[c][i].id = h + i
  <2>1. i \in 1 .. Len(inbox[c]) \/ i = Len(inbox[c]) + 1
    BY <1>4
  <2>2. CASE i \in 1 .. Len(inbox[c])
    BY <1>4, <1>6, <2>2 DEF InOrder
  <2>3. CASE i = Len(inbox[c]) + 1
    <3>1. m + 1 = h + i
      BY <1>4, <1>7, <2>3
    <3>. QED  BY <1>2, <1>4, <2>3, <3>1
  <2>. QED  BY <2>1, <2>2, <2>3
<1>. QED  BY <1>5, <1>6, <1>8, <1>9 DEF InOrder

LEMMA InOrderTake ==
  ASSUME NEW R, ServerTypes(R), NEW c \in Conns, NEW n \in Nat, NEW m \in Nat,
         outbox[c] # << >>, outbox' = [outbox EXCEPT ![c] = Tail(@)],
         UNCHANGED <<pc, session, query, inbox>>, InOrder(c, n, m)
  PROVE  InOrder(c, n + 1, m)'
<1>1. inbox \in [Conns -> Seq(Frames(R))] /\ outbox \in [Conns -> Seq(Replies)]
  BY DEF ServerTypes
<1>2. outbox'[c] = Tail(outbox[c]) /\ outbox[c] \in Seq(Replies)
  BY <1>1
<1>3. /\ Len(outbox[c]) \in Nat /\ Len(outbox'[c]) = Len(outbox[c]) - 1
      /\ Len(outbox[c]) > 0 /\ Len(outbox'[c]) \in Nat
      /\ \A i \in 1 .. Len(outbox'[c]) : outbox'[c][i] = outbox[c][i + 1]
  <2>. DEFINE s == outbox[c]  t == outbox'[c]
  <2>1. s \in Seq(Replies) /\ s # << >> /\ t = Tail(s)
    BY <1>2
  <2>. HIDE DEF s, t
  <2>2. Len(s) \in Nat /\ Len(t) = Len(s) - 1 /\ Len(s) > 0 /\ Len(t) \in Nat
    BY <2>1
  <2>3. \A i \in 1 .. Len(t) : t[i] = s[i + 1]
    BY <2>1, <2>2
  <2>. QED  BY <2>2, <2>3 DEF s, t
<1>4. Hand(c)' = Hand(c) /\ Hand(c) \in {0, 1} /\ Len(inbox[c]) \in Nat
  BY <1>1 DEF Hand
<1>5. n + Len(outbox[c]) = (n + 1) + Len(outbox'[c])
  <2>1. PICK k \in Nat : k = Len(outbox'[c])
    BY <1>3
  <2>2. Len(outbox[c]) = k + 1
    BY <1>3, <2>1
  <2>3. n + (k + 1) = (n + 1) + k
    OBVIOUS
  <2>. QED  BY <2>1, <2>2, <2>3
<1>6. ASSUME NEW i \in 1 .. Len(outbox'[c]) PROVE outbox'[c][i].id = (n + 1) + i
  <2>1. i + 1 \in 1 .. Len(outbox[c]) /\ n + (i + 1) = (n + 1) + i
    BY <1>3
  <2>. QED  BY <1>3, <2>1 DEF InOrder
<1>. QED  BY <1>4, <1>5, <1>6 DEF InOrder

(* A connection not yet opened carries nothing and is not served. *)
Unopened ==
  /\ \A c \in Conns :
       conn[c] = "new" => c # session /\ inbox[c] = << >> /\ outbox[c] = << >>
  /\ \A i \in 1 .. Len(backlog) : conn[backlog[i]] # "new"

LEMMA UnopenedStep ==
  ASSUME NEW R, ServerTypes(R), ServerStep, Unopened
  PROVE  Unopened'
<1>. USE DEF mainVars, modbusVars, netVars, armVars
<1>0. backlog \in Seq(Conns) /\ conn' = conn
  BY DEF ServerTypes, ServerStep, SendCommand, Returned, WaitClient, Receive, Answer,
         Refuse, ConfirmCommand, Disconnect, RunCommand, Pincers, Automove, NoAction,
         Jog, Start
<1>1. CASE SendCommand \/ Returned \/ Disconnect \/ RunCommand
  BY <1>1 DEF SendCommand, Returned, Disconnect, RunCommand, Pincers, Automove,
              NoAction, Jog, Start, Unopened
<1>2. CASE WaitClient
  <2>1. /\ backlog # << >> /\ session' = Head(backlog) /\ backlog' = Tail(backlog)
        /\ UNCHANGED <<inbox, outbox>>
    BY <1>2 DEF WaitClient
  <2>2. /\ Len(backlog) \in Nat /\ Len(backlog) > 0 /\ session' = backlog[1]
        /\ Len(backlog') = Len(backlog) - 1
        /\ \A i \in 1 .. Len(backlog') : backlog'[i] = backlog[i + 1]
    BY <1>0, <2>1, HeadTailProperties
  <2>3. conn[session'] # "new"
    BY <2>2 DEF Unopened
  <2>4. ASSUME NEW i \in 1 .. Len(backlog') PROVE conn[backlog'[i]] # "new"
    <3>1. i + 1 \in 1 .. Len(backlog)
      BY <2>2
    <3>. QED  BY <2>2, <3>1 DEF Unopened
  <2>. QED  BY <1>0, <2>1, <2>3, <2>4 DEF Unopened
<1>3. CASE Receive
  <2>1. session \in Conns /\ inbox \in [Conns -> Seq(Frames(R))]
    BY <1>3 DEF Receive, ServerTypes
  <2>. QED  BY <1>3, <2>1 DEF Receive, Unopened
<1>4. ASSUME NEW rep, Deliver(rep), UNCHANGED <<session, backlog, conn, inbox>>
      PROVE  Unopened'
  <2>1. outbox \in [Conns -> Seq(Replies)]
    BY DEF ServerTypes
  <2>. QED  BY <1>4, <2>1 DEF Deliver, Unopened
<1>5. CASE Answer \/ Refuse \/ ConfirmCommand
  BY <1>4, <1>5 DEF Answer, Refuse, ConfirmCommand, Confirm
<1>. QED  BY <1>1, <1>2, <1>3, <1>5 DEF ServerStep
=============================================================================
