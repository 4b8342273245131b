------------------------------ MODULE RxTeleop ------------------------------
(***************************************************************************)
(* The three programs that drive the arm from a keyboard: No_modbus,       *)
(* rx90_serial, which shows a position in Gazebo before it asks whether    *)
(* to send it to the arm, and rx90_rviz_control, which also checks the     *)
(* limits of the joints, plans with MoveIt, and has a callback watch       *)
(* Gazebo's contacts while the position is tried there.                    *)
(*                                                                         *)
(* Angles are in tenths of a degree.  A command is sent to the controller  *)
(* in one step (RxDialog has its characters).  V+, Gazebo and MoveIt are   *)
(* external.                                                               *)
(***************************************************************************)
EXTENDS Integers, Sequences

CONSTANTS
  Programs,    \* those of "No_modbus", "rx90_serial", "rx90_rviz_control"
  Typed,       \* joints the operator, or MoveIt, may give
  InputFails,  \* may what is typed fail to be a number, or the input end?
  MaxKeys,     \* bound: turns of the main loop
  MaxMessages  \* bound: contact messages per call of gazebo()

Joints == [1 .. 6 -> Int]

ASSUME ProgramsAssumption ==
  Programs \subseteq {"No_modbus", "rx90_serial", "rx90_rviz_control"}
ASSUME TypedAssumption == Typed \subseteq Joints
ASSUME BoundsAssumption ==
  InputFails \in BOOLEAN /\ MaxKeys \in Nat /\ MaxMessages \in Nat

VARIABLES
  program,
  pc,          \* where main()'s thread is
  todo,        \* commands and service calls it still has to make
  next,        \* where it goes on when todo is empty
  key, keys,   \* the key pressed last, and how many turns there were
  cin,         \* "good" or "failed": a failed stream stays so
  shift,       \* Rx90::x, y
  joints,      \* j1 .. j6
  planned,     \* MoveIt's joints, when it gave them; else << >>
  target,      \* what was last published for Gazebo's controllers
  gripper,     \* Gazebo's: what each finger, and the block, was told last
  failed,      \* history: a service call of the last catch or open failed
  arm, poseSet, serialOpen,    \* the controller; does it know POSE?
  mandar_accion, contador_contactos, callback, tmp, messages,
  touched, quiet \* history: a contact in this call of gazebo(), and the
                 \* messages without one since the last

keyVars == <<program, key, keys>>
mainVars == <<pc, todo, next, shift>>
planVars == <<joints, planned, target>>
gripperVars == <<gripper, failed>>
armVars == <<arm, poseSet, serialOpen>>
contactVars == <<mandar_accion, contador_contactos, callback, tmp,
                 messages, touched, quiet>>
vars == <<keyVars, mainVars, cin, planVars, gripperVars, armVars, contactVars>>

Rviz == program = "rx90_rviz_control"

-----------------------------------------------------------------------------
(* Places: a precision point has its joints; one near POSE, which no       *)
(* program sets, a displacement.                                           *)
NoPlace == [joints |-> << >>, by |-> << >>]
AtJoints(j) == [joints |-> j, by |-> << >>]
NearPose(d) == [joints |-> << >>, by |-> d]

Origin(p) == IF p = "rx90_serial" THEN <<0, -900, 900, 0, 0, 0>>
             ELSE <<1220, -770, -190, 550, 450, -430>>

(* External, V+: a location that was never set can be neither shifted nor  *)
(* moved to.                                                               *)
Obey(a, command) ==
  CASE command = "SET #ORIGIN"  -> [a EXCEPT !.origin = AtJoints(joints)]
    [] command = "SET #POSE"    -> [a EXCEPT !.pose = AtJoints(joints)]
    [] command = "MOVE #ORIGIN" -> [a EXCEPT !.at = a.origin]
    [] command = "MOVE #POSE"   -> [a EXCEPT !.at = a.pose]
    [] command = "OPENI"        -> [a EXCEPT !.gripper = "open"]
    [] command = "CLOSEI"       -> [a EXCEPT !.gripper = "closed"]
    [] command = "SET P" /\ poseSet -> [a EXCEPT !.P = NearPose(shift)]
    [] command = "MOVES P"      -> [a EXCEPT !.at = IF a.P = NoPlace THEN @
                                                    ELSE a.P]
    [] OTHER -> a

(* What main()'s thread sends: commands to the arm, and service calls to   *)
(* the simulation, for a finger or for the block.                          *)
Commands(names) == [i \in DOMAIN names |-> [to |-> "arm", what |-> names[i]]]
Service(to, what) == [to |-> to, what |-> what]
Fingers == {"l", "r", "m"}

Opening(p) ==
  Commands(
    (IF p = "rx90_rviz_control" THEN <<"SET #ORIGIN", "SET #POSE">>
     ELSE <<"SET #ORIGIN">>)
    \o <<"SPEED", "ABOVE", "MOVE #ORIGIN", "HERE ORIGIN", "OPENI",
         "ENABLE CP">>)
ShiftP == Commands(<<"SET P", "SPEED", "MOVES P">>)
MovePosition == Commands(<<"SET #POSE", "SPEED", "ABOVE", "MOVE #POSE">>)

(* Mutant of CatchIt: the block is not made to follow the gripper. *)
CatchItReleasing ==
  (IF Rviz THEN <<Service("l", "closing"), Service("r", "closing"),
                  Service("m", "closing"), Service("block", "0")>>
   ELSE << >>) \o Commands(<<"CLOSEI">>)
(* Mutant of CatchIt: the finger and the block swap what they are told. *)
CatchItSwapped ==
  (IF Rviz THEN <<Service("l", "1"), Service("r", "closing"),
                  Service("m", "closing"), Service("block", "closing")>>
   ELSE << >>) \o Commands(<<"CLOSEI">>)
CatchIt ==
  (IF Rviz THEN <<Service("l", "closing"), Service("r", "closing"),
                  Service("m", "closing"), Service("block", "1")>>
   ELSE << >>) \o Commands(<<"CLOSEI">>)
OpenIt ==
  <<Service("m", "opening"), Service("l", "opening"),
    Service("r", "opening"), Service("block", "0")>> \o Commands(<<"OPENI">>)

-----------------------------------------------------------------------------
(* truncate(f, 0) *)
Truncate(j) == [i \in 1 .. 6 |-> (j[i] \div 10) * 10]

Limits == <<-1550 .. 1550, -1980 .. 180, -520 .. 2310,
            -2680 .. 2680, -1020 .. 1180, -2680 .. 2680>>
Permitted(j) == \A i \in 1 .. 6 : j[i] \in Limits[i]

(* Mutant of ToGazebo: the shoulder keeps its sign. *)
ToGazeboUnsigned(j) == [j EXCEPT ![2] = j[2] + 900, ![3] = j[3] - 900]
(* From the arm's coordinates to Gazebo's, and back. *)
ToGazebo(j) == [j EXCEPT ![1] = -j[1], ![2] = j[2] + 900, ![3] = j[3] - 900]
(* Mutant of ToReal: the shoulder keeps its sign. *)
ToRealUnsigned(p) == [p EXCEPT ![2] = p[2] - 900, ![3] = p[3] + 900]
ToReal(p) == [p EXCEPT ![1] = -p[1], ![2] = p[2] - 900, ![3] = p[3] + 900]

(* std::cin >> variable, and what is in it then: once the stream has       *)
(* failed, what was there before, or anything if nothing was.              *)
Reads(values, left) ==
  {[got |-> v, cin |-> "good"] : v \in IF cin = "good" THEN values ELSE {}}
  \cup
  {[got |-> v, cin |-> "failed"] :
     v \in IF cin = "failed" \/ InputFails THEN left ELSE {}}

Init ==
  /\ program \in Programs
  /\ pc = "script" /\ todo = Opening(program) /\ next = "menu"
  /\ key = "n" /\ keys = 0 /\ cin = "good"
  /\ shift = <<0, 0>>
  /\ joints = Origin(program) /\ planned = << >> /\ target = << >>
  /\ gripper = [l |-> "free", r |-> "free", m |-> "free", block |-> "0"]
  /\ failed = FALSE
  /\ arm = [origin |-> NoPlace, pose |-> NoPlace, P |-> NoPlace,
            at |-> NoPlace, gripper |-> "open"]
  /\ poseSet \in BOOLEAN /\ serialOpen \in BOOLEAN
  /\ mandar_accion = TRUE /\ contador_contactos = 0
  /\ callback = "idle" /\ tmp = 0 /\ messages = 0
  /\ touched = FALSE /\ quiet = 0

(* sendCommand: without a serial port it only prints. *)
SendCommand ==
  /\ pc = "script" /\ todo # << >> /\ Head(todo).to = "arm"
  /\ arm' = IF serialOpen THEN Obey(arm, Head(todo).what) ELSE arm
  /\ todo' = Tail(todo)
  /\ UNCHANGED <<pc, next, shift, keyVars, cin, planVars, gripperVars,
                 poseSet, serialOpen, contactVars>>

(* client.call, which may fail: the program goes on. *)
CallService ==
  /\ pc = "script" /\ todo # << >> /\ Head(todo).to # "arm"
  /\ \/ /\ gripper' = [gripper EXCEPT ![Head(todo).to] = Head(todo).what]
        /\ UNCHANGED failed
     \/ failed' = TRUE /\ UNCHANGED gripper
  /\ todo' = Tail(todo)
  /\ UNCHANGED <<pc, next, shift, keyVars, cin, planVars, armVars, contactVars>>

Returned ==
  /\ pc = "script" /\ todo = << >>
  /\ pc' = next
  /\ UNCHANGED <<todo, next, shift, keyVars, cin, planVars, gripperVars,
                 armVars, contactVars>>

Run(script, then) == pc' = "script" /\ todo' = script /\ next' = then
Go(place) == pc' = place /\ UNCHANGED <<todo, next>>

-----------------------------------------------------------------------------
(* main(): "n" stands for every key without a meaning of its own. *)
Keys == {"w", "a", "s", "d", "e", "q", "p", "n"} \cup
        (IF Rviz THEN {"o"} ELSE {})

Delta == [w |-> <<0, 25>>, s |-> <<0, -25>>, a |-> <<-25, 0>>, d |-> <<25, 0>>]

(* A key, and Rx90::move up to its first command.  key is not initialised: *)
(* when the first reading fails it may be any.                             *)
LeftKeys == IF keys = 0 THEN Keys ELSE {key}

PressKey ==
  /\ pc = "menu" /\ keys < MaxKeys
  /\ keys' = keys + 1
  /\ \E r \in Reads(Keys, LeftKeys) :
       /\ key' = r.got /\ cin' = r.cin
       /\ shift' = IF r.got \in DOMAIN Delta
                   THEN <<shift[1] + Delta[r.got][1], shift[2] + Delta[r.got][2]>>
                   ELSE shift
       /\ CASE r.got = "p" -> Go(IF Rviz THEN "mode" ELSE "joints")
            [] r.got = "e" -> Run(CatchIt \o ShiftP, "menu")
            [] r.got = "o" -> Run(OpenIt \o ShiftP, "menu")
            [] r.got = "q" -> Run(ShiftP, "done")
            [] OTHER       -> Run(ShiftP, "menu")
       /\ failed' = (failed /\ r.got \notin {"e", "o"})
  /\ UNCHANGED <<program, planVars, gripper, armVars, contactVars>>

(* gazebo() of rx90_rviz_control begins: it subscribes to the contacts. *)
Subscribe == touched' = FALSE /\ messages' = 0
Subscribed == Rviz /\ (\/ pc \in {"joints", "check", "wait", "ask", "refused",
                                   "leave"}
                       \/ pc = "script" /\ next = "leave")

(* Position or joints?  pos is not initialised. *)
ChooseMode ==
  /\ pc = "mode"
  /\ \E r \in Reads({"p", "j", "x"}, {"p", "j", "x"}) :
       /\ cin' = r.cin
       /\ CASE r.got = "p" -> Go("pose") /\ UNCHANGED <<touched, messages>>
            [] r.got = "j" -> Go("joints") /\ Subscribe
            [] OTHER       -> Go("menu") /\ UNCHANGED <<touched, messages>>
  /\ UNCHANGED <<shift, keyVars, planVars, gripperVars, armVars,
                 mandar_accion, contador_contactos, callback, tmp, quiet>>

(* rviz(): a pose is typed, refused when too low, else tried in MoveIt, and *)
(* the joints it came to are sent to Gazebo if the operator wants them to.  *)
Plan ==
  /\ pc = "pose"
  /\ \E low \in BOOLEAN, r \in Reads({"y", "n"}, {"y"}) :
       /\ cin' = r.cin
       /\ IF low \/ r.got # "y"
          THEN Go("menu") /\ UNCHANGED <<joints, planned, touched, messages>>
          ELSE /\ Go("check") /\ Subscribe
               /\ \E j \in Typed : /\ planned' = ToGazebo(j)
                                   /\ joints' = ToReal(planned')
  /\ UNCHANGED <<shift, keyVars, target, gripperVars, armVars,
                 mandar_accion, contador_contactos, callback, tmp, quiet>>

(* The joints are typed.  No_modbus sends them as they are. *)
TypeJoints ==
  /\ pc = "joints"
  /\ \E r \in Reads(Typed, Typed) : cin' = r.cin /\ joints' = r.got
  /\ planned' = << >>
  /\ IF program = "No_modbus" THEN Run(MovePosition, "menu") ELSE Go("check")
  /\ UNCHANGED <<shift, keyVars, target, gripperVars, armVars, contactVars>>

(* rx90_serial publishes the joints at once; rx90_rviz_control truncates    *)
(* them, and publishes them when the arm can reach them.  target is what is *)
(* published, on a topic advertised in the same call: whether Gazebo's      *)
(* controllers have subscribed to it by then is left out (RxHandover is     *)
(* about that), and so is whether the simulated arm gets there.             *)
Publish ==
  /\ pc = "check"
  /\ joints' = IF Rviz THEN Truncate(joints) ELSE joints
  /\ IF Rviz /\ ~Permitted(joints')
     THEN Go("menu") /\ UNCHANGED target
     ELSE /\ Go(IF Rviz THEN "wait" ELSE "ask")
          /\ target' = ToGazebo(joints')
  /\ UNCHANGED <<shift, keyVars, cin, planned, gripperVars, armVars, contactVars>>

(* Ten seconds later: if (mandar_accion==true) *)
CheckContacts ==
  /\ pc = "wait"
  /\ Go(IF mandar_accion THEN "ask" ELSE "refused")
  /\ UNCHANGED <<shift, keyVars, cin, planVars, gripperVars, armVars, contactVars>>

(* Send position to real Rx90?  send_position is "y" to begin with. *)
Answer ==
  /\ pc = "ask"
  /\ \E r \in Reads({"y", "n"}, {"y"}) :
       /\ cin' = r.cin
       /\ IF r.got = "y"
          THEN Run(MovePosition, IF Rviz THEN "leave" ELSE "menu")
          ELSE Go(IF Rviz THEN "leave" ELSE "menu")
  /\ UNCHANGED <<shift, keyVars, planVars, gripperVars, armVars, contactVars>>

Refuse ==
  /\ pc = "refused"
  /\ mandar_accion' = TRUE
  /\ Go("leave")
  /\ UNCHANGED <<shift, keyVars, cin, planVars, gripperVars, armVars,
                 contador_contactos, callback, tmp, messages, touched, quiet>>

(* gazebo() returns, and with it the subscription ends. *)
Leave ==
  /\ pc = "leave"
  /\ contador_contactos' = 0
  /\ Go("menu")
  /\ UNCHANGED <<shift, keyVars, cin, planVars, gripperVars, armVars,
                 mandar_accion, callback, tmp, messages, touched, quiet>>

MainThread ==
  \/ SendCommand \/ CallService \/ Returned
  \/ PressKey \/ ChooseMode \/ Plan \/ TypeJoints \/ Publish
  \/ CheckContacts \/ Answer \/ Refuse \/ Leave

-----------------------------------------------------------------------------
(* callb, in a thread of Gazebo's transport, which shares the two globals   *)
(* with main()'s thread and no lock.                                        *)

Contact ==
  /\ Subscribed /\ callback = "idle" /\ messages < MaxMessages
  /\ messages' = messages + 1
  /\ mandar_accion' = FALSE
  /\ callback' = "reset"
  /\ touched' = TRUE /\ quiet' = 0
  /\ UNCHANGED <<contador_contactos, tmp>>

(* Mutant of Reset: the counter keeps its value. *)
ResetNot ==
  /\ callback = "reset"
  /\ tmp' = contador_contactos
  /\ callback' = "test"
  /\ UNCHANGED <<mandar_accion, contador_contactos, messages, touched, quiet>>

Reset ==
  /\ callback = "reset"
  /\ contador_contactos' = 0 /\ tmp' = 0
  /\ callback' = "test"
  /\ UNCHANGED <<mandar_accion, messages, touched, quiet>>

(* contador_contactos++, read and then written. *)
NoContact ==
  /\ Subscribed /\ callback = "idle" /\ messages < MaxMessages
  /\ messages' = messages + 1
  /\ tmp' = contador_contactos + 1
  /\ callback' = "count"
  /\ quiet' = quiet + 1
  /\ UNCHANGED <<mandar_accion, contador_contactos, touched>>

Count ==
  /\ callback = "count"
  /\ contador_contactos' = tmp
  /\ callback' = "test"
  /\ UNCHANGED <<mandar_accion, tmp, messages, touched, quiet>>

(* Mutant of Test: one message too early. *)
TestEarly ==
  /\ callback = "test"
  /\ \E c \in {tmp, contador_contactos} :
       mandar_accion' = (mandar_accion \/ c = 9)
  /\ callback' = "idle"
  /\ UNCHANGED <<contador_contactos, tmp, messages, touched, quiet>>

(* The compiler may have the counter in a register, or read it again. *)
Test ==
  /\ callback = "test"
  /\ \E c \in {tmp, contador_contactos} :
       mandar_accion' = (mandar_accion \/ c = 10)
  /\ callback' = "idle"
  /\ UNCHANGED <<contador_contactos, tmp, messages, touched, quiet>>

CallbackThread ==
  /\ Contact \/ Reset \/ NoContact \/ Count \/ Test
  /\ UNCHANGED <<keyVars, mainVars, cin, planVars, gripperVars, armVars>>

Next == MainThread \/ CallbackThread

Spec == Init /\ [][Next]_vars

-----------------------------------------------------------------------------
Places == {NoPlace} \cup [joints : Joints, by : {<< >>}]
          \cup [joints : {<< >>}, by : Int \X Int]
Names == {"SET #ORIGIN", "SET #POSE", "SET P", "SPEED", "ABOVE", "MOVE #ORIGIN",
          "MOVE #POSE", "MOVES P", "HERE ORIGIN", "OPENI", "CLOSEI", "ENABLE CP"}
Steps == [to : {"arm"}, what : Names]
         \cup [to : Fingers, what : {"closing", "opening"}]
         \cup [to : {"block"}, what : {"0", "1"}]

(* Every variable stays in its type. *)
TypeOK ==
  /\ program \in Programs
  /\ pc \in {"script", "menu", "mode", "pose", "joints", "check", "wait",
             "ask", "refused", "leave", "done"}
  /\ next \in {"menu", "leave", "done"}
  /\ todo \in Seq(Steps)
  /\ key \in {"w", "a", "s", "d", "e", "o", "q", "p", "n"} /\ keys \in Nat
  /\ cin \in {"good", "failed"}
  /\ shift \in Int \X Int
  /\ joints \in Joints
  /\ planned \in Joints \cup {<< >>} /\ target \in Joints \cup {<< >>}
  /\ \A f \in Fingers : gripper[f] \in {"free", "closing", "opening"}
  /\ gripper.block \in {"0", "1"}
  /\ failed \in BOOLEAN
  /\ \A place \in {"origin", "pose", "P", "at"} : arm[place] \in Places
  /\ arm.gripper \in {"open", "closed"}
  /\ poseSet \in BOOLEAN /\ serialOpen \in BOOLEAN
  /\ mandar_accion \in BOOLEAN /\ contador_contactos \in Nat
  /\ callback \in {"idle", "reset", "count", "test"} /\ tmp \in Nat
  /\ messages \in Nat /\ touched \in BOOLEAN /\ quiet \in Nat

(* A contact blocks the arm for ten messages: between callbacks, a blocked *)
(* arm is always still to be released by the callback's test for ten, which *)
(* a counter that had passed ten would never meet again.                   *)
BlockCanLift ==
  callback = "idle" /\ ~mandar_accion => contador_contactos < 10

(* The program asks whether to send a position only if Gazebo showed no    *)
(* contact in this call of gazebo(), or ten messages without one since,    *)
(* however the callback and main() interleave.                             *)
GateSound ==
  [][pc = "wait" /\ pc' = "ask" => ~touched \/ quiet >= 10]_vars

(* In the menu Gazebo was last asked to do what the arm's gripper does,    *)
(* with each finger and with the block that follows the gripper, if no     *)
(* service call failed.                                                    *)
SimulationFollowsGripper ==
  pc = "menu" /\ Rviz /\ serialOpen /\ ~failed =>
    /\ (gripper.block = "1") <=> (arm.gripper = "closed")
    /\ \A f \in Fingers : (gripper[f] = "closing") <=> (arm.gripper = "closed")

(* The precision point the arm stands at; << >> when it stands near POSE. *)
Base == arm.at.joints

(* Where there is a simulation, the arm goes to a position only when       *)
(* Gazebo has been sent there first, as rviz() converts it back, and       *)
(* rx90_rviz_control sends it within its limits only.                      *)
OnlySimulatedPoses ==
  [][arm.at' # arm.at /\ key = "p" /\ program # "No_modbus" =>
       /\ target # << >> /\ arm.at' = AtJoints(ToReal(target))
       /\ Rviz => Permitted(Base')]_vars

(* What is published for a plan of MoveIt, back and forth through the      *)
(* arm's coordinates and truncated there, is within a degree of the plan.  *)
SimulatesPlan ==
  [][target' # target /\ planned # << >> =>
       \A i \in 1 .. 6 : target'[i] - planned[i] \in -9 .. 9]_vars

-----------------------------------------------------------------------------
(* What a comment of rx90_rviz_control says and the code does not do. *)

(* "si hay contacto que no deje mandar acción a el robot real"             *)
(* (rx90_rviz_control/src/Rx90.cpp:583): a position is not sent to the arm *)
(* while a contact blocks it.                                              *)
NoMoveInContact ==
  [][pc = "ask" /\ pc' = "script" => mandar_accion]_vars
=============================================================================
