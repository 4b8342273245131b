--------------------------- MODULE RxTeleopProofs ---------------------------
(***************************************************************************)
(* Theorems about RxTeleop, for any of its programs, any joints, any       *)
(* number of keys and of contact messages: what the two threads of         *)
(* rx90_rviz_control do to the flag that blocks the arm, how close what is *)
(* published is to the plan, where the arm goes after Gazebo, and how the  *)
(* simulated gripper follows the real one.                                 *)
(***************************************************************************)
EXTENDS RxTeleop, SequenceTheorems, TLAPS

(* The variables the two threads of gazebo() share have their types. *)
SharedTypes ==
  /\ mandar_accion \in BOOLEAN /\ contador_contactos \in Nat
  /\ tmp \in Nat /\ quiet \in Nat /\ touched \in BOOLEAN
  /\ callback \in {"idle", "reset", "count", "test"}
  /\ next \in {"menu", "leave", "done"}

(* A blocked arm: the counter, or what the callback is about to write into *)
(* it, has not passed ten.                                                 *)
Blocked ==
  \/ callback = "reset"
  \/ callback = "idle" /\ contador_contactos < 10
  \/ callback = "count" /\ contador_contactos < 10 /\ tmp <= 10
  \/ callback = "test" /\ tmp <= 10 /\ contador_contactos \in {0, tmp}

(* After a contact in this call the counter counts no more than the        *)
(* messages without one, so the flag is set again after ten of them only.  *)
Gate ==
  touched =>
    /\ Rviz
    /\ callback # "reset" => contador_contactos <= quiet
    /\ callback \in {"count", "test"} => tmp <= quiet
    /\ mandar_accion /\ pc \in {"joints", "check", "wait"} => quiet >= 10

(* The inductive invariant of the two threads. *)
ContactInv ==
  /\ SharedTypes
  /\ ~mandar_accion => Blocked
  /\ Gate

(* No contact has been seen in the initial state. *)
LEMMA ContactInit == Init => ContactInv
<1>. SUFFICES ASSUME Init PROVE ContactInv
  OBVIOUS
<1>1. ~touched /\ mandar_accion
  BY DEF Init
<1>2. SharedTypes
  BY DEF Init, SharedTypes
<1>. QED  BY <1>1, <1>2 DEF ContactInv, Gate

(* Main's thread leaves the flag and the counter alone but for setting the *)
(* one and clearing the other when a call of gazebo() ends, where the gate *)
(* has been passed or refused already.                                     *)
LEMMA ContactMain ==
  ASSUME ContactInv, MainThread
  PROVE  ContactInv'
<1>. USE DEF ContactInv, SharedTypes, Blocked, Gate, Rviz, contactVars, keyVars
<1>1. CASE SendCommand
  BY <1>1 DEF SendCommand
<1>2. CASE CallService
  BY <1>2 DEF CallService
<1>3. CASE Returned
  BY <1>3 DEF Returned
<1>4. CASE PressKey
  <2>1. Rviz => pc' # "joints" /\ pc' # "check" /\ pc' # "wait"
    BY <1>4 DEF PressKey, Run, Go
  <2>2. next' \in {"menu", "leave", "done"}
    BY <1>4 DEF PressKey, Run, Go
  <2>. QED  BY <1>4, <2>1, <2>2 DEF PressKey
<1>5. CASE ChooseMode
  BY <1>5 DEF ChooseMode, Go, Subscribe
<1>6. CASE Plan
  BY <1>6 DEF Plan, Go, Subscribe
<1>7. CASE TypeJoints
  BY <1>7 DEF TypeJoints, Run, Go
<1>8. CASE Publish
  BY <1>8 DEF Publish, Go
<1>9. CASE CheckContacts
  BY <1>9 DEF CheckContacts, Go
<1>10. CASE Answer
  BY <1>10 DEF Answer, Run, Go
<1>11. CASE Refuse
  BY <1>11 DEF Refuse, Go
<1>12. CASE Leave
  BY <1>12 DEF Leave, Go
<1>. QED
  BY <1>1, <1>2, <1>3, <1>4, <1>5, <1>6, <1>7, <1>8, <1>9, <1>10, <1>11, <1>12
     DEF MainThread

(* The callback's thread, one access to the shared variables at a time. *)
LEMMA ContactCallback ==
  ASSUME ContactInv, CallbackThread
  PROVE  ContactInv'
<1>. USE DEF ContactInv, SharedTypes, Blocked, Gate, Rviz, keyVars, mainVars
<1>1. CASE Contact
  BY <1>1 DEF CallbackThread, Contact, Subscribed
<1>2. CASE Reset
  BY <1>2 DEF CallbackThread, Reset
<1>3. CASE NoContact
  BY <1>3 DEF CallbackThread, NoContact
<1>4. CASE Count
  BY <1>4 DEF CallbackThread, Count
<1>5. CASE Test
  <2>1. PICK c \in {tmp, contador_contactos} :
          mandar_accion' = (mandar_accion \/ c = 10)
    BY <1>5 DEF Test
  <2>2. callback = "test" /\ callback' = "idle"
        /\ UNCHANGED <<contador_contactos, tmp, quiet, touched, pc, next, program>>
    BY <1>5 DEF CallbackThread, Test
  <2>3. SharedTypes'
    BY <2>1, <2>2
  <2>4. (~mandar_accion => Blocked)'
    <3>1. SUFFICES ASSUME ~mandar_accion' PROVE contador_contactos < 10
      BY <2>2
    <3>2. ~mandar_accion /\ c # 10
      BY <2>1, <3>1
    <3>. QED  BY <2>2, <3>2
  <2>5. Gate'
    <3>1. CASE c = 10
      BY <2>2, <3>1
    <3>2. CASE c # 10
      <4>1. mandar_accion' = mandar_accion
        BY <2>1, <3>2
      <4>. QED  BY <2>2, <4>1
    <3>. QED  BY <3>1, <3>2
  <2>. QED  BY <2>3, <2>4, <2>5
<1>. QED
  BY <1>1, <1>2, <1>3, <1>4, <1>5 DEF CallbackThread

(* The invariant holds whatever the two threads do. *)
LEMMA ContactStep == ContactInv /\ [Next]_vars => ContactInv'
<1>1. ContactInv /\ UNCHANGED vars => ContactInv'
  BY DEF vars, keyVars, mainVars, contactVars, ContactInv, SharedTypes,
         Blocked, Gate, Rviz
<1>. QED
  BY <1>1, ContactMain, ContactCallback DEF Next

(* A contact never blocks the arm for good: the counter cannot pass ten    *)
(* without the callback's test meeting it there, however main()'s resets   *)
(* fall between the callback's accesses.                                   *)
THEOREM BlockLifts == Spec => []BlockCanLift
<1>1. ContactInv => BlockCanLift
  BY DEF ContactInv, SharedTypes, Blocked, BlockCanLift
<1>. QED  BY <1>1, ContactInit, ContactStep, PTL DEF Spec

(* The gate is passed only without a contact in this call of gazebo(), or  *)
(* ten messages after the last.                                            *)
THEOREM GateIsSound == Spec => GateSound
<1>1. ContactInv /\ [Next]_vars
      => [pc = "wait" /\ pc' = "ask" => ~touched \/ quiet >= 10]_vars
  <2>. SUFFICES ASSUME ContactInv, [Next]_vars, pc = "wait", pc' = "ask"
                PROVE  ~touched \/ quiet >= 10
    OBVIOUS
  <2>1. mandar_accion
    BY DEF Next, MainThread, CallbackThread, vars, mainVars, SendCommand,
           CallService, Returned, PressKey, ChooseMode, Plan, TypeJoints,
           Publish, CheckContacts, Answer, Refuse, Leave, Go
  <2>. QED  BY <2>1 DEF ContactInv, Gate
<1>. QED  BY <1>1, ContactInit, ContactStep, PTL DEF Spec, GateSound

-----------------------------------------------------------------------------
(* Back to the arm's coordinates, truncated, and forth again: less than a  *)
(* degree is lost of any joint.                                            *)
LEMMA TruncatedPlan ==
  ASSUME NEW p \in Joints, NEW i \in 1 .. 6
  PROVE  ToGazebo(Truncate(ToReal(p)))[i] - p[i] \in -9 .. 9
<1>1. \A n \in Int : /\ (n \div 10) * 10 \in Int
                     /\ n - (n \div 10) * 10 \in 0 .. 9
  BY Z3
<1>. DEFINE r == ToReal(p)
            t == Truncate(r)
<1>2. r \in Joints
  BY DEF ToReal, Joints
<1>3. t \in Joints /\ r[i] - t[i] \in 0 .. 9
  BY <1>1, <1>2 DEF Truncate, Joints
<1>. HIDE DEF t
<1>4. CASE i = 1
  <2>1. r[1] = -p[1] /\ ToGazebo(t)[1] = -t[1] /\ p[1] \in Int /\ t[1] \in Int
    BY <1>3 DEF ToReal, ToGazebo, Joints
  <2>. QED  BY <1>3, <1>4, <2>1 DEF t
<1>5. CASE i = 2
  <2>1. r[2] = p[2] - 900 /\ ToGazebo(t)[2] = t[2] + 900 /\ p[2] \in Int
        /\ t[2] \in Int
    BY <1>3 DEF ToReal, ToGazebo, Joints
  <2>. QED  BY <1>3, <1>5, <2>1 DEF t
<1>6. CASE i = 3
  <2>1. r[3] = p[3] + 900 /\ ToGazebo(t)[3] = t[3] - 900 /\ p[3] \in Int
        /\ t[3] \in Int
    BY <1>3 DEF ToReal, ToGazebo, Joints
  <2>. QED  BY <1>3, <1>6, <2>1 DEF t
<1>7. CASE i \in 4 .. 6
  <2>1. r[i] = p[i] /\ ToGazebo(t)[i] = t[i] /\ p[i] \in Int /\ t[i] \in Int
    BY <1>3, <1>7 DEF ToReal, ToGazebo, Joints
  <2>. QED  BY <1>3, <1>7, <2>1 DEF t
<1>. QED  BY <1>4, <1>5, <1>6, <1>7

(* Before it is published, a plan is in the arm's coordinates. *)
PlanInv ==
  /\ planned \in Joints \cup {<< >>}
  /\ pc \in {"mode", "pose"} => Rviz
  /\ pc = "check" /\ planned # << >> => Rviz /\ joints = ToReal(planned)
  /\ next \in {"menu", "leave", "done"}

(* From Gazebo's coordinates to the arm's and back. *)
LEMMA RoundTrip == ASSUME NEW j \in Joints PROVE ToGazebo(j) \in Joints
BY DEF ToGazebo, Joints

(* Nothing is planned in the initial state. *)
LEMMA PlanInit == Init => PlanInv
BY DEF Init, PlanInv

(* Every step keeps a plan and the joints that are to be published together. *)
LEMMA PlanStep == PlanInv /\ [Next]_vars => PlanInv'
<1>. SUFFICES ASSUME PlanInv, [Next]_vars PROVE PlanInv'
  OBVIOUS
<1>. USE DEF PlanInv, Rviz, planVars, keyVars
<1>1. CASE SendCommand
  BY <1>1 DEF SendCommand
<1>2. CASE CallService
  BY <1>2 DEF CallService
<1>3. CASE Returned
  BY <1>3 DEF Returned
<1>4. CASE PressKey
  BY <1>4 DEF PressKey, Run, Go
<1>5. CASE ChooseMode
  BY <1>5 DEF ChooseMode, Go
<1>6. CASE Plan
  <2>1. CASE pc' = "menu" /\ planned' = planned /\ next' = next
    BY <1>6, <2>1 DEF Plan
  <2>2. CASE \E j \in Typed : /\ planned' = ToGazebo(j) /\ joints' = ToReal(planned')
                              /\ pc' = "check" /\ next' = next
    BY <1>6, <2>2, RoundTrip, TypedAssumption DEF Plan
  <2>. QED  BY <1>6, <2>1, <2>2 DEF Plan, Go
<1>7. CASE TypeJoints
  BY <1>7 DEF TypeJoints, Run, Go
<1>8. CASE Publish
  BY <1>8 DEF Publish, Go
<1>9. CASE CheckContacts
  BY <1>9 DEF CheckContacts, Go
<1>10. CASE Answer
  BY <1>10 DEF Answer, Run, Go
<1>11. CASE Refuse
  BY <1>11 DEF Refuse, Go
<1>12. CASE Leave
  BY <1>12 DEF Leave, Go
<1>13. CASE CallbackThread \/ UNCHANGED vars
  BY <1>13 DEF CallbackThread, mainVars, vars
<1>. QED
  BY <1>1, <1>2, <1>3, <1>4, <1>5, <1>6, <1>7, <1>8, <1>9, <1>10, <1>11, <1>12,
     <1>13 DEF Next, MainThread

(* What Gazebo is sent for a plan of MoveIt is within a degree of the plan, *)
(* in every joint and for any plan.                                        *)
THEOREM PlanSimulated == Spec => SimulatesPlan
<1>1. PlanInv /\ [Next]_vars
      => [target' # target /\ planned # << >> =>
            \A i \in 1 .. 6 : target'[i] - planned[i] \in -9 .. 9]_vars
  <2>. SUFFICES ASSUME PlanInv, [Next]_vars, target' # target,
                       planned # << >>, NEW i \in 1 .. 6
                PROVE  target'[i] - planned[i] \in -9 .. 9
    OBVIOUS
  <2>1. Publish
    BY DEF Next, MainThread, CallbackThread, vars, planVars, SendCommand,
           CallService, Returned, PressKey, ChooseMode, Plan, TypeJoints,
           CheckContacts, Answer, Refuse, Leave
  <2>2. target' = ToGazebo(Truncate(ToReal(planned))) /\ planned \in Joints
    BY <2>1 DEF Publish, PlanInv
  <2>. QED  BY <2>2, TruncatedPlan
<1>. QED  BY <1>1, PlanInit, PlanStep, PTL DEF Spec, SimulatesPlan

-----------------------------------------------------------------------------
(* What is left of move_position after some of its commands. *)
Command(name) == [to |-> "arm", what |-> name]
Left0 == <<Command("SET #POSE"), Command("SPEED"), Command("ABOVE"),
           Command("MOVE #POSE")>>
Left1 == <<Command("SPEED"), Command("ABOVE"), Command("MOVE #POSE")>>
Left2 == <<Command("ABOVE"), Command("MOVE #POSE")>>
Left3 == <<Command("MOVE #POSE")>>

(* The controller is a record, whatever it holds. *)
IsArm(a) == a = [origin |-> a.origin, pose |-> a.pose, P |-> a.P,
                 at |-> a.at, gripper |-> a.gripper]

(* Gazebo was told to go where the joints are, and the arm can go there. *)
Simulated == /\ joints \in Joints /\ target = ToGazebo(joints)
             /\ Rviz => Permitted(joints)

(* With a simulation, the joints have been simulated when a position is    *)
(* about to be sent, and the arm's #POSE is that position before it moves. *)
PoseInv ==
  /\ joints \in Joints
  /\ IsArm(arm)
  /\ next \in {"menu", "leave", "done"}
  /\ program # "No_modbus" =>
       /\ pc \in {"wait", "ask"} => Simulated
       /\ key = "p" /\ pc = "script" =>
            /\ Simulated
            /\ todo \in {Left0, Left1, Left2, Left3, << >>}
            /\ todo # Left0 /\ serialOpen => arm.pose = AtJoints(joints)

(* The first of a list, and the rest of it. *)
LEMMA ListOfFour ==
  \A a, b, c, d : Head(<<a, b, c, d>>) = a /\ Tail(<<a, b, c, d>>) = <<b, c, d>>
OBVIOUS

(* The same of shorter lists. *)
LEMMA ShortLists ==
  /\ \A a, b, c : Head(<<a, b, c>>) = a /\ Tail(<<a, b, c>>) = <<b, c>>
  /\ \A a, b : Head(<<a, b>>) = a /\ Tail(<<a, b>>) = <<b>>
  /\ \A a : Head(<<a>>) = a /\ Tail(<<a>>) = << >>
<1>2. \A a, b, c : Head(<<a, b, c>>) = a /\ Tail(<<a, b, c>>) = <<b, c>>
  OBVIOUS
<1>3. \A a, b : Head(<<a, b>>) = a /\ Tail(<<a, b>>) = <<b>>
  OBVIOUS
<1>4. \A a : Head(<<a>>) = a /\ Tail(<<a>>) = << >>
  OBVIOUS
<1>. QED  BY <1>2, <1>3, <1>4

(* move_position sends its commands from the first to the last. *)
LEMMA LeftSteps ==
  /\ MovePosition = Left0
  /\ Head(Left0) = Command("SET #POSE") /\ Tail(Left0) = Left1
  /\ Head(Left1) = Command("SPEED") /\ Tail(Left1) = Left2
  /\ Head(Left2) = Command("ABOVE") /\ Tail(Left2) = Left3
  /\ Head(Left3) = Command("MOVE #POSE") /\ Tail(Left3) = << >>
<1>1. MovePosition = Left0
  <2>1. \A a, b, c, d : Commands(<<a, b, c, d>>)
          = <<Command(a), Command(b), Command(c), Command(d)>>
    BY DEF Commands, Command
  <2>. QED  BY <2>1, Zenon DEF MovePosition, Left0
<1>2. Head(Left0) = Command("SET #POSE") /\ Tail(Left0) = Left1
  BY ListOfFour, Zenon DEF Left0, Left1
<1>3. Head(Left1) = Command("SPEED") /\ Tail(Left1) = Left2
  BY ShortLists, Zenon DEF Left1, Left2
<1>4. Head(Left2) = Command("ABOVE") /\ Tail(Left2) = Left3
  BY ShortLists, Zenon DEF Left2, Left3
<1>5. Head(Left3) = Command("MOVE #POSE") /\ Tail(Left3) = << >>
  BY ShortLists, Zenon DEF Left3
<1>. QED  BY <1>1, <1>2, <1>3, <1>4, <1>5

(* The whole of the list is none of its rests. *)
LEMMA LeftDiffer ==
  Left1 # Left0 /\ Left2 # Left0 /\ Left3 # Left0 /\ << >> # Left0
<1>1. Len(Left0) = 4
  BY DEF Left0
<1>2. Len(Left1) = 3
  BY DEF Left1
<1>3. Len(Left2) = 2
  BY DEF Left2
<1>4. Len(Left3) = 1
  BY DEF Left3
<1>5. Len(<< >>) = 0
  OBVIOUS
<1>. QED  BY <1>1, <1>2, <1>3, <1>4, <1>5, Z3

(* Whatever it is sent, the controller stays one. *)
LEMMA ObeyIsArm ==
  ASSUME NEW a, IsArm(a), NEW command PROVE IsArm(Obey(a, command))
<1>1. \A v : IsArm([a EXCEPT !.origin = v]) /\ IsArm([a EXCEPT !.pose = v])
  BY DEF IsArm
<1>2. \A v : IsArm([a EXCEPT !.P = v]) /\ IsArm([a EXCEPT !.at = v])
  BY DEF IsArm
<1>3. \A v : IsArm([a EXCEPT !.gripper = v])
  BY DEF IsArm
<1>. QED  BY <1>1, <1>2, <1>3, Zenon DEF Obey

(* The conversions of gazebo() and of rviz() are inverse to each other. *)
LEMMA ThereAndBack == ASSUME NEW j \in Joints PROVE ToReal(ToGazebo(j)) = j
<1>. DEFINE g == ToGazebo(j)
            r == ToReal(g)
<1>1. g \in Joints /\ r \in Joints
  BY DEF Joints, ToGazebo, ToReal
<1>2. ASSUME NEW i \in 1 .. 6 PROVE r[i] = j[i]
  BY DEF Joints, ToGazebo, ToReal
<1>. QED  BY <1>1, <1>2 DEF Joints

(* The program only opens in the initial state. *)
LEMMA PoseInit == Init => PoseInv
<1>. SUFFICES ASSUME Init PROVE PoseInv
  OBVIOUS
<1>1. IsArm(arm)
  BY DEF Init, IsArm
<1>2. joints \in Joints
  BY DEF Init, Joints, Origin
<1>. QED  BY <1>1, <1>2 DEF Init, PoseInv

(* One command of move_position. *)
LEMMA PoseCommand ==
  ASSUME PoseInv, SendCommand, program # "No_modbus", key = "p"
  PROVE  /\ todo' \in {Left1, Left2, Left3, << >>}
         /\ serialOpen => arm'.pose = AtJoints(joints)
         /\ arm'.at # arm.at => arm'.at = AtJoints(joints)
<1>. DEFINE c == Head(todo).what
<1>1. /\ todo \in {Left0, Left1, Left2, Left3} /\ todo' = Tail(todo)
      /\ todo # Left0 /\ serialOpen => arm.pose = AtJoints(joints)
      /\ arm' = IF serialOpen THEN Obey(arm, c) ELSE arm
      /\ IsArm(arm)
  BY DEF PoseInv, SendCommand
<1>. HIDE DEF c
<1>2. Command("SET #POSE").what = "SET #POSE" /\ Command("SPEED").what = "SPEED"
      /\ Command("ABOVE").what = "ABOVE"
      /\ Command("MOVE #POSE").what = "MOVE #POSE"
  BY DEF Command
<1>3. CASE todo = Left0
  <2>1. c = "SET #POSE" /\ todo' = Left1
    BY <1>1, <1>2, <1>3, LeftSteps, Zenon DEF c
  <2>2. Obey(arm, c) = [arm EXCEPT !.pose = AtJoints(joints)]
    BY <2>1 DEF Obey
  <2>3. Obey(arm, c).pose = AtJoints(joints) /\ Obey(arm, c).at = arm.at
    BY <1>1, <2>2 DEF IsArm
  <2>. QED  BY <1>1, <2>1, <2>3
<1>4. CASE todo = Left1
  <2>1. c = "SPEED" /\ todo' = Left2
    BY <1>1, <1>2, <1>4, LeftSteps, Zenon DEF c
  <2>2. Obey(arm, c) = arm
    BY <2>1 DEF Obey
  <2>. QED  BY <1>1, <2>1, <2>2, LeftDiffer, <1>4
<1>5. CASE todo = Left2
  <2>1. c = "ABOVE" /\ todo' = Left3
    BY <1>1, <1>2, <1>5, LeftSteps, Zenon DEF c
  <2>2. Obey(arm, c) = arm
    BY <2>1 DEF Obey
  <2>. QED  BY <1>1, <2>1, <2>2, LeftDiffer, <1>5
<1>6. CASE todo = Left3
  <2>1. c = "MOVE #POSE" /\ todo' = << >>
    BY <1>1, <1>2, <1>6, LeftSteps, Zenon DEF c
  <2>2. Obey(arm, c) = [arm EXCEPT !.at = arm.pose]
    BY <2>1 DEF Obey
  <2>3. Obey(arm, c).pose = arm.pose /\ Obey(arm, c).at = arm.pose
    BY <1>1, <2>2 DEF IsArm
  <2>. QED  BY <1>1, <2>1, <2>3, LeftDiffer, <1>6
<1>. QED  BY <1>1, <1>3, <1>4, <1>5, <1>6

(* What is truncated, or converted, is a vector of joints. *)
LEMMA JointsKept ==
  ASSUME NEW j \in Joints
  PROVE  Truncate(j) \in Joints /\ ToReal(j) \in Joints /\ ToGazebo(j) \in Joints
<1>1. Truncate(j) \in Joints
  <2>1. \A n \in Int : (n \div 10) * 10 \in Int
    BY Z3
  <2>. QED  BY <2>1 DEF Truncate, Joints
<1>2. ToReal(j) \in Joints /\ ToGazebo(j) \in Joints
  BY DEF ToReal, ToGazebo, Joints
<1>. QED  BY <1>1, <1>2

(* Every step keeps the joints simulated between the publication and the   *)
(* end of the move.                                                        *)
LEMMA PoseStep == PoseInv /\ [Next]_vars => PoseInv'
<1>. SUFFICES ASSUME PoseInv, [Next]_vars PROVE PoseInv'
  OBVIOUS
<1>. USE DEF PoseInv
<1>1. CASE SendCommand
  <2>1. IsArm(arm')
    BY <1>1, ObeyIsArm DEF SendCommand
  <2>2. UNCHANGED <<pc, next, key, program, joints, target, serialOpen>>
    BY <1>1 DEF SendCommand, keyVars, planVars
  <2>3. Simulated => Simulated'
    BY <2>2 DEF Simulated, Rviz
  <2>4. CASE key = "p" /\ program # "No_modbus"
    <3>1. todo' \in {Left1, Left2, Left3, << >>}
          /\ (serialOpen => arm'.pose = AtJoints(joints))
      BY <1>1, <2>4, PoseCommand
    <3>. QED  BY <1>1, <2>1, <2>2, <2>3, <2>4, <3>1 DEF SendCommand
  <2>5. CASE ~(key = "p" /\ program # "No_modbus")
    BY <1>1, <2>1, <2>2, <2>3, <2>5 DEF SendCommand
  <2>. QED  BY <2>4, <2>5
<1>2. CASE CallService
  <2>1. ~(key = "p" /\ program # "No_modbus")
    <3>1. \A name : Command(name).to = "arm"
      BY DEF Command
    <3>2. /\ Head(Left0).to = "arm" /\ Head(Left1).to = "arm"
          /\ Head(Left2).to = "arm" /\ Head(Left3).to = "arm"
      BY <3>1, LeftSteps, Zenon
    <3>. QED  BY <1>2, <3>2, Zenon DEF CallService
  <2>. QED  BY <1>2, <2>1 DEF CallService, keyVars, planVars, armVars
<1>3. CASE Returned
  BY <1>3 DEF Returned, keyVars, planVars, armVars
<1>4. CASE PressKey
  <2>1. UNCHANGED <<program, joints, arm>> /\ pc' \notin {"wait", "ask"}
        /\ next' \in {"menu", "leave", "done"}
        /\ ~(key' = "p" /\ pc' = "script")
    BY <1>4 DEF PressKey, planVars, armVars, Run, Go
  <2>. QED  BY <2>1
<1>5. CASE ChooseMode
  BY <1>5 DEF ChooseMode, Go, keyVars, planVars, armVars
<1>6. CASE Plan
  <2>1. joints' \in Joints
    BY <1>6, TypedAssumption, JointsKept DEF Plan
  <2>. QED  BY <1>6, <2>1 DEF Plan, Go, keyVars, armVars
<1>7. CASE TypeJoints
  <2>1. joints' \in Joints
    BY <1>7, TypedAssumption DEF TypeJoints, Reads
  <2>. QED  BY <1>7, <2>1 DEF TypeJoints, Run, Go, keyVars, armVars
<1>8. CASE Publish
  <2>1. joints' \in Joints
    BY <1>8, JointsKept DEF Publish
  <2>2. pc' \in {"wait", "ask"} => Simulated'
    BY <1>8, <2>1 DEF Publish, Go, Simulated, Rviz, keyVars
  <2>. QED  BY <1>8, <2>1, <2>2 DEF Publish, Go, keyVars, armVars
<1>9. CASE CheckContacts
  BY <1>9 DEF CheckContacts, Go, keyVars, planVars, armVars, Simulated, Rviz
<1>10. CASE Answer
  <2>1. Simulated => Simulated'
    BY <1>10 DEF Answer, keyVars, planVars, Simulated, Rviz
  <2>2. pc' = "script" => todo' = Left0
    BY <1>10, LeftSteps DEF Answer, Run, Go
  <2>. QED  BY <1>10, <2>1, <2>2 DEF Answer, Run, Go, keyVars, planVars, armVars
<1>11. CASE Refuse
  BY <1>11 DEF Refuse, Go, keyVars, planVars, armVars
<1>12. CASE Leave
  BY <1>12 DEF Leave, Go, keyVars, planVars, armVars
<1>13. CASE CallbackThread \/ UNCHANGED vars
  BY <1>13 DEF CallbackThread, vars, mainVars, keyVars, planVars, armVars,
               Simulated, Rviz
<1>. QED
  BY <1>1, <1>2, <1>3, <1>4, <1>5, <1>6, <1>7, <1>8, <1>9, <1>10, <1>11, <1>12,
     <1>13 DEF Next, MainThread

(* The arm goes to no position Gazebo has not been sent to first, nor,     *)
(* under rx90_rviz_control, to one beyond the limits of a joint.           *)
THEOREM OnlySimulated == Spec => OnlySimulatedPoses
<1>1. PoseInv /\ [Next]_vars
      => [arm.at' # arm.at /\ key = "p" /\ program # "No_modbus" =>
            /\ target # << >> /\ arm.at' = AtJoints(ToReal(target))
            /\ Rviz => Permitted(Base')]_vars
  <2>. SUFFICES ASSUME PoseInv, [Next]_vars, arm.at' # arm.at, key = "p",
                       program # "No_modbus"
                PROVE  /\ target # << >> /\ arm.at' = AtJoints(ToReal(target))
                       /\ Rviz => Permitted(Base')
    OBVIOUS
  <2>1. SendCommand
    BY DEF Next, MainThread, CallbackThread, vars, armVars, CallService,
           Returned, PressKey, ChooseMode, Plan, TypeJoints, Publish,
           CheckContacts, Answer, Refuse, Leave
  <2>2. arm.at' = AtJoints(joints)
    BY <2>1, PoseCommand
  <2>3. joints \in Joints /\ target = ToGazebo(joints)
        /\ (Rviz => Permitted(joints))
    BY <2>1 DEF SendCommand, PoseInv, Simulated
  <2>4. ToReal(target) = joints /\ target \in Joints
    <3>1. ToReal(ToGazebo(joints)) = joints
      BY <2>3, ThereAndBack
    <3>2. ToGazebo(joints) \in Joints
      BY <2>3, JointsKept
    <3>. QED  BY <2>3, <3>1, <3>2
  <2>5. target # << >>
    <3>1. target \in [1 .. 6 -> Int]
      BY <2>4 DEF Joints
    <3>2. 1 \in DOMAIN target
      BY <3>1
    <3>3. 1 \notin DOMAIN << >>
      OBVIOUS
    <3>. QED  BY <3>2, <3>3, Zenon
  <2>6. Base' = joints
    BY <2>2 DEF Base, AtJoints
  <2>. QED  BY <2>2, <2>3, <2>4, <2>5, <2>6
<1>. QED  BY <1>1, PoseInit, PoseStep, PTL DEF Spec, OnlySimulatedPoses

-----------------------------------------------------------------------------
(* The scripts: what main()'s thread may be told to do, and what is among  *)
(* the elements of each.                                                   *)
Elements(s) == {s[i] : i \in 1 .. Len(s)}

LEMMA ElementsOfConcat ==
  ASSUME NEW S, NEW s \in Seq(S), NEW t \in Seq(S)
  PROVE  s \o t \in Seq(S) /\ Elements(s \o t) = Elements(s) \cup Elements(t)
<1>1. s \o t \in Seq(S)
  OBVIOUS
<1>2. PICK m \in Nat, n \in Nat : m = Len(s) /\ n = Len(t)
  OBVIOUS
<1>3. /\ Len(s \o t) = m + n
      /\ \A i \in 1 .. m : (s \o t)[i] = s[i]
      /\ \A i \in 1 .. n : (s \o t)[m + i] = t[i]
  BY <1>2
<1>4. ASSUME NEW i \in 1 .. m + n PROVE i \in 1 .. m \/ \E j \in 1 .. n : i = m + j
  <2>1. i \in 1 .. m \/ (i - m \in 1 .. n /\ i = m + (i - m))
    OBVIOUS
  <2>. QED  BY <2>1
<1>5. \A i \in 1 .. m : i \in 1 .. m + n
  OBVIOUS
<1>6. \A i \in 1 .. n : m + i \in 1 .. m + n
  OBVIOUS
<1>7. Elements(s \o t) \subseteq Elements(s) \cup Elements(t)
  <2>1. ASSUME NEW i \in 1 .. m + n
        PROVE  (s \o t)[i] \in Elements(s) \cup Elements(t)
    <3>1. CASE i \in 1 .. m
      BY <1>2, <1>3, <3>1, Zenon DEF Elements
    <3>2. CASE \E j \in 1 .. n : i = m + j
      BY <1>2, <1>3, <3>2, Zenon DEF Elements
    <3>. QED  BY <1>4, <3>1, <3>2
  <2>. QED  BY <1>3, <2>1, Zenon DEF Elements
<1>8. Elements(s) \cup Elements(t) \subseteq Elements(s \o t)
  <2>1. ASSUME NEW i \in 1 .. m PROVE s[i] \in Elements(s \o t)
    <3>1. s[i] = (s \o t)[i] /\ i \in 1 .. m + n
      BY <1>3, <1>5, Zenon
    <3>. QED  BY <1>3, <3>1, Zenon DEF Elements
  <2>2. ASSUME NEW i \in 1 .. n PROVE t[i] \in Elements(s \o t)
    <3>1. t[i] = (s \o t)[m + i] /\ m + i \in 1 .. m + n
      BY <1>3, <1>6, Zenon
    <3>. QED  BY <1>3, <3>1, Zenon DEF Elements
  <2>. QED  BY <1>2, <2>1, <2>2, Zenon DEF Elements
<1>. QED  BY <1>1, <1>7, <1>8

LEMMA ElementsOfTail ==
  ASSUME NEW S, NEW s \in Seq(S), s # << >>
  PROVE  /\ Head(s) \in S /\ Tail(s) \in Seq(S)
         /\ Elements(s) = {Head(s)} \cup Elements(Tail(s))
<1>1. Head(s) \in S /\ Tail(s) \in Seq(S)
  OBVIOUS
<1>2. Elements(s) = {Head(s)} \cup Elements(Tail(s))
  BY DEF Elements
<1>. QED  BY <1>1, <1>2

LEMMA FunctionIsSequence ==
  ASSUME NEW S, NEW n \in Nat, NEW f \in [1 .. n -> S]
  PROVE  f \in Seq(S) /\ Len(f) = n
OBVIOUS

LEMMA OneStep == ASSUME NEW S, NEW x \in S PROVE <<x>> \in Seq(S)
OBVIOUS

LEMMA FewElements ==
  /\ Elements(<< >>) = {}
  /\ \A x : /\ Elements(<<x>>) = {x} /\ <<x>> \in Seq({x})
            /\ {Command(name) : name \in {x}} = {Command(x)}
<1>1. Elements(<< >>) = {}
  BY DEF Elements
<1>2. ASSUME NEW x PROVE Elements(<<x>>) = {x} /\ <<x>> \in Seq({x})
  BY DEF Elements
<1>3. ASSUME NEW x PROVE {Command(name) : name \in {x}} = {Command(x)}
  OBVIOUS
<1>. QED  BY <1>1, <1>2, <1>3

(* Commands turns names into commands. *)
LEMMA CommandsType ==
  ASSUME NEW names \in Seq(Names)
  PROVE  /\ Commands(names) \in Seq(Steps)
         /\ Elements(Commands(names)) = {Command(name) : name \in Elements(names)}
<1>1. PICK n \in Nat : n = Len(names) /\ DOMAIN names = 1 .. n
  OBVIOUS
<1>2. \A name \in Names : Command(name) \in Steps
  BY DEF Command, Steps
<1>3. \A i \in 1 .. n : names[i] \in Names
  BY <1>1
<1>4. Commands(names) = [i \in 1 .. n |-> Command(names[i])]
  BY <1>1, Zenon DEF Commands, Command
<1>5. Commands(names) \in Seq(Steps)
  <2>1. Commands(names) \in [1 .. n -> Steps]
    BY <1>2, <1>3, <1>4, Zenon
  <2>. QED  BY <2>1, FunctionIsSequence
<1>6. Len(Commands(names)) = n
  <2>1. Commands(names) \in [1 .. n -> Steps]
    BY <1>2, <1>3, <1>4, Zenon
  <2>. QED  BY <2>1, FunctionIsSequence
<1>7. Elements(Commands(names)) = {Command(name) : name \in Elements(names)}
  <2>1. \A i \in 1 .. n : Commands(names)[i] = Command(names[i])
    BY <1>4
  <2>. QED  BY <1>1, <1>6, <2>1, Zenon DEF Elements
<1>. QED  BY <1>5, <1>7

(* Neither a service nor a command for the gripper. *)
GripNames == {"OPENI", "CLOSEI"}
Moves == {Command(name) : name \in Names \ GripNames}

LEMMA MovesFacts ==
  /\ ShiftP \in Seq(Steps) /\ Elements(ShiftP) \subseteq Moves
  /\ MovePosition \in Seq(Steps) /\ Elements(MovePosition) \subseteq Moves
<1>. DEFINE a == "SET P"  b == "SPEED"  c == "MOVES P"
            d == "SET #POSE"  e == "ABOVE"  f == "MOVE #POSE"
            Rest == Names \ GripNames
<1>1. /\ a \in Rest /\ b \in Rest /\ c \in Rest /\ d \in Rest /\ e \in Rest
      /\ f \in Rest
  BY Zenon DEF GripNames, Names
<1>2. ShiftP = Commands(<<a, b, c>>) /\ MovePosition = Commands(<<d, b, e, f>>)
  BY Zenon DEF ShiftP, MovePosition
<1>. HIDE DEF a, b, c, d, e, f
<1>3. <<a, b, c>> \in Seq(Names) /\ <<d, b, e, f>> \in Seq(Names)
  BY <1>1
<1>4. Elements(<<a, b, c>>) \subseteq Rest /\ Elements(<<d, b, e, f>>) \subseteq Rest
  BY <1>1 DEF Elements
<1>5. \A names \in Seq(Names) : Elements(names) \subseteq Rest
        => Elements(Commands(names)) \subseteq Moves
  <2>. SUFFICES ASSUME NEW names \in Seq(Names), Elements(names) \subseteq Rest
       PROVE  Elements(Commands(names)) \subseteq Moves
    OBVIOUS
  <2>1. Elements(Commands(names)) = {Command(name) : name \in Elements(names)}
    BY CommandsType
  <2>. QED  BY <2>1, Zenon DEF Moves
<1>6. /\ Commands(<<a, b, c>>) \in Seq(Steps)
      /\ Commands(<<d, b, e, f>>) \in Seq(Steps)
  BY <1>3, CommandsType, Zenon
<1>. QED  BY <1>2, <1>3, <1>4, <1>5, <1>6, Zenon

LEMMA OpeningFacts ==
  ASSUME NEW p
  PROVE  /\ Opening(p) \in Seq(Steps)
         /\ Elements(Opening(p)) \subseteq Moves \cup {Command("OPENI")}
<1>. DEFINE a == "SET #ORIGIN"  b == "SET #POSE"  c == "SPEED"  d == "ABOVE"
            e == "MOVE #ORIGIN"  f == "HERE ORIGIN"  g == "OPENI"
            h == "ENABLE CP"
            Rest == (Names \ GripNames) \cup {"OPENI"}
            m == IF p = "rx90_rviz_control" THEN <<a, b>> ELSE <<a>>
            n == <<c, d, e, f, g, h>>
<1>1. /\ a \in Rest /\ b \in Rest /\ c \in Rest /\ d \in Rest /\ e \in Rest
      /\ f \in Rest /\ g \in Rest /\ h \in Rest
  BY Zenon DEF GripNames, Names
<1>2. Opening(p) = Commands(m \o n)
  BY Zenon DEF Opening
<1>3. Rest \subseteq Names
  BY Zenon DEF Names
<1>. HIDE DEF a, b, c, d, e, f, g, h
<1>4. m \in Seq(Names) /\ Elements(m) \subseteq Rest
  <2>1. <<a, b>> \in Seq(Names) /\ Elements(<<a, b>>) \subseteq Rest
    BY <1>1, <1>3 DEF Elements
  <2>2. <<a>> \in Seq(Names) /\ Elements(<<a>>) \subseteq Rest
    BY <1>1, <1>3 DEF Elements
  <2>. QED  BY <2>1, <2>2, Zenon
<1>5. n \in Seq(Names) /\ Elements(n) \subseteq Rest
  BY <1>1, <1>3 DEF Elements
<1>. HIDE DEF m, n
<1>6. m \o n \in Seq(Names) /\ Elements(m \o n) \subseteq Rest
  BY <1>4, <1>5, ElementsOfConcat
<1>7. /\ Opening(p) \in Seq(Steps)
      /\ Elements(Opening(p)) = {Command(name) : name \in Elements(m \o n)}
  BY <1>2, <1>6, CommandsType, Zenon
<1>8. {Command(name) : name \in Rest} \subseteq Moves \cup {Command("OPENI")}
  BY Zenon DEF Moves
<1>9. {Command(name) : name \in Elements(m \o n)} \subseteq {Command(name) : name \in Rest}
  BY <1>6, Zenon
<1>. QED  BY <1>7, <1>8, <1>9, Zenon

(* What a step of a script has to do with the grip, and which grip it is   *)
(* for.                                                                    *)
Parts == Fingers \cup {"block", "arm"}
Concerns(s, p) == s.to = p /\ (p = "arm" => s.what \in GripNames)
Says(s) == IF s.what \in {"closing", "1", "CLOSEI"} THEN "closed" ELSE "open"

(* A script that closes, or opens, every part.  *)
Grips(s, c) ==
  \A p \in Parts : /\ \E e \in Elements(s) : Concerns(e, p)
                   /\ \A e \in Elements(s) : Concerns(e, p) => Says(e) = c

LEMMA MovesDoNotGrip == \A e \in Moves, p \in Parts : ~ Concerns(e, p)
<1>. SUFFICES ASSUME NEW name \in Names \ GripNames, NEW p \in Parts
     PROVE ~ Concerns(Command(name), p)
  BY Zenon DEF Moves
<1>1. Command(name).to = "arm" /\ Command(name).what = name
  BY DEF Command
<1>. QED  BY <1>1 DEF Concerns

LEMMA CatchItFacts ==
  /\ CatchIt \o ShiftP \in Seq(Steps)
  /\ Rviz => Grips(CatchIt \o ShiftP, "closed")
<1>. DEFINE a == Service("l", "closing")  b == Service("r", "closing")
            c == Service("m", "closing")  d == Service("block", "1")
            e == Command("CLOSEI")
            s == IF Rviz THEN <<a, b, c, d>> ELSE << >>
            t == Commands(<<"CLOSEI">>)
<1>1. CatchIt = s \o t
  BY Zenon DEF CatchIt
<1>2. a \in Steps /\ b \in Steps /\ c \in Steps /\ d \in Steps
  BY DEF Service, Steps, Fingers
<1>3. /\ Concerns(a, "l") /\ Concerns(b, "r") /\ Concerns(c, "m")
      /\ Concerns(d, "block") /\ Concerns(e, "arm")
      /\ Says(a) = "closed" /\ Says(b) = "closed" /\ Says(c) = "closed"
      /\ Says(d) = "closed" /\ Says(e) = "closed"
  BY DEF Service, Command, Concerns, Says, GripNames
<1>4. t \in Seq(Steps) /\ Elements(t) = {e}
  <2>0. "CLOSEI" \in Names
    BY Zenon DEF Names
  <2>1. <<"CLOSEI">> \in Seq(Names)
    BY <2>0, OneStep
  <2>2. {Command(name) : name \in {"CLOSEI"}} = {e}
    BY FewElements, Zenon
  <2>. QED  BY <2>1, <2>2, CommandsType, FewElements, Zenon
<1>. HIDE DEF a, b, c, d, e, t
<1>5. s \in Seq(Steps) /\ (Rviz => Elements(s) = {a, b, c, d})
  <2>1. <<a, b, c, d>> \in Seq(Steps) /\ Elements(<<a, b, c, d>>) = {a, b, c, d}
    BY <1>2 DEF Elements
  <2>2. << >> \in Seq(Steps)
    OBVIOUS
  <2>. QED  BY <2>1, <2>2, Zenon
<1>. HIDE DEF s
<1>6. /\ CatchIt \in Seq(Steps)
      /\ Elements(CatchIt) = Elements(s) \cup Elements(t)
  BY <1>1, <1>4, <1>5, ElementsOfConcat
<1>7. /\ CatchIt \o ShiftP \in Seq(Steps)
      /\ Elements(CatchIt \o ShiftP) = Elements(CatchIt) \cup Elements(ShiftP)
  BY <1>6, MovesFacts, ElementsOfConcat
<1>8. ASSUME Rviz PROVE Grips(CatchIt \o ShiftP, "closed")
  <2>1. /\ {a, b, c, d, e} \subseteq Elements(CatchIt \o ShiftP)
        /\ Elements(CatchIt \o ShiftP) \subseteq {a, b, c, d, e} \cup Moves
    BY <1>4, <1>5, <1>6, <1>7, <1>8, MovesFacts, Zenon
  <2>2. ASSUME NEW p \in Parts
        PROVE  \E x \in {a, b, c, d, e} : Concerns(x, p)
    BY <1>3, <2>2, Zenon DEF Parts, Fingers
  <2>3. ASSUME NEW p \in Parts, NEW x \in {a, b, c, d, e} \cup Moves, Concerns(x, p)
        PROVE  Says(x) = "closed"
    BY <1>3, <2>3, MovesDoNotGrip, Zenon
  <2>. QED  BY <2>1, <2>2, <2>3, Zenon DEF Grips
<1>. QED  BY <1>7, <1>8

LEMMA OpenItFacts ==
  /\ OpenIt \o ShiftP \in Seq(Steps)
  /\ Grips(OpenIt \o ShiftP, "open")
<1>. DEFINE a == Service("m", "opening")  b == Service("l", "opening")
            c == Service("r", "opening")  d == Service("block", "0")
            e == Command("OPENI")
            s == <<a, b, c, d>>
            t == Commands(<<"OPENI">>)
<1>1. OpenIt = s \o t
  BY Zenon DEF OpenIt
<1>2. a \in Steps /\ b \in Steps /\ c \in Steps /\ d \in Steps
  BY DEF Service, Steps, Fingers
<1>3. /\ Concerns(a, "m") /\ Concerns(b, "l") /\ Concerns(c, "r")
      /\ Concerns(d, "block") /\ Concerns(e, "arm")
      /\ Says(a) = "open" /\ Says(b) = "open" /\ Says(c) = "open"
      /\ Says(d) = "open" /\ Says(e) = "open"
  BY DEF Service, Command, Concerns, Says, GripNames
<1>4. t \in Seq(Steps) /\ Elements(t) = {e}
  <2>0. "OPENI" \in Names
    BY Zenon DEF Names
  <2>1. <<"OPENI">> \in Seq(Names)
    BY <2>0, OneStep
  <2>2. {Command(name) : name \in {"OPENI"}} = {e}
    BY FewElements, Zenon
  <2>. QED  BY <2>1, <2>2, CommandsType, FewElements, Zenon
<1>. HIDE DEF a, b, c, d, e, t
<1>5. s \in Seq(Steps) /\ Elements(s) = {a, b, c, d}
  BY <1>2 DEF Elements
<1>. HIDE DEF s
<1>6. /\ OpenIt \in Seq(Steps)
      /\ Elements(OpenIt) = Elements(s) \cup Elements(t)
  BY <1>1, <1>4, <1>5, ElementsOfConcat
<1>7. /\ OpenIt \o ShiftP \in Seq(Steps)
      /\ Elements(OpenIt \o ShiftP) = Elements(OpenIt) \cup Elements(ShiftP)
  BY <1>6, MovesFacts, ElementsOfConcat
<1>8. Grips(OpenIt \o ShiftP, "open")
  <2>1. /\ {a, b, c, d, e} \subseteq Elements(OpenIt \o ShiftP)
        /\ Elements(OpenIt \o ShiftP) \subseteq {a, b, c, d, e} \cup Moves
    BY <1>4, <1>5, <1>6, <1>7, MovesFacts, Zenon
  <2>2. ASSUME NEW p \in Parts
        PROVE  \E x \in {a, b, c, d, e} : Concerns(x, p)
    BY <1>3, <2>2, Zenon DEF Parts, Fingers
  <2>3. ASSUME NEW p \in Parts, NEW x \in {a, b, c, d, e} \cup Moves, Concerns(x, p)
        PROVE  Says(x) = "open"
    BY <1>3, <2>3, MovesDoNotGrip, Zenon
  <2>. QED  BY <2>1, <2>2, <2>3, Zenon DEF Grips
<1>. QED  BY <1>7, <1>8

-----------------------------------------------------------------------------
(* The types.  The invariant also says that the controller and the         *)
(* simulation are records, and that only a script has steps to do.         *)
Controllers == [origin : Places, pose : Places, P : Places, at : Places,
                gripper : {"open", "closed"}]
Told == {"free", "closing", "opening"}
Simulations == [l : Told, r : Told, m : Told, block : {"0", "1"}]

TypeInv ==
  /\ TypeOK
  /\ arm \in Controllers /\ gripper \in Simulations
  /\ pc # "script" => todo = << >>

LEMMA RecordTypes ==
  /\ \A a \in Controllers : /\ \A x \in {"origin", "pose", "P", "at"} : a[x] \in Places
                            /\ a.gripper \in {"open", "closed"}
  /\ \A g \in Simulations : /\ \A f \in Fingers : g[f] \in Told
                            /\ g.block \in {"0", "1"}
<1>1. \A a \in Controllers : /\ \A x \in {"origin", "pose", "P", "at"} : a[x] \in Places
                            /\ a.gripper \in {"open", "closed"}
  BY DEF Controllers
<1>2. \A g \in Simulations : /\ \A f \in Fingers : g[f] \in Told
                            /\ g.block \in {"0", "1"}
  BY DEF Simulations, Fingers
<1>. QED  BY <1>1, <1>2

LEMMA PlaceTypes ==
  ASSUME NEW j \in Joints, NEW d \in Int \X Int
  PROVE  NoPlace \in Places /\ AtJoints(j) \in Places /\ NearPose(d) \in Places
BY DEF Places, NoPlace, AtJoints, NearPose

LEMMA ObeyType ==
  ASSUME NEW a \in Controllers, joints \in Joints, shift \in Int \X Int, NEW command
  PROVE  Obey(a, command) \in Controllers
<1>1. /\ a.origin \in Places /\ a.pose \in Places /\ a.P \in Places
      /\ a.at \in Places
  BY DEF Controllers
<1>2. AtJoints(joints) \in Places /\ NearPose(shift) \in Places
  BY PlaceTypes
<1>3. \A v \in Places : /\ [a EXCEPT !.origin = v] \in Controllers
                        /\ [a EXCEPT !.pose = v] \in Controllers
                        /\ [a EXCEPT !.P = v] \in Controllers
                        /\ [a EXCEPT !.at = v] \in Controllers
  BY DEF Controllers
<1>4. /\ [a EXCEPT !.gripper = "open"] \in Controllers
      /\ [a EXCEPT !.gripper = "closed"] \in Controllers
  BY DEF Controllers
<1>. DEFINE at == IF a.P = NoPlace THEN a.at ELSE a.P
<1>5. at \in Places
  BY <1>1
<1>6. [a EXCEPT !.at = IF a.P = NoPlace THEN @ ELSE a.P] = [a EXCEPT !.at = at]
  OBVIOUS
<1>. HIDE DEF at
<1>. QED  BY <1>1, <1>2, <1>3, <1>4, <1>5, <1>6, Zenon DEF Obey

LEMMA TeleopTypeInit == Init => TypeInv
<1>. SUFFICES ASSUME Init PROVE TypeInv
  OBVIOUS
<1>1. todo \in Seq(Steps)
  BY OpeningFacts DEF Init
<1>2. arm \in Controllers
  <2>1. NoPlace \in Places
    BY DEF Places
  <2>2. arm = [origin |-> NoPlace, pose |-> NoPlace, P |-> NoPlace,
               at |-> NoPlace, gripper |-> "open"]
    BY DEF Init
  <2>. QED  BY <2>1, <2>2 DEF Controllers
<1>3. gripper \in Simulations
  <2>1. gripper = [l |-> "free", r |-> "free", m |-> "free", block |-> "0"]
    BY DEF Init
  <2>. QED  BY <2>1 DEF Simulations, Told
<1>4. joints \in Joints
  BY DEF Init, Joints, Origin
<1>5. shift \in Int \X Int
  BY DEF Init
<1>6. /\ program \in Programs /\ pc = "script" /\ next = "menu" /\ key = "n"
      /\ keys = 0 /\ cin = "good" /\ planned = << >> /\ target = << >>
      /\ failed = FALSE /\ poseSet \in BOOLEAN /\ serialOpen \in BOOLEAN
      /\ mandar_accion = TRUE /\ contador_contactos = 0
      /\ callback = "idle" /\ tmp = 0 /\ messages = 0
      /\ touched = FALSE /\ quiet = 0
  BY DEF Init
<1>7. TypeOK
  BY <1>1, <1>2, <1>3, <1>4, <1>5, <1>6, RecordTypes DEF TypeOK, Told
<1>. QED  BY <1>2, <1>3, <1>6, <1>7 DEF TypeInv

LEMMA DeltaTypes ==
  ASSUME shift \in Int \X Int, NEW k \in DOMAIN Delta
  PROVE  <<shift[1] + Delta[k][1], shift[2] + Delta[k][2]>> \in Int \X Int
<1>1. k \in {"w", "s", "a", "d"}
  BY DEF Delta
<1>2. Delta[k] \in Int \X Int
  BY <1>1 DEF Delta
<1>. QED  BY <1>2

LEMMA ReadsType ==
  ASSUME NEW V, NEW W, NEW r \in Reads(V, W)
  PROVE  r.got \in V \cup W /\ r.cin \in {"good", "failed"}
BY DEF Reads

LEMMA TeleopTypeStep == TypeInv /\ [Next]_vars => TypeInv'
<1>. SUFFICES ASSUME TypeInv, [Next]_vars PROVE TypeInv'
  OBVIOUS
<1>. USE DEF keyVars, mainVars, planVars, gripperVars, armVars, contactVars
<1>a. TypeOK /\ arm \in Controllers /\ gripper \in Simulations
      /\ (pc # "script" => todo = << >>)
  BY DEF TypeInv
<1>1. CASE SendCommand
  <2>1. joints \in Joints /\ shift \in Int \X Int /\ todo \in Seq(Steps)
    BY <1>a DEF TypeOK
  <2>2. arm' \in Controllers
    BY <1>1, <1>a, <2>1, ObeyType, Zenon DEF SendCommand
  <2>3. todo' \in Seq(Steps)
    BY <1>1, <2>1, ElementsOfTail, Zenon DEF SendCommand
  <2>4. /\ pc = "script" /\ pc' = pc
        /\ UNCHANGED <<next, shift, keyVars, cin, planVars, gripperVars,
                       poseSet, serialOpen, contactVars>>
    BY <1>1 DEF SendCommand
  <2>5. TypeOK'
    BY <1>a, <2>2, <2>3, <2>4, RecordTypes DEF TypeOK
  <2>. QED  BY <1>a, <2>2, <2>4, <2>5 DEF TypeInv
<1>2. CASE CallService
  <2>1. todo \in Seq(Steps) /\ todo # << >>
    BY <1>2, <1>a DEF TypeOK, CallService
  <2>2. Head(todo) \in Steps /\ todo' \in Seq(Steps)
    BY <1>2, <2>1, ElementsOfTail, Zenon DEF CallService
  <2>3. gripper' \in Simulations
    <3>. DEFINE e == Head(todo)
    <3>1. e \in Steps /\ e.to # "arm"
      BY <1>2, <2>2 DEF CallService
    <3>2. gripper' = gripper \/ gripper' = [gripper EXCEPT ![e.to] = e.what]
      BY <1>2 DEF CallService
    <3>. HIDE DEF e
    <3>3. \/ e.to \in Fingers /\ e.what \in Told
          \/ e.to = "block" /\ e.what \in {"0", "1"}
      BY <3>1 DEF Steps, Told
    <3>4. \A w \in Told : /\ [gripper EXCEPT !.l = w] \in Simulations
                          /\ [gripper EXCEPT !.r = w] \in Simulations
                          /\ [gripper EXCEPT !.m = w] \in Simulations
      BY <1>a DEF Simulations
    <3>5. \A w \in {"0", "1"} : [gripper EXCEPT !.block = w] \in Simulations
      BY <1>a DEF Simulations
    <3>. QED  BY <1>a, <3>2, <3>3, <3>4, <3>5, Zenon DEF Fingers
  <2>4. /\ pc = "script" /\ pc' = pc /\ failed' \in BOOLEAN
        /\ UNCHANGED <<next, shift, keyVars, cin, planVars, armVars, contactVars>>
    BY <1>2, <1>a DEF CallService, TypeOK
  <2>5. TypeOK'
    BY <1>a, <2>2, <2>3, <2>4, RecordTypes DEF TypeOK, Told
  <2>. QED  BY <1>a, <2>3, <2>4, <2>5 DEF TypeInv
<1>3. CASE Returned
  BY <1>3, <1>a DEF Returned, TypeInv, TypeOK
<1>4. CASE PressKey
  <2>1. PICK r \in Reads(Keys, LeftKeys) :
          /\ key' = r.got /\ cin' = r.cin
          /\ shift' = IF r.got \in DOMAIN Delta
                      THEN <<shift[1] + Delta[r.got][1], shift[2] + Delta[r.got][2]>>
                      ELSE shift
          /\ CASE r.got = "p" -> Go(IF Rviz THEN "mode" ELSE "joints")
               [] r.got = "e" -> Run(CatchIt \o ShiftP, "menu")
               [] r.got = "o" -> Run(OpenIt \o ShiftP, "menu")
               [] r.got = "q" -> Run(ShiftP, "done")
               [] OTHER       -> Run(ShiftP, "menu")
          /\ failed' = (failed /\ r.got \notin {"e", "o"})
    BY <1>4 DEF PressKey
  <2>2. /\ key' \in {"w", "a", "s", "d", "e", "o", "q", "p", "n"}
        /\ cin' \in {"good", "failed"} /\ failed' \in BOOLEAN
    <3>1. r.got \in Keys \cup LeftKeys /\ r.cin \in {"good", "failed"}
      BY ReadsType
    <3>2. /\ Keys \subseteq {"w", "a", "s", "d", "e", "o", "q", "p", "n"}
          /\ LeftKeys \subseteq Keys \cup {key}
      BY DEF Keys, LeftKeys
    <3>. QED  BY <1>a, <2>1, <3>1, <3>2 DEF TypeOK
  <2>3. shift' \in Int \X Int
    <3>1. shift \in Int \X Int
      BY <1>a DEF TypeOK
    <3>. QED  BY <2>1, <3>1, DeltaTypes, Zenon
  <2>4. /\ todo' \in Seq(Steps) /\ next' \in {"menu", "leave", "done"}
        /\ pc' \in {"script", "mode", "joints"}
        /\ pc' # "script" => todo' = << >>
    <3>. DEFINE place == IF Rviz THEN "mode" ELSE "joints"
                a == CatchIt \o ShiftP
                b == OpenIt \o ShiftP
    <3>1. a \in Seq(Steps) /\ b \in Seq(Steps) /\ ShiftP \in Seq(Steps)
      BY CatchItFacts, OpenItFacts, MovesFacts, Zenon
    <3>2. place \in {"mode", "joints"}
      OBVIOUS
    <3>3. \/ Go(place) \/ Run(a, "menu") \/ Run(b, "menu") \/ Run(ShiftP, "done")
          \/ Run(ShiftP, "menu")
      BY <2>1, Zenon
    <3>4. /\ todo = << >> /\ todo \in Seq(Steps)
          /\ next \in {"menu", "leave", "done"}
      BY <1>4, <1>a DEF PressKey, TypeOK
    <3>. HIDE DEF place, a, b
    <3>. QED  BY <3>1, <3>2, <3>3, <3>4 DEF Go, Run
  <2>5. /\ keys' \in Nat
        /\ UNCHANGED <<program, planVars, gripper, armVars, contactVars>>
    BY <1>4, <1>a DEF PressKey, TypeOK
  <2>6. TypeOK'
    BY <1>a, <2>2, <2>3, <2>4, <2>5 DEF TypeOK
  <2>. QED  BY <1>a, <2>4, <2>5, <2>6 DEF TypeInv
<1>5. CASE ChooseMode
  <2>1. PICK r \in Reads({"p", "j", "x"}, {"p", "j", "x"}) :
          /\ cin' = r.cin
          /\ CASE r.got = "p" -> Go("pose") /\ UNCHANGED <<touched, messages>>
               [] r.got = "j" -> Go("joints") /\ Subscribe
               [] OTHER       -> Go("menu") /\ UNCHANGED <<touched, messages>>
    BY <1>5 DEF ChooseMode
  <2>2. cin' \in {"good", "failed"}
    BY <2>1, ReadsType
  <2>3. /\ pc' \in {"pose", "joints", "menu"} /\ UNCHANGED <<todo, next>>
        /\ (messages' = 0 /\ touched' = FALSE) \/ UNCHANGED <<touched, messages>>
    BY <2>1 DEF Go, Subscribe
  <2>5. messages' \in Nat /\ touched' \in BOOLEAN
    <3>1. messages \in Nat /\ touched \in BOOLEAN
      BY <1>a DEF TypeOK
    <3>2. CASE messages' = 0 /\ touched' = FALSE
      BY <3>2
    <3>3. CASE UNCHANGED <<touched, messages>>
      BY <3>1, <3>3, Zenon
    <3>. QED  BY <2>3, <3>2, <3>3, Zenon
  <2>4. /\ todo = << >>
        /\ UNCHANGED <<shift, keyVars, planVars, gripperVars, armVars,
                       mandar_accion, contador_contactos, callback, tmp, quiet>>
    BY <1>5, <1>a DEF ChooseMode
  <2>6. TypeOK'
    BY <1>a, <2>2, <2>3, <2>4, <2>5 DEF TypeOK
  <2>. QED  BY <1>a, <2>3, <2>4, <2>6 DEF TypeInv
<1>6. CASE Plan
  <2>1. PICK low \in BOOLEAN, r \in Reads({"y", "n"}, {"y"}) :
          /\ cin' = r.cin
          /\ IF low \/ r.got # "y"
             THEN Go("menu") /\ UNCHANGED <<joints, planned, touched, messages>>
             ELSE /\ Go("check") /\ Subscribe
                  /\ \E j \in Typed : /\ planned' = ToGazebo(j)
                                      /\ joints' = ToReal(planned')
    BY <1>6 DEF Plan
  <2>2. cin' \in {"good", "failed"}
    BY <2>1, ReadsType
  <2>3. /\ pc' \in {"menu", "check"} /\ UNCHANGED <<todo, next>>
        /\ (messages' = 0 /\ touched' = FALSE) \/ UNCHANGED <<touched, messages>>
        /\ \/ UNCHANGED <<joints, planned>>
           \/ \E j \in Typed : planned' = ToGazebo(j) /\ joints' = ToReal(planned')
    BY <2>1 DEF Go, Subscribe
  <2>4. joints' \in Joints /\ planned' \in Joints \cup {<< >>}
    BY <1>a, <2>3, TypedAssumption, JointsKept DEF TypeOK
  <2>7. messages' \in Nat /\ touched' \in BOOLEAN
    <3>1. messages \in Nat /\ touched \in BOOLEAN
      BY <1>a DEF TypeOK
    <3>2. CASE messages' = 0 /\ touched' = FALSE
      BY <3>2
    <3>3. CASE UNCHANGED <<touched, messages>>
      BY <3>1, <3>3, Zenon
    <3>. QED  BY <2>3, <3>2, <3>3, Zenon
  <2>5. /\ todo = << >>
        /\ UNCHANGED <<shift, keyVars, target, gripperVars, armVars,
                       mandar_accion, contador_contactos, callback, tmp, quiet>>
    BY <1>6, <1>a DEF Plan
  <2>6. TypeOK'
    BY <1>a, <2>2, <2>3, <2>4, <2>5, <2>7 DEF TypeOK
  <2>. QED  BY <1>a, <2>3, <2>5, <2>6 DEF TypeInv
<1>7. CASE TypeJoints
  <2>1. PICK r \in Reads(Typed, Typed) : cin' = r.cin /\ joints' = r.got
    BY <1>7 DEF TypeJoints
  <2>2. cin' \in {"good", "failed"} /\ joints' \in Joints
    BY <2>1, ReadsType, TypedAssumption
  <2>3. /\ todo = << >> /\ planned' = << >>
        /\ UNCHANGED <<shift, keyVars, target, gripperVars, armVars, contactVars>>
        /\ Run(MovePosition, "menu") \/ Go("check")
    BY <1>7, <1>a DEF TypeJoints
  <2>4. /\ todo' \in Seq(Steps) /\ next' \in {"menu", "leave", "done"}
        /\ pc' \in {"script", "check"}
        /\ pc' # "script" => todo' = << >>
    BY <1>a, <2>3, MovesFacts DEF Run, Go, TypeOK
  <2>. QED  BY <1>a, <2>2, <2>3, <2>4 DEF TypeInv, TypeOK
<1>8. CASE Publish
  <2>1. joints \in Joints
    BY <1>a DEF TypeOK
  <2>2. joints' \in Joints
    BY <1>8, <2>1, JointsKept DEF Publish
  <2>3. /\ todo = << >> /\ UNCHANGED <<todo, next>>
        /\ UNCHANGED <<shift, keyVars, cin, planned, gripperVars, armVars,
                       contactVars>>
        /\ pc' \in {"menu", "wait", "ask"}
        /\ target' \in {target, ToGazebo(joints')}
    BY <1>8, <1>a DEF Publish, Go
  <2>4. target' \in Joints \cup {<< >>}
    BY <1>a, <2>2, <2>3, JointsKept DEF TypeOK
  <2>5. TypeOK'
    BY <1>a, <2>2, <2>3, <2>4 DEF TypeOK
  <2>. QED  BY <1>a, <2>3, <2>5 DEF TypeInv
<1>9. CASE CheckContacts
  BY <1>9, <1>a DEF CheckContacts, Go, TypeInv, TypeOK
<1>10. CASE Answer
  <2>1. PICK r \in Reads({"y", "n"}, {"y"}) :
          /\ cin' = r.cin
          /\ IF r.got = "y"
             THEN Run(MovePosition, IF Rviz THEN "leave" ELSE "menu")
             ELSE Go(IF Rviz THEN "leave" ELSE "menu")
    BY <1>10 DEF Answer
  <2>2. cin' \in {"good", "failed"}
    BY <2>1, ReadsType
  <2>3. /\ todo = << >>
        /\ UNCHANGED <<shift, keyVars, planVars, gripperVars, armVars, contactVars>>
    BY <1>10, <1>a DEF Answer
  <2>4. /\ todo' \in Seq(Steps) /\ next' \in {"menu", "leave", "done"}
        /\ pc' \in {"script", "menu", "leave"}
        /\ pc' # "script" => todo' = << >>
    BY <1>a, <2>1, <2>3, MovesFacts DEF Run, Go, TypeOK
  <2>. QED  BY <1>a, <2>2, <2>3, <2>4 DEF TypeInv, TypeOK
<1>11. CASE Refuse
  BY <1>11, <1>a DEF Refuse, Go, TypeInv, TypeOK
<1>12. CASE Leave
  BY <1>12, <1>a DEF Leave, Go, TypeInv, TypeOK
<1>13. CASE CallbackThread
  <2>1. /\ mandar_accion \in BOOLEAN /\ contador_contactos \in Nat
        /\ callback \in {"idle", "reset", "count", "test"} /\ tmp \in Nat
        /\ messages \in Nat /\ touched \in BOOLEAN /\ quiet \in Nat
    BY <1>a DEF TypeOK
  <2>2. /\ mandar_accion' \in BOOLEAN /\ contador_contactos' \in Nat
        /\ callback' \in {"idle", "reset", "count", "test"} /\ tmp' \in Nat
        /\ messages' \in Nat /\ touched' \in BOOLEAN /\ quiet' \in Nat
    <3>1. CASE Contact
      <4>1. /\ messages' = messages + 1 /\ quiet' = 0
            /\ callback' = "reset"
            /\ UNCHANGED <<contador_contactos, tmp>>
        BY <3>1 DEF Contact
      <4>2. mandar_accion' \in BOOLEAN /\ touched' \in BOOLEAN
        BY <3>1 DEF Contact
      <4>. QED  BY <2>1, <4>1, <4>2
    <3>2. CASE Reset
      BY <2>1, <3>2 DEF Reset
    <3>3. CASE NoContact
      BY <2>1, <3>3 DEF NoContact
    <3>4. CASE Count
      BY <2>1, <3>4 DEF Count
    <3>5. CASE Test
      <4>1. mandar_accion' \in BOOLEAN
        <5>1. PICK c \in {tmp, contador_contactos} :
                mandar_accion' = (mandar_accion \/ c = 10)
          BY <3>5 DEF Test
        <5>. QED  BY <5>1
      <4>2. /\ callback' = "idle"
            /\ UNCHANGED <<contador_contactos, tmp, messages, touched, quiet>>
        BY <3>5 DEF Test
      <4>. QED  BY <2>1, <4>1, <4>2
    <3>. QED  BY <1>13, <3>1, <3>2, <3>3, <3>4, <3>5 DEF CallbackThread
  <2>3. UNCHANGED <<keyVars, mainVars, cin, planVars, gripperVars, armVars>>
    BY <1>13 DEF CallbackThread
  <2>. QED  BY <1>a, <2>2, <2>3 DEF TypeInv, TypeOK
<1>14. CASE UNCHANGED vars
  BY <1>14, <1>a DEF vars, TypeInv, TypeOK
<1>. QED
  BY <1>1, <1>2, <1>3, <1>4, <1>5, <1>6, <1>7, <1>8, <1>9, <1>10, <1>11, <1>12,
     <1>13, <1>14 DEF Next, MainThread

(* Every variable of the three programs keeps its type.                    *)
THEOREM TypeCorrect == Spec => []TypeOK
<1>1. TypeInv => TypeOK
  BY DEF TypeInv
<1>. QED  BY <1>1, TeleopTypeInit, TeleopTypeStep, PTL DEF Spec

-----------------------------------------------------------------------------
(* The grip, as Gazebo was told and as the arm was.  While no call of the  *)
(* last catch or open has failed there is one state of the grip that every *)
(* part has already or still comes to: nothing left of the script says     *)
(* otherwise.                                                              *)
Holds(p) ==
  IF p = "arm" THEN arm.gripper
  ELSE IF gripper[p] \in {"closing", "1"} THEN "closed" ELSE "open"

Towards(c) ==
  \A p \in Parts :
    /\ Holds(p) = c \/ \E e \in Elements(todo) : Concerns(e, p)
    /\ \A e \in Elements(todo) : Concerns(e, p) => Says(e) = c

GripInv ==
  TypeInv /\ (Rviz /\ serialOpen /\ ~failed
                => \E c \in {"closed", "open"} : Towards(c))

(* Only CLOSEI and OPENI change the gripper of the controller.             *)
LEMMA ObeyGrips ==
  ASSUME NEW a \in Controllers, NEW command \in Names
  PROVE  Obey(a, command).gripper =
           IF command \in GripNames
           THEN (IF command = "CLOSEI" THEN "closed" ELSE "open")
           ELSE a.gripper
<1>1. \A v : /\ [a EXCEPT !.origin = v].gripper = a.gripper
             /\ [a EXCEPT !.pose = v].gripper = a.gripper
             /\ [a EXCEPT !.P = v].gripper = a.gripper
             /\ [a EXCEPT !.at = v].gripper = a.gripper
             /\ [a EXCEPT !.gripper = v].gripper = v
  BY DEF Controllers
<1>2. CASE command = "OPENI"
  <2>1. Obey(a, command) = [a EXCEPT !.gripper = "open"]
    BY <1>2 DEF Obey
  <2>2. command \in GripNames /\ command # "CLOSEI"
    BY <1>2 DEF GripNames
  <2>. QED  BY <1>1, <2>1, <2>2, Zenon
<1>3. CASE command = "CLOSEI"
  <2>1. Obey(a, command) = [a EXCEPT !.gripper = "closed"]
    BY <1>3 DEF Obey
  <2>2. command \in GripNames
    BY <1>3 DEF GripNames
  <2>. QED  BY <1>1, <1>3, <2>1, <2>2, Zenon
<1>4. CASE command \notin GripNames
  <2>. DEFINE at == IF a.P = NoPlace THEN a.at ELSE a.P
  <2>1. [a EXCEPT !.at = IF a.P = NoPlace THEN @ ELSE a.P] = [a EXCEPT !.at = at]
    OBVIOUS
  <2>. HIDE DEF at
  <2>2. command # "OPENI" /\ command # "CLOSEI"
    BY <1>4 DEF GripNames
  <2>. QED  BY <1>1, <1>4, <2>1, <2>2, Zenon DEF Obey
<1>. QED  BY <1>2, <1>3, <1>4, Zenon DEF GripNames

(* A step of a script that is carried out puts the part it is for in the   *)
(* state it says, and leaves the others as they are.                       *)
LEMMA StepShows ==
  ASSUME TypeInv, NEW s \in Steps,
         \/ s.to = "arm" /\ arm' = Obey(arm, s.what) /\ gripper' = gripper
         \/ s.to # "arm" /\ arm' = arm
            /\ gripper' = [gripper EXCEPT ![s.to] = s.what]
  PROVE  \A p \in Parts : Holds(p)' = IF Concerns(s, p) THEN Says(s) ELSE Holds(p)
<1>. SUFFICES ASSUME NEW p \in Parts
     PROVE  Holds(p)' = IF Concerns(s, p) THEN Says(s) ELSE Holds(p)
  OBVIOUS
<1>a. arm \in Controllers /\ gripper \in Simulations
  BY DEF TypeInv
<1>1. CASE s.to = "arm" /\ arm' = Obey(arm, s.what) /\ gripper' = gripper
  <2>1. s.what \in Names
    BY <1>1 DEF Steps, Fingers
  <2>2. arm'.gripper = IF s.what \in GripNames
                       THEN (IF s.what = "CLOSEI" THEN "closed" ELSE "open")
                       ELSE arm.gripper
    BY <1>1, <1>a, <2>1, ObeyGrips, Zenon
  <2>3. s.what \notin {"closing", "1"}
    BY <2>1 DEF Names
  <2>4. CASE p = "arm"
    BY <1>1, <2>2, <2>3, <2>4, Zenon DEF Holds, Concerns, Says, GripNames
  <2>5. CASE p # "arm"
    BY <1>1, <2>5, Zenon DEF Holds, Concerns
  <2>. QED  BY <2>4, <2>5
<1>2. CASE s.to # "arm" /\ arm' = arm
           /\ gripper' = [gripper EXCEPT ![s.to] = s.what]
  <2>1. s.what # "CLOSEI" /\ s.to \in {"l", "r", "m", "block"}
    BY <1>2 DEF Steps, Fingers
  <2>2. DOMAIN gripper = {"l", "r", "m", "block"}
    BY <1>a DEF Simulations
  <2>3. CASE p = s.to
    <3>1. gripper'[p] = s.what /\ p # "arm"
      BY <1>2, <2>1, <2>2, <2>3, Zenon
    <3>. QED  BY <1>2, <2>1, <2>3, <3>1, Zenon DEF Holds, Concerns, Says
  <2>4. CASE p # s.to
    <3>1. p # "arm" => gripper'[p] = gripper[p]
      <4>1. p # "arm" => p \in DOMAIN gripper
        BY <2>2, Zenon DEF Parts, Fingers
      <4>. QED  BY <1>2, <2>4, <4>1, Zenon
    <3>. QED  BY <1>2, <2>4, <3>1, Zenon DEF Holds, Concerns
  <2>. QED  BY <2>3, <2>4
<1>. QED  BY <1>1, <1>2

(* A script in progress comes to the same grip as it would have.           *)
LEMMA ScriptGoesOn ==
  ASSUME TypeInv, todo # << >>, todo' = Tail(todo), NEW c, Towards(c),
         \/ Head(todo).to = "arm" /\ arm' = Obey(arm, Head(todo).what)
            /\ gripper' = gripper
         \/ Head(todo).to # "arm" /\ arm' = arm
            /\ gripper' = [gripper EXCEPT ![Head(todo).to] = Head(todo).what]
  PROVE  Towards(c)'
<1>. DEFINE s == Head(todo)
<1>1. s \in Steps /\ Elements(todo) = {s} \cup Elements(todo')
  <2>1. todo \in Seq(Steps)
    BY DEF TypeInv, TypeOK
  <2>. QED  BY <2>1, ElementsOfTail
<1>2. \A p \in Parts : Holds(p)' = IF Concerns(s, p) THEN Says(s) ELSE Holds(p)
  BY <1>1, StepShows
<1>3. \A p \in Parts :
        /\ Holds(p) = c \/ \E e \in Elements(todo) : Concerns(e, p)
        /\ \A e \in Elements(todo) : Concerns(e, p) => Says(e) = c
  BY Zenon DEF Towards
<1>. HIDE DEF s
<1>4. ASSUME NEW p \in Parts
      PROVE  /\ Holds(p)' = c \/ \E e \in Elements(todo') : Concerns(e, p)
             /\ \A e \in Elements(todo') : Concerns(e, p) => Says(e) = c
  BY <1>1, <1>2, <1>3, Zenon
<1>5. \A p : Holds(p)' = IF p = "arm" THEN arm'.gripper
             ELSE IF gripper'[p] \in {"closing", "1"} THEN "closed" ELSE "open"
  BY DEF Holds
<1>. QED  BY <1>4 DEF Towards

LEMMA GripInit == Init => GripInv
<1>. SUFFICES ASSUME Init PROVE Towards("open")
  BY TeleopTypeInit DEF GripInv
<1>1. Elements(todo) \subseteq Moves \cup {Command("OPENI")}
  BY OpeningFacts DEF Init
<1>2. Says(Command("OPENI")) = "open"
  BY DEF Says, Command
<1>3. \A p \in Parts : Holds(p) = "open"
  <2>1. /\ arm.gripper = "open" /\ gripper.l = "free" /\ gripper.r = "free"
        /\ gripper.m = "free" /\ gripper.block = "0"
    BY DEF Init
  <2>. QED  BY <2>1 DEF Holds, Parts, Fingers
<1>. QED  BY <1>1, <1>2, <1>3, MovesDoNotGrip, Zenon DEF Towards

(* A script that closes or opens every part comes to that, and one that    *)
(* only moves the arm leaves the grip as it is.                            *)
LEMMA NewScript ==
  ASSUME NEW c, UNCHANGED <<arm, gripper>>,
         \/ Grips(todo', c)
         \/ Towards(c) /\ todo = << >> /\ Elements(todo') \subseteq Moves
  PROVE  Towards(c)'
<1>1. CASE Grips(todo', c)
  BY <1>1 DEF Grips, Towards
<1>2. CASE Towards(c) /\ todo = << >> /\ Elements(todo') \subseteq Moves
  <2>1. \A p \in Parts : Holds(p) = c
    BY <1>2, FewElements, Zenon DEF Towards
  <2>2. \A p : Holds(p)' = Holds(p)
    BY DEF Holds
  <2>. QED  BY <1>2, <2>1, <2>2, MovesDoNotGrip DEF Towards
<1>. QED  BY <1>1, <1>2

LEMMA GripStep == GripInv /\ [Next]_vars => GripInv'
<1>. SUFFICES ASSUME GripInv, [Next]_vars, (Rviz /\ serialOpen /\ ~failed)'
     PROVE  (\E c \in {"closed", "open"} : Towards(c))'
  BY TeleopTypeStep DEF GripInv
<1>. USE DEF keyVars, mainVars, planVars, gripperVars, armVars, contactVars
<1>a. TypeInv /\ (pc # "script" => todo = << >>)
  BY DEF GripInv, TypeInv
<1>b. UNCHANGED <<program, serialOpen>> /\ Rviz /\ serialOpen
  <2>1. UNCHANGED <<program, serialOpen>>
    BY DEF Next, MainThread, CallbackThread, vars, SendCommand, CallService,
           Returned, PressKey, ChooseMode, Plan, TypeJoints, Publish,
           CheckContacts, Answer, Refuse, Leave
  <2>. QED  BY <2>1 DEF Rviz
<1>c. ASSUME ~failed
      PROVE  \E c \in {"closed", "open"} : Towards(c)
  BY <1>b, <1>c DEF GripInv
<1>d. ASSUME ~failed, UNCHANGED <<arm, gripper>>,
             todo' = todo \/ (todo = << >> /\ Elements(todo') \subseteq Moves)
      PROVE  (\E c \in {"closed", "open"} : Towards(c))'
  <2>1. PICK c \in {"closed", "open"} : Towards(c)
    BY <1>c, <1>d
  <2>2. CASE todo' = todo
    BY <1>d, <2>1, <2>2 DEF Towards, Holds
  <2>3. CASE todo = << >> /\ Elements(todo') \subseteq Moves
    BY <1>d, <2>1, <2>3, NewScript
  <2>. QED  BY <1>d, <2>2, <2>3
<1>1. CASE SendCommand \/ CallService
  <2>1. /\ todo # << >> /\ todo' = Tail(todo) /\ ~failed
        /\ \/ Head(todo).to = "arm" /\ arm' = Obey(arm, Head(todo).what)
              /\ gripper' = gripper
           \/ Head(todo).to # "arm" /\ arm' = arm
              /\ gripper' = [gripper EXCEPT ![Head(todo).to] = Head(todo).what]
    BY <1>1, <1>b DEF SendCommand, CallService
  <2>2. PICK c \in {"closed", "open"} : Towards(c)
    BY <1>c, <2>1
  <2>. QED  BY <1>a, <2>1, <2>2, ScriptGoesOn
<1>4. CASE PressKey
  <2>1. PICK r \in Reads(Keys, LeftKeys) :
          /\ CASE r.got = "p" -> Go(IF Rviz THEN "mode" ELSE "joints")
               [] r.got = "e" -> Run(CatchIt \o ShiftP, "menu")
               [] r.got = "o" -> Run(OpenIt \o ShiftP, "menu")
               [] r.got = "q" -> Run(ShiftP, "done")
               [] OTHER       -> Run(ShiftP, "menu")
          /\ failed' = (failed /\ r.got \notin {"e", "o"})
    BY <1>4, Zenon DEF PressKey
  <2>2. todo = << >> /\ UNCHANGED <<arm, gripper>>
    BY <1>4, <1>a DEF PressKey
  <2>3. CASE r.got = "e"
    <3>1. Run(CatchIt \o ShiftP, "menu")
      BY <2>1, <2>3
    <3>. QED  BY <2>2, <3>1, <1>b, CatchItFacts, NewScript DEF Run
  <2>4. CASE r.got = "o"
    <3>1. Run(OpenIt \o ShiftP, "menu")
      BY <2>1, <2>4
    <3>. QED  BY <2>2, <3>1, OpenItFacts, NewScript DEF Run
  <2>5. CASE r.got \notin {"e", "o"}
    <3>1. ~failed
      BY <2>1, <2>5
    <3>2. todo' \in {ShiftP, todo}
      BY <2>1, <2>5 DEF Run, Go
    <3>. QED  BY <2>2, <3>1, <3>2, <1>d, MovesFacts
  <2>. QED  BY <2>3, <2>4, <2>5
<1>5. CASE TypeJoints \/ Answer
  <2>1. /\ todo = << >> /\ todo' \in {todo, MovePosition}
        /\ UNCHANGED <<arm, gripper, failed>>
    BY <1>5, <1>a DEF TypeJoints, Answer, Run, Go
  <2>. QED  BY <2>1, <1>d, MovesFacts
<1>6. CASE \/ Returned \/ ChooseMode \/ Plan \/ Publish \/ CheckContacts
           \/ Refuse \/ Leave \/ CallbackThread \/ UNCHANGED vars
  <2>1. UNCHANGED <<arm, gripper, failed, todo>>
    BY <1>6 DEF Returned, ChooseMode, Plan, Publish, CheckContacts, Refuse,
                Leave, CallbackThread, vars, Go
  <2>. QED  BY <2>1, <1>d
<1>. QED  BY <1>1, <1>4, <1>5, <1>6 DEF Next, MainThread

(* Back in the menu Gazebo has been told to do what the arm's gripper      *)
(* does, with every finger and with the block, unless a service call of    *)
(* the last catch or open failed.                                          *)
THEOREM SimulationFollows == Spec => []SimulationFollowsGripper
<1>1. GripInv => SimulationFollowsGripper
  <2>. SUFFICES ASSUME GripInv, pc = "menu", Rviz, serialOpen, ~failed
       PROVE  /\ (gripper.block = "1") <=> (arm.gripper = "closed")
              /\ \A f \in Fingers :
                   (gripper[f] = "closing") <=> (arm.gripper = "closed")
    BY Zenon DEF SimulationFollowsGripper
  <2>1. PICK c \in {"closed", "open"} : Towards(c)
    BY DEF GripInv
  <2>2. todo = << >> /\ gripper \in Simulations
    BY DEF GripInv, TypeInv
  <2>3. \A p \in Parts : Holds(p) = c
    BY <2>1, <2>2, FewElements, Zenon DEF Towards
  <2>4. /\ "arm" \in Parts /\ "block" \in Parts /\ Fingers \subseteq Parts
        /\ \A f \in Fingers : f # "arm"
    BY DEF Parts, Fingers
  <2>5. gripper.block \in {"0", "1"} /\ \A f \in Fingers : gripper[f] \in Told
    BY <2>2, RecordTypes
  <2>6. arm.gripper = c
    BY <2>3, <2>4 DEF Holds
  <2>7. (gripper.block = "1") <=> (c = "closed")
    BY <2>1, <2>3, <2>4, <2>5 DEF Holds
  <2>8. ASSUME NEW f \in Fingers PROVE (gripper[f] = "closing") <=> (c = "closed")
    BY <2>1, <2>3, <2>4, <2>5, <2>8 DEF Holds, Told
  <2>. QED  BY <2>6, <2>7, <2>8
<1>. QED  BY <1>1, GripInit, GripStep, PTL DEF Spec
=============================================================================
