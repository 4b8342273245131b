------------------------------ MODULE RxWorld ------------------------------
(***************************************************************************)
(* The plugins of rx90_control, which Gazebo's update thread runs one      *)
(* after the other at the beginning of every step of the world:            *)
(* gripper_plugin makes a block follow the gripper while Set_activation    *)
(* was last called with 1, contact_plugin prints contacts, rx90_publisher  *)
(* and rx90_pub command a joint.  The services are called in threads of    *)
(* ROS, which share gripper_plugin's members with the update and no lock.  *)
(*                                                                         *)
(* Heights are integers in a unit of the model; gap is the height of the   *)
(* block over the gripper, and the other two axes are one truth value.     *)
(* Gazebo's physics is external, modelled from the plugin's remark that    *)
(* objects fall although they are put back in every step: to put an object *)
(* somewhere does not change its velocity.                                 *)
(***************************************************************************)
EXTENDS Integers

CONSTANTS
  Requests,    \* what clients ask of Set_activation (argv[1], or catchIt's 1)
  Poses,       \* what they ask of Set_position, in tenths
  Publishers,  \* those loaded of "rx90_publisher", "rx90_pub"
  Tol,         \* tol, 0.5 m
  Step,        \* what the corrector grows by, 0.00001 m
  Gravity,     \* by how much a free fall is longer in every step
  Moves,       \* by how much the gripper may rise in one step
  Far,         \* bound: of gap
  MaxCorrector,\* bound: of the corrector
  MaxCount     \* where a publisher's float counts no further, 2^24

ASSUME RequestsAssumption == Requests \subseteq Int
ASSUME PosesAssumption == Poses \subseteq [1 .. 6 -> Int]
ASSUME PublishersAssumption == Publishers \subseteq {"rx90_publisher", "rx90_pub"}
ASSUME LengthsAssumption ==
  /\ Tol \in Nat /\ Step \in Nat /\ Gravity \in Nat /\ Far \in Nat
  /\ Moves \subseteq Int /\ MaxCorrector \in Nat /\ MaxCount \in Nat

Plugins == {"gripper", "contact"} \cup Publishers

VARIABLES
  set_activation, pos,
  late,        \* history: placements since the block was to be released, -1
               \* while it was last asked to be held
  corrector,
  branch,      \* gripper_plugin's OnUpdate: which way it went at the flag
  placed,      \* has its last OnUpdate put the block at the gripper?
  carried,     \* history: placements in a row since it took the block at
               \* rest, if nothing has stopped its fall since; else -1
  gap, fall,   \* the block: over the gripper, and what it falls in a step
  beside,      \* is it within tol of the gripper in x and in y?
  contacts,    \* did the last step of the physics record a contact?
  told,        \* has contact_plugin printed one in this update?
  cnt, goal,   \* of each publisher; what the joint's controller got last
  linked,      \* does the controller know the publishers' topic yet?
  due          \* plugins whose OnUpdate has still to run in this update

serviceVars == <<set_activation, pos, late>>
pluginVars == <<corrector, branch, placed, carried>>
blockVars == <<gap, fall, beside>>
contactVars == <<contacts, told>>
topicVars == <<cnt, goal, linked>>
vars == <<serviceVars, pluginVars, blockVars, contactVars, topicVars, due>>

None == -1

(* The plugins have been loaded; the block lies somewhere. *)
Init ==
  /\ set_activation = 0 /\ pos = [i \in 1 .. 6 |-> 0] /\ late = 0
  /\ corrector = 0 /\ branch = "unread" /\ placed = FALSE /\ carried = None
  /\ gap \in {0, -Far} /\ beside \in BOOLEAN /\ fall = 0
  /\ contacts \in BOOLEAN /\ told = FALSE
  /\ cnt = [p \in Publishers |-> 0] /\ goal = None /\ linked = FALSE
  /\ due = Plugins

-----------------------------------------------------------------------------
(* The services. *)

Asked(activation) ==
  late' = IF activation = 1 THEN None ELSE IF late = None THEN 0 ELSE late

(* Mutant of Activation: what is not 1 is answered and not stored. *)
ActivationKept ==
  \E activation \in Requests :
    /\ set_activation' = IF activation = 1 THEN 1 ELSE set_activation
    /\ Asked(activation)
    /\ UNCHANGED <<pos, pluginVars, blockVars, contactVars, topicVars, due>>

Activation ==
  \E activation \in Requests :
    /\ set_activation' = activation
    /\ Asked(activation)
    /\ UNCHANGED <<pos, pluginVars, blockVars, contactVars, topicVars, due>>

(* A double becomes a long: it is cut off towards zero. *)
ToLong(tenths) == IF tenths < 0 THEN -((-tenths) \div 10) ELSE tenths \div 10

(* Set_position stores the pose it answers with, and moves nothing. *)
ModelPose ==
  \E req \in Poses :
    /\ pos' = [i \in 1 .. 6 |-> ToLong(req[i])]
    /\ UNCHANGED <<set_activation, late, pluginVars, blockVars, contactVars,
                   topicVars, due>>

-----------------------------------------------------------------------------
(* One update.  gripper_plugin::OnUpdate reads the flag ... *)

(* Mutant of ReadActivation: any activation but 1 holds the block. *)
ReadActivationInverted ==
  /\ "gripper" \in due /\ branch = "unread"
  /\ branch' = IF set_activation # 1 THEN "hold" ELSE "free"
  /\ UNCHANGED <<serviceVars, corrector, placed, carried, blockVars,
                 contactVars, topicVars, due>>

ReadActivation ==
  /\ "gripper" \in due /\ branch = "unread"
  /\ branch' = IF set_activation = 1 THEN "hold" ELSE "free"
  /\ UNCHANGED <<serviceVars, corrector, placed, carried, blockVars,
                 contactVars, topicVars, due>>

GripperDone == branch' = "unread" /\ due' = due \ {"gripper"}

Near == beside /\ gap < Tol /\ gap > -Tol

Counted ==
  /\ late' = IF late = None THEN None ELSE late + 1
  /\ carried' = IF carried # None THEN carried + 1
                ELSE IF fall = 0 /\ corrector <= Step THEN 1 ELSE None

(* Mutant of Hold: the corrector stays as it is. *)
HoldUncorrected ==
  /\ branch = "hold" /\ Near
  /\ gap' = corrector /\ beside' = TRUE /\ placed' = TRUE
  /\ Counted /\ GripperDone
  /\ UNCHANGED <<set_activation, pos, corrector, fall, contactVars, topicVars>>

(* ... and, when the block is near, puts it at the gripper, a little higher *)
(* every time; *)
Hold ==
  /\ branch = "hold" /\ Near
  /\ corrector' = corrector + Step
  /\ gap' = corrector' /\ beside' = TRUE /\ placed' = TRUE
  /\ Counted /\ GripperDone
  /\ UNCHANGED <<set_activation, pos, fall, contactVars, topicVars>>

Miss ==
  /\ branch = "hold" /\ ~Near
  /\ placed' = FALSE /\ carried' = None
  /\ GripperDone
  /\ UNCHANGED <<serviceVars, corrector, blockVars, contactVars, topicVars>>

Release ==
  /\ branch = "free"
  /\ corrector' = Step /\ placed' = FALSE /\ carried' = None
  /\ GripperDone
  /\ UNCHANGED <<serviceVars, blockVars, contactVars, topicVars>>

(* contact_plugin::OnUpdate: any contact of the world's, not of the arm's. *)
ReportContacts ==
  /\ "contact" \in due
  /\ told' = contacts
  /\ due' = due \ {"contact"}
  /\ UNCHANGED <<serviceVars, pluginVars, blockVars, contacts, topicVars>>

(* Mutant of Increment: one of them counts down. *)
IncrementDown(p) == IF p = "rx90_publisher" THEN -1 ELSE 3
Increment(p) == IF p = "rx90_publisher" THEN 1 ELSE 3

(* OnUpdate of rx90_publisher and rx90_pub, which then sleeps: the world    *)
(* does not go on meanwhile.  What is sent before the link is lost.        *)
Publish(p) ==
  /\ p \in due
  /\ goal' = IF linked THEN cnt[p] ELSE goal
  /\ cnt' = [cnt EXCEPT ![p] = IF @ < MaxCount THEN @ + Increment(p) ELSE @]
  /\ due' = due \ {p}
  /\ UNCHANGED <<serviceVars, pluginVars, blockVars, contactVars, linked>>

(* External: the controller's subscription reaches the publishers. *)
Link ==
  /\ ~linked /\ linked' = TRUE
  /\ UNCHANGED <<serviceVars, pluginVars, blockVars, contactVars, cnt, goal, due>>

(* External: the physics of one step, when every plugin has run.  A support *)
(* stops the block's fall; otherwise it is longer in every step.  In x and *)
(* y the block may get near the gripper, or away from it, but not in a step *)
(* that began with it at the gripper.  Contacts are recorded only while    *)
(* someone subscribes to them, so a support may leave none.                *)
Physics ==
  /\ due = {} /\ corrector <= MaxCorrector
  /\ \E rise \in Moves, stopped \in BOOLEAN :
       /\ fall' = IF stopped THEN 0 ELSE fall + Gravity
       /\ gap' = gap - fall' - rise
       /\ carried' = IF stopped THEN None ELSE carried
  /\ gap' \in -Far .. Far
  /\ beside' \in IF placed THEN {TRUE} ELSE BOOLEAN
  /\ contacts' \in BOOLEAN
  /\ due' = Plugins /\ told' = FALSE
  /\ UNCHANGED <<serviceVars, corrector, branch, placed, topicVars>>

Update ==
  \/ ReadActivation \/ Hold \/ Miss \/ Release
  \/ ReportContacts
  \/ \E p \in Publishers : Publish(p)
  \/ Physics

Next == Activation \/ ModelPose \/ Update \/ Link

Spec == Init /\ [][Next]_vars /\ WF_vars(Update)

-----------------------------------------------------------------------------
(* Every variable stays in its type. *)
TypeOK ==
  /\ set_activation \in Int /\ pos \in [1 .. 6 -> Int] /\ late \in Nat \cup {None}
  /\ corrector \in Nat /\ branch \in {"unread", "hold", "free"}
  /\ branch # "unread" => "gripper" \in due
  /\ placed \in BOOLEAN /\ carried \in Nat \cup {None}
  /\ gap \in Int /\ fall \in Nat /\ beside \in BOOLEAN
  /\ contacts \in BOOLEAN /\ told \in BOOLEAN
  /\ cnt \in [Publishers -> Nat] /\ goal \in Int /\ linked \in BOOLEAN
  /\ due \subseteq Plugins

(* Once Set_activation has been told to release the block, the update that *)
(* had already read the flag may put it at the gripper once more, and no   *)
(* other does, whenever the service's thread comes in.                     *)
ReleaseObeyed == late <= 1

(* How far over the gripper a block carried for so many placements is: in  *)
(* each the corrector has gained Step, and the fall has become longer by   *)
(* Gravity, from what the corrector was, and the gripper may have risen.   *)
Lead(base, rise) == base + carried * (Step - Gravity) - rise
Within(d) == -Tol < d /\ d < Tol

(* A block taken at rest, whose fall nothing stops, is found near by every *)
(* update while that distance is within tol, so that it is taken again,    *)
(* however fast it falls by now; and found too far, so that it is dropped  *)
(* although it is asked for, as soon as it is not.  The corrector has no   *)
(* bound: unless it grows just as the fall does, that happens to every     *)
(* block held for long enough.                                             *)
CarriedUntilTol ==
  (carried # None /\ "gripper" \in due) =>
    /\ (\A base \in 0 .. Step, rise \in Moves : Within(Lead(base, rise))) => Near
    /\ (\A base \in 0 .. Step, rise \in Moves : ~Within(Lead(base, rise))) => ~Near

(* A block within tol while it is asked for is put at the gripper, unless  *)
(* it is asked to be released, or gets away, first.                        *)
NearBlockIsTaken ==
  set_activation = 1 /\ Near ~> placed \/ set_activation # 1 \/ ~Near

-----------------------------------------------------------------------------
(* What the plugin says and does not do. *)

(* "para corregir un fallo de gazebo donde se caen los objetos"            *)
(* (gripper_plugin.cpp:87): a block that was put at the gripper in one     *)
(* update is put there in the next, as long as it is asked for.            *)
HeldIsKept ==
  [][placed /\ branch = "hold" /\ branch' = "unread" => placed']_vars
=============================================================================
