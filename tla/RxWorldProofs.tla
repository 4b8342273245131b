--------------------------- MODULE RxWorldProofs ---------------------------
(***************************************************************************)
(* Theorems about RxWorld, for any requests, poses, publishers and moves   *)
(* of the gripper.                                                         *)
(***************************************************************************)
EXTENDS RxWorld, TLAPS

(* What ModelPose stores is a whole number. *)
LEMMA ToLongInt == \A n \in Int : ToLong(n) \in Int
BY DEF ToLong

-----------------------------------------------------------------------------
LEMMA TypeInit == Init => TypeOK
<1>. SUFFICES ASSUME Init PROVE TypeOK
  OBVIOUS
<1>1. gap \in Int
  BY LengthsAssumption DEF Init
<1>2. pos \in [1 .. 6 -> Int] /\ cnt \in [Publishers -> Nat]
  BY DEF Init
<1>3. /\ placed \in BOOLEAN /\ contacts \in BOOLEAN /\ told \in BOOLEAN
      /\ linked \in BOOLEAN
  BY Zenon DEF Init
<1>. QED  BY <1>1, <1>2, <1>3 DEF Init, TypeOK, None

LEMMA TypeStep ==
  ASSUME TypeOK, [Next]_vars
  PROVE  TypeOK'
<1>1. CASE Activation
  BY <1>1, RequestsAssumption
     DEF TypeOK, None, Activation, Asked, pluginVars, blockVars, contactVars, topicVars
<1>2. CASE ModelPose
  <2>1. PICK req \in Poses : pos' = [i \in 1 .. 6 |-> ToLong(req[i])]
    BY <1>2 DEF ModelPose
  <2>2. pos' \in [1 .. 6 -> Int]
    BY <2>1, ToLongInt, PosesAssumption
  <2>. QED
    BY <1>2, <2>2 DEF TypeOK, None, ModelPose, pluginVars, blockVars, contactVars, topicVars
<1>3. CASE ReadActivation
  BY <1>3 DEF TypeOK, None, ReadActivation, serviceVars, blockVars, contactVars, topicVars
<1>4. CASE Hold
  BY <1>4, LengthsAssumption DEF TypeOK, None, Hold, Counted, GripperDone, contactVars, topicVars
<1>5. CASE Miss
  BY <1>5 DEF TypeOK, None, Miss, GripperDone, serviceVars, blockVars, contactVars, topicVars
<1>6. CASE Release
  BY <1>6, LengthsAssumption DEF TypeOK, None, Release, GripperDone, serviceVars, blockVars, contactVars,
              topicVars
<1>7. CASE ReportContacts
  BY <1>7 DEF TypeOK, None, ReportContacts, serviceVars, pluginVars, blockVars, topicVars
<1>8. ASSUME NEW p \in Publishers, Publish(p) PROVE TypeOK'
  <2>1. cnt[p] \in Nat /\ cnt[p] + Increment(p) \in Nat
    BY DEF TypeOK, Increment
  <2>2. cnt' \in [Publishers -> Nat] /\ goal' \in Int
    BY <1>8, <2>1 DEF TypeOK, Publish
  <2>3. p # "gripper"
    BY PublishersAssumption
  <2>. QED
    BY <1>8, <2>2, <2>3
       DEF TypeOK, None, Publish, serviceVars, pluginVars, blockVars, contactVars
<1>9. CASE Link
  BY <1>9 DEF TypeOK, None, Link, serviceVars, pluginVars, blockVars, contactVars
<1>10. CASE Physics
  <2>1. PICK rise \in Moves, stopped \in BOOLEAN :
          /\ fall' = IF stopped THEN 0 ELSE fall + Gravity
          /\ carried' = IF stopped THEN None ELSE carried
    BY <1>10 DEF Physics
  <2>2. contacts' \in BOOLEAN /\ beside' \in BOOLEAN /\ told' \in BOOLEAN
    <3>1. beside' \in IF placed THEN {TRUE} ELSE BOOLEAN
      BY <1>10 DEF Physics
    <3>. QED  BY <1>10, <2>1, <3>1, Zenon DEF Physics
  <2>3. fall' \in Nat /\ gap' \in Int /\ carried' \in Nat \cup {None}
    BY <1>10, <2>1, LengthsAssumption DEF TypeOK, Physics
  <2>. QED
    BY <1>10, <2>2, <2>3 DEF TypeOK, None, Physics, serviceVars, topicVars
<1>11. CASE UNCHANGED vars
  BY <1>11 DEF TypeOK, vars, serviceVars, pluginVars, blockVars, contactVars, topicVars
<1>. QED
  BY <1>1, <1>2, <1>3, <1>4, <1>5, <1>6, <1>7, <1>8, <1>9, <1>10, <1>11
     DEF Next, Update

(* Every variable stays in its type. *)
THEOREM TypeCorrect == Spec => []TypeOK
<1>1. TypeOK /\ [Next]_vars => TypeOK'
  BY TypeStep
<1>. QED  BY TypeInit, <1>1, PTL DEF Spec

-----------------------------------------------------------------------------
(* The block was last asked to be held if and only if the flag is 1; an    *)
(* update that has read it before the release may still be under way, once.*)
ReleaseInv ==
  /\ late = None <=> set_activation = 1
  /\ late \in {None, 0, 1}
  /\ branch = "hold" => late # 1

LEMMA ReleaseStep ==
  ASSUME TypeOK, ReleaseInv, [Next]_vars
  PROVE  ReleaseInv'
<1>. USE DEF None, ReleaseInv
<1>1. CASE Activation
  BY <1>1 DEF Activation, Asked, pluginVars
<1>2. CASE ModelPose
  BY <1>2 DEF ModelPose, pluginVars
<1>3. CASE ReadActivation
  BY <1>3 DEF ReadActivation, serviceVars
<1>4. CASE Hold
  BY <1>4 DEF Hold, Counted, GripperDone
<1>5. CASE Miss \/ Release
  BY <1>5 DEF Miss, Release, GripperDone, serviceVars
<1>6. CASE ReportContacts \/ (\E p \in Publishers : Publish(p)) \/ Link
  BY <1>6 DEF ReportContacts, Publish, Link, serviceVars, pluginVars
<1>7. CASE Physics
  BY <1>7 DEF Physics, serviceVars
<1>8. CASE UNCHANGED vars
  BY <1>8 DEF vars, serviceVars, pluginVars
<1>. QED
  BY <1>1, <1>2, <1>3, <1>4, <1>5, <1>6, <1>7, <1>8 DEF Next, Update

(* A release is obeyed by every update but the one that had already read   *)
(* the flag, whatever is asked and whenever the service's thread comes in. *)
THEOREM Obeyed == Spec => []ReleaseObeyed
<1>1. Init => ReleaseInv
  BY DEF Init, ReleaseInv, None
<1>2. TypeOK /\ ReleaseInv /\ [Next]_vars => ReleaseInv'
  BY ReleaseStep
<1>3. ReleaseInv => ReleaseObeyed
  BY DEF ReleaseInv, ReleaseObeyed, None
<1>. QED  BY <1>1, <1>2, <1>3, TypeCorrect, PTL DEF Spec

-----------------------------------------------------------------------------
(* Arithmetic of the k-th placement. *)
LEMMA Placements ==
  ASSUME NEW k \in Nat, NEW s \in Nat
  PROVE  (k + 1) * s = k * s + s /\ k * s \in Nat
OBVIOUS

(* While the block is carried, the corrector and the fall have grown once  *)
(* for each placement; it lies as much over the gripper as the one is      *)
(* ahead of the other.                                                     *)
CarryInv ==
  carried # None =>
    /\ placed /\ beside
    /\ \E base \in 0 .. Step : corrector = base + carried * Step
    /\ "gripper" \notin due => gap = corrector /\ fall + Gravity = carried * Gravity
    /\ "gripper" \in due =>
         /\ fall = carried * Gravity
         /\ \E rise \in Moves : gap = corrector - fall - rise

LEMMA CarryHold ==
  ASSUME TypeOK, CarryInv, Hold
  PROVE  CarryInv'
<1>1. /\ "gripper" \in due /\ "gripper" \notin due'
      /\ beside' /\ placed'
      /\ corrector' = corrector + Step /\ gap' = corrector' /\ fall' = fall
  BY DEF Hold, GripperDone, TypeOK
<1>2. /\ corrector \in Nat /\ fall \in Nat /\ Step \in Nat /\ Gravity \in Nat
      /\ carried \in Nat \cup {None}
  BY LengthsAssumption DEF TypeOK
<1>3. CASE carried # None
  <2>1. carried \in Nat /\ carried' = carried + 1
    BY <1>2, <1>3 DEF Hold, Counted
  <2>2. PICK base \in 0 .. Step : corrector = base + carried * Step
    BY <1>3 DEF CarryInv
  <2>3. fall = carried * Gravity
    BY <1>1, <1>3 DEF CarryInv
  <2>4. /\ carried' * Step = carried * Step + Step
        /\ carried' * Gravity = carried * Gravity + Gravity
        /\ carried * Step \in Nat /\ carried * Gravity \in Nat
    BY <1>2, <2>1, Placements
  <2>5. corrector' = base + carried' * Step /\ fall' + Gravity = carried' * Gravity
    BY <1>1, <1>2, <2>2, <2>3, <2>4
  <2>. QED  BY <1>1, <2>5 DEF CarryInv
<1>4. CASE carried = None /\ fall = 0 /\ corrector <= Step
  <2>1. carried' = 1
    BY <1>4 DEF Hold, Counted
  <2>2. /\ corrector \in 0 .. Step /\ corrector' = corrector + carried' * Step
        /\ fall' + Gravity = carried' * Gravity
    BY <1>1, <1>2, <1>4, <2>1
  <2>. QED  BY <1>1, <2>2 DEF CarryInv
<1>5. CASE carried = None /\ ~(fall = 0 /\ corrector <= Step)
  BY <1>5 DEF Hold, Counted, CarryInv
<1>. QED  BY <1>3, <1>4, <1>5

LEMMA CarryPhysics ==
  ASSUME TypeOK, CarryInv, Physics
  PROVE  CarryInv'
<1>1. PICK rise \in Moves, stopped \in BOOLEAN :
        /\ fall' = IF stopped THEN 0 ELSE fall + Gravity
        /\ gap' = gap - fall' - rise
        /\ carried' = IF stopped THEN None ELSE carried
  BY DEF Physics
<1>2. SUFFICES ASSUME carried' # None PROVE CarryInv'
  BY DEF CarryInv
<1>3. ~stopped /\ carried' = carried /\ fall' = fall + Gravity
  BY <1>1, <1>2
<1>4. /\ due = {} /\ "gripper" \in due'
      /\ corrector' = corrector /\ placed' = placed
  BY DEF Physics, Plugins
<1>5. placed /\ gap = corrector /\ fall + Gravity = carried * Gravity
  BY <1>2, <1>3, <1>4 DEF CarryInv
<1>6. PICK base \in 0 .. Step : corrector = base + carried * Step
  BY <1>2, <1>3 DEF CarryInv
<1>7. beside'
  BY <1>5 DEF Physics
<1>8. fall' = carried' * Gravity /\ gap' = corrector' - fall' - rise
  BY <1>1, <1>3, <1>4, <1>5
<1>. QED
  BY <1>3, <1>4, <1>5, <1>6, <1>7, <1>8 DEF CarryInv

LEMMA CarryStep ==
  ASSUME TypeOK, CarryInv, [Next]_vars
  PROVE  CarryInv'
<1>1. CASE Activation \/ ModelPose \/ ReadActivation \/ ReportContacts \/ Link
  BY <1>1 DEF Activation, ModelPose, ReadActivation, ReportContacts, Link,
              pluginVars, blockVars, CarryInv
<1>2. CASE Hold
  BY <1>2, CarryHold
<1>3. CASE Miss \/ Release
  BY <1>3 DEF Miss, Release, CarryInv
<1>4. ASSUME NEW p \in Publishers, Publish(p) PROVE CarryInv'
  <2>1. p # "gripper"
    BY PublishersAssumption
  <2>. QED  BY <1>4, <2>1 DEF Publish, pluginVars, blockVars, CarryInv
<1>5. CASE Physics
  BY <1>5, CarryPhysics
<1>6. CASE UNCHANGED vars
  BY <1>6 DEF vars, pluginVars, blockVars, CarryInv
<1>. QED
  BY <1>1, <1>2, <1>3, <1>4, <1>5, <1>6 DEF Next, Update

LEMMA CarryNear ==
  ASSUME TypeOK, CarryInv
  PROVE  CarriedUntilTol
<1>. SUFFICES ASSUME carried # None, "gripper" \in due
              PROVE  \E base \in 0 .. Step, rise \in Moves :
                       Near <=> Within(Lead(base, rise))
  BY DEF CarriedUntilTol
<1>1. PICK rise \in Moves : gap = corrector - fall - rise
  BY DEF CarryInv
<1>2. PICK base \in 0 .. Step : corrector = base + carried * Step
  BY DEF CarryInv
<1>3. beside /\ fall = carried * Gravity
  BY DEF CarryInv
<1>4. /\ carried \in Nat /\ rise \in Int /\ base \in Nat
      /\ Step \in Nat /\ Gravity \in Nat /\ Tol \in Nat
  BY LengthsAssumption DEF TypeOK
<1>5. PICK a \in Nat, b \in Nat :
        /\ a = carried * Step /\ b = carried * Gravity
        /\ carried * (Step - Gravity) = a - b
  <2>1. /\ carried * Step \in Nat /\ carried * Gravity \in Nat
        /\ carried * (Step - Gravity) = carried * Step - carried * Gravity
    BY <1>4
  <2>. QED  BY <2>1
<1>6. gap = Lead(base, rise)
  BY <1>1, <1>2, <1>3, <1>4, <1>5 DEF Lead
<1>7. Near <=> Within(Lead(base, rise))
  BY <1>3, <1>6 DEF Near, Within
<1>. QED  BY <1>7

(* For any lengths: a block taken at rest, whose fall nothing stops, is    *)
(* carried as long as the corrector's lead over the fall is within tol     *)
(* wherever the corrector began and the gripper goes, and dropped once it  *)
(* is so for none of them.                                                 *)
THEOREM CarriedAsLong == Spec => []CarriedUntilTol
<1>1. Init => CarryInv
  BY DEF Init, CarryInv
<1>2. TypeOK /\ CarryInv /\ [Next]_vars => CarryInv'
  BY CarryStep
<1>3. TypeOK /\ CarryInv => CarriedUntilTol
  BY CarryNear
<1>. QED  BY <1>1, <1>2, <1>3, TypeCorrect, PTL DEF Spec
=============================================================================
