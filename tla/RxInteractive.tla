--------------------------- MODULE RxInteractive ---------------------------
(***************************************************************************)
(* InteractiveRobot of the interactivity tutorial, and the program that    *)
(* shows the contacts of the arm with it (visualizing_collisions).  The    *)
(* user drags a marker, of the arm or of a cube, in RViz; the poses wanted *)
(* are remembered and published in the callback of a one-shot timer, which *)
(* limits their rate and repeats them in the first seconds.  Everything    *)
(* runs in the thread of ros::spin().                                      *)
(*                                                                         *)
(* Time is in ticks, a part of min_delay_.  RViz, the timers of ROS, the   *)
(* inverse kinematics and the collision checker are external.              *)
(***************************************************************************)
EXTENDS Integers

CONSTANTS
  MinDelay,    \* min_delay_, 10 ms
  Refresh,     \* 1 s, between the callbacks in the first seconds
  Startup,     \* the first seconds, 8
  MaxWork,     \* how long a callback takes at most
  ConnectBy,   \* how soon RViz listens
  ArmPoses, WorldPoses, \* where the markers can be dragged
  Points,      \* points of contact
  Contacts     \* of an arm and a cube: do they collide, and in which points?

ASSUME DelaysAssumption ==
  /\ MinDelay \in Nat /\ Refresh \in Nat /\ Startup \in Nat /\ MaxWork \in Nat
  /\ ConnectBy \in Nat /\ MinDelay > 0 /\ Refresh >= MinDelay
ASSUME ConnectAssumption == ConnectBy + MaxWork < Startup
ASSUME ContactsAssumption ==
  Contacts \in [ArmPoses \X WorldPoses ->
                  [collision : BOOLEAN, points : SUBSET Points]]

None == -1
Larger(a, b) == IF a > b THEN a ELSE b

VARIABLES
  desired_group_end_link_pose, desired_world_object_pose,
  robot_state,          \* the pose the arm was last solved for
  publish_timer,        \* ticks until its callback, or None
  init_time,            \* ticks since it, or None when it was zeroed
  last_callback_time,   \* ticks since it, up to Horizon
  average_callback_duration,
  schedule_request_count,
  g_collision_points,
  connected,            \* RViz: does it listen?
  shown_world, shown_arm, markers,  \* what it shows
  asked,                \* history: an update was scheduled since the last
  rest,                 \* history: ticks since the last, up to Horizon
  current               \* history: the last update was solved, counted and
                        \* received

desiredVars == <<desired_group_end_link_pose, desired_world_object_pose>>
timerVars == <<publish_timer, init_time, last_callback_time,
               average_callback_duration, schedule_request_count>>
shownVars == <<robot_state, g_collision_points, shown_world, shown_arm, markers,
               current>>
vars == <<desiredVars, timerVars, shownVars, connected, asked, rest>>

(* desired_delay.  A longer time since the last callback makes no          *)
(* difference, as no average is above Longest.                             *)
Delay(average) == Larger(MinDelay, (average * 12) \div 10)
Longest == Larger(MinDelay, MaxWork)
Horizon == Delay(Longest)
After(age, ticks) == IF age + ticks < Horizon THEN age + ticks ELSE Horizon

(* The constructor, and main() up to ros::spin().  None stands for what    *)
(* RViz does not show yet.                                                 *)
Init ==
  /\ desired_group_end_link_pose \in ArmPoses
  /\ desired_world_object_pose \in WorldPoses
  /\ robot_state = desired_group_end_link_pose
  /\ init_time = 0 /\ last_callback_time = 0
  /\ average_callback_duration = MinDelay
  /\ schedule_request_count = 0
  /\ publish_timer = Delay(MinDelay)
  /\ g_collision_points = {}
  /\ connected = FALSE
  /\ shown_world = None /\ shown_arm = None /\ markers = {}
  /\ asked = TRUE /\ rest = 0 /\ current = FALSE

-----------------------------------------------------------------------------
(* setCallbackTimer(true).  The count is of requests that came since       *)
(* another one; as nothing ever makes it 1, every request starts the timer *)
(* anew.  A callback to be run at once is one that has no ticks to wait.   *)

(* Mutant of RequestUpdate: never more than the smallest delay. *)
RequestUpdateSoon ==
  /\ publish_timer' = MinDelay
  /\ UNCHANGED <<last_callback_time, schedule_request_count>>

RequestUpdate ==
  LET delay == Delay(average_callback_duration)
      until == delay - last_callback_time
  IN  IF schedule_request_count > 0
      THEN /\ schedule_request_count' = schedule_request_count + 1
           /\ publish_timer' = Larger(until, 0)
           /\ UNCHANGED last_callback_time
      ELSE /\ publish_timer' = Larger(until, MinDelay)
           /\ last_callback_time' = IF until < MinDelay THEN delay - MinDelay
                                    ELSE last_callback_time
           /\ UNCHANGED schedule_request_count

ScheduleUpdate ==
  /\ RequestUpdate
  /\ asked' = TRUE
  /\ UNCHANGED <<init_time, average_callback_duration, shownVars, connected, rest>>

SetGroupPose(pose) ==
  /\ desired_group_end_link_pose' = pose
  /\ ScheduleUpdate
  /\ UNCHANGED desired_world_object_pose

SetWorldObjectPose(pose) ==
  /\ desired_world_object_pose' = pose
  /\ ScheduleUpdate
  /\ UNCHANGED desired_group_end_link_pose

(* movedRobotMarkerCallback and movedWorldMarkerCallback *)
MovedRobotMarker == \E pose \in ArmPoses : SetGroupPose(pose)
MovedWorldMarker == \E pose \in WorldPoses : SetWorldObjectPose(pose)
Moved == MovedRobotMarker \/ MovedWorldMarker

-----------------------------------------------------------------------------
(* Mutant of PublishMarkers: the old ones are not deleted. *)
PublishMarkersToo(points) ==
  /\ markers' = IF connected THEN markers \cup points ELSE markers
  /\ g_collision_points' = points

(* The old markers are deleted, the new ones added. *)
PublishMarkers(points) ==
  /\ markers' = IF connected THEN (markers \ g_collision_points) \cup points
                ELSE markers
  /\ g_collision_points' = points

(* computeCollisionContactPoints, for the arm as solved and the cube as it *)
(* is wanted.  A collision without points leaves the markers as they were. *)
ComputeContacts ==
  LET found == Contacts[<<robot_state', desired_world_object_pose>>]
      counted == ~found.collision \/ found.points # {}
  IN  /\ current' = (connected /\ counted)
      /\ IF counted
         THEN PublishMarkers(IF found.collision THEN found.points ELSE {})
         ELSE UNCHANGED <<markers, g_collision_points>>

(* What is published before RViz listens is lost. *)
PublishWorldState ==
  shown_world' = IF connected THEN desired_world_object_pose ELSE shown_world
PublishRobotState ==
  shown_arm' = IF connected THEN robot_state' ELSE shown_arm

(* updateAll: the cube is published in any case, the arm and the contacts  *)
(* when the inverse kinematics have a solution.                            *)
UpdateAll ==
  /\ PublishWorldState
  /\ \/ /\ robot_state' = desired_group_end_link_pose
        /\ PublishRobotState
        /\ ComputeContacts
     \/ /\ current' = FALSE
        /\ UNCHANGED <<robot_state, shown_arm, g_collision_points, markers>>

(* Mutant of Rearm: the first seconds are like any other. *)
RearmNever(time) == publish_timer' = None /\ init_time' = None
(* Mutant of Rearm: the first seconds end and init_time_ stays. *)
RearmKept(time) ==
  IF time = None \/ time >= Startup
  THEN publish_timer' = None /\ init_time' = time
  ELSE /\ publish_timer' = Larger(Refresh, 2 * average_callback_duration')
       /\ init_time' = time
(* setCallbackTimer(false), after a callback. *)
Rearm(time) ==
  IF time = None \/ time >= Startup
  THEN publish_timer' = None /\ init_time' = None
  ELSE /\ publish_timer' = Larger(Refresh, 2 * average_callback_duration')
       /\ init_time' = time

UpdateCallback ==
  /\ publish_timer = 0
  /\ UpdateAll
  /\ \E work \in 0 .. MaxWork :
       /\ average_callback_duration' = (average_callback_duration + work) \div 2
       /\ Rearm(IF init_time = None THEN None ELSE init_time + work)
  /\ last_callback_time' = 0 /\ schedule_request_count' = 0
  /\ asked' = FALSE /\ rest' = 0
  /\ UNCHANGED <<desiredVars, connected>>

(* External: RViz subscribes, and a tick passes; the timer's callback may   *)
(* have to wait for its turn.                                              *)
Connect ==
  /\ ~connected /\ connected' = TRUE
  /\ UNCHANGED <<desiredVars, timerVars, shownVars, asked, rest>>

Tick ==
  /\ init_time = None \/ init_time >= ConnectBy => connected
  /\ publish_timer' = IF publish_timer > 0 THEN publish_timer - 1 ELSE publish_timer
  /\ init_time' = IF init_time \in {None, Startup} THEN init_time ELSE init_time + 1
  /\ last_callback_time' = After(last_callback_time, 1)
  /\ rest' = After(rest, 1)
  /\ UNCHANGED <<desiredVars, shownVars, average_callback_duration,
                 schedule_request_count, connected, asked>>

Next == Moved \/ UpdateCallback \/ Connect \/ Tick

Spec == Init /\ [][Next]_vars

(* ros::spin() runs a callback that is due, RViz starts, time passes. *)
FairSpec ==
  Spec /\ WF_vars(UpdateCallback) /\ WF_vars(Connect) /\ WF_vars(Tick)

-----------------------------------------------------------------------------
Outcome(arm, world) == Contacts[<<arm, world>>]

(* Every variable stays in its type. *)
TypeOK ==
  /\ desired_group_end_link_pose \in ArmPoses
  /\ desired_world_object_pose \in WorldPoses
  /\ robot_state \in ArmPoses
  /\ publish_timer \in Nat \cup {None}
  /\ init_time \in (0 .. Startup) \cup {None}
  /\ last_callback_time \in 0 .. Horizon /\ rest \in 0 .. Horizon
  /\ average_callback_duration \in 0 .. Longest
  /\ schedule_request_count \in Nat
  /\ g_collision_points \subseteq Points /\ markers \subseteq Points
  /\ connected \in BOOLEAN /\ asked \in BOOLEAN /\ current \in BOOLEAN
  /\ shown_world \in WorldPoses \cup {None} /\ shown_arm \in ArmPoses \cup {None}

(* The timer is running if and only if an update was asked for since the   *)
(* last one, or these are still the first seconds: no request is lost in a *)
(* stop of the timer, and the repetitions come to an end.                  *)
TimerRunsWhenNeeded ==
  publish_timer # None <=> asked \/ init_time # None

(* A callback begins desired_delay after the end of the one before, at     *)
(* least, although every request stops the timer, sets it anew and may     *)
(* move last_callback_time_.                                               *)
RateLimited ==
  publish_timer = 0 => rest >= Delay(average_callback_duration)

(* The points of contact RViz shows are those of the arm and the cube it   *)
(* shows, and no older ones, when the last update had a solution and       *)
(* counted its contacts.                                                   *)
MarkersMatch ==
  current => markers = IF Outcome(shown_arm, shown_world).collision
                       THEN Outcome(shown_arm, shown_world).points ELSE {}

(* When the user moves the markers no more, RViz comes to show the cube    *)
(* where it was dragged to last, also if it was not listening yet when it  *)
(* was published first.                                                    *)
LastDragShown ==
  <>[][~Moved]_vars => <>[](shown_world = desired_world_object_pose)
=============================================================================
