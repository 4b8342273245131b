------------------------ MODULE RxInteractiveProofs ------------------------
(***************************************************************************)
(* Theorems about RxInteractive, for any delays, poses and contacts.       *)
(***************************************************************************)
EXTENDS RxInteractive, TLAPS

(* A longer average does not make the delay shorter. *)
LEMMA DelayGrows ==
  ASSUME NEW a \in Nat, NEW b \in Nat, a <= b
  PROVE  /\ Delay(a) \in Nat /\ MinDelay <= Delay(a)
         /\ Delay(a) <= Delay(b)
<1>1. (a * 12) \div 10 \in Nat /\ (b * 12) \div 10 \in Nat
      /\ (a * 12) \div 10 <= (b * 12) \div 10
  OBVIOUS
<1>. QED  BY <1>1, DelaysAssumption DEF Delay, Larger

LEMMA DelayBounds ==
  /\ Longest \in Nat /\ MinDelay <= Longest /\ MaxWork <= Longest
  /\ Horizon \in Nat /\ 0 <= Horizon
  /\ \A a \in 0 .. Longest : /\ Delay(a) \in Nat /\ MinDelay <= Delay(a)
                             /\ Delay(a) <= Horizon
<1>1. Longest \in Nat /\ MinDelay <= Longest /\ MaxWork <= Longest
  BY DelaysAssumption DEF Longest, Larger
<1>2. Horizon \in Nat
  BY <1>1, DelayGrows DEF Horizon
<1>3. ASSUME NEW a \in 0 .. Longest
      PROVE  Delay(a) \in Nat /\ MinDelay <= Delay(a) /\ Delay(a) <= Horizon
  BY <1>1, DelayGrows DEF Horizon
<1>. QED  BY <1>1, <1>2, <1>3

(* The average of a callback that takes MaxWork at most. *)
LEMMA AverageBounded ==
  ASSUME NEW a \in 0 .. Longest, NEW work \in 0 .. MaxWork
  PROVE  (a + work) \div 2 \in 0 .. Longest
<1>1. a \in Nat /\ work \in Nat /\ Longest \in Nat /\ a <= Longest /\ work <= Longest
  BY DelayBounds, DelaysAssumption
<1>. QED  BY <1>1

LEMMA AfterBounded ==
  ASSUME NEW a \in 0 .. Horizon
  PROVE  After(a, 1) \in 0 .. Horizon /\ After(a, 1) >= a
BY DelayBounds DEF After

LEMMA FoundPoints ==
  \A arm \in ArmPoses, world \in WorldPoses :
    Contacts[<<arm, world>>].points \subseteq Points
BY ContactsAssumption

-----------------------------------------------------------------------------
TimerTypes ==
  /\ publish_timer \in Nat \cup {None}
  /\ init_time \in (0 .. Startup) \cup {None}
  /\ last_callback_time \in 0 .. Horizon /\ rest \in 0 .. Horizon
  /\ average_callback_duration \in 0 .. Longest
  /\ schedule_request_count \in Nat

ShownTypes ==
  /\ desired_group_end_link_pose \in ArmPoses
  /\ desired_world_object_pose \in WorldPoses
  /\ robot_state \in ArmPoses
  /\ g_collision_points \subseteq Points /\ markers \subseteq Points
  /\ connected \in BOOLEAN /\ asked \in BOOLEAN /\ current \in BOOLEAN
  /\ shown_world \in WorldPoses \cup {None} /\ shown_arm \in ArmPoses \cup {None}

LEMMA TypeParts == TypeOK <=> TimerTypes /\ ShownTypes
BY DEF TypeOK, TimerTypes, ShownTypes

LEMMA TypeInit == Init => TimerTypes /\ ShownTypes
<1>. SUFFICES ASSUME Init PROVE TimerTypes /\ ShownTypes
  OBVIOUS
<1>1. MinDelay \in 0 .. Longest /\ 0 \in 0 .. Horizon /\ Delay(MinDelay) \in Nat
  BY DelayBounds, DelaysAssumption
<1>2. TimerTypes
  BY <1>1, DelaysAssumption DEF Init, TimerTypes
<1>3. connected \in BOOLEAN /\ asked \in BOOLEAN /\ current \in BOOLEAN
  BY Zenon DEF Init
<1>. QED  BY <1>2, <1>3 DEF Init, ShownTypes

(* What a request does to the timer, whichever way it goes. *)
LEMMA Requested ==
  ASSUME TimerTypes, RequestUpdate
  PROVE  /\ publish_timer' \in Nat /\ schedule_request_count' \in Nat
         /\ last_callback_time' \in 0 .. last_callback_time
         /\ publish_timer' + last_callback_time >= Delay(average_callback_duration)
<1>. DEFINE delay == Delay(average_callback_duration)
            until == delay - last_callback_time
<1>1. delay \in Nat /\ MinDelay <= delay /\ MinDelay \in Nat
      /\ last_callback_time \in Nat /\ schedule_request_count \in Nat
  BY DelayBounds, DelaysAssumption DEF TimerTypes
<1>. HIDE DEF delay
<1>2. CASE schedule_request_count > 0
  <2>1. /\ schedule_request_count' = schedule_request_count + 1
        /\ publish_timer' = Larger(until, 0)
        /\ last_callback_time' = last_callback_time
    BY <1>2 DEF RequestUpdate, delay
  <2>. QED  BY <1>1, <2>1 DEF Larger, delay
<1>3. CASE ~(schedule_request_count > 0)
  <2>1. /\ schedule_request_count' = schedule_request_count
        /\ publish_timer' = Larger(until, MinDelay)
        /\ last_callback_time' = IF until < MinDelay THEN delay - MinDelay
                                 ELSE last_callback_time
    BY <1>3 DEF RequestUpdate, delay
  <2>. QED  BY <1>1, <2>1 DEF Larger, delay
<1>. QED  BY <1>2, <1>3

LEMMA MovedTypes ==
  ASSUME TimerTypes, ShownTypes, Moved
  PROVE  TimerTypes' /\ ShownTypes'
<1>1. ScheduleUpdate
  BY DEF Moved, MovedRobotMarker, MovedWorldMarker, SetGroupPose,
         SetWorldObjectPose
<1>2. /\ publish_timer' \in Nat /\ schedule_request_count' \in Nat
      /\ last_callback_time' \in 0 .. last_callback_time
  BY <1>1, Requested DEF ScheduleUpdate
<1>3. TimerTypes'
  BY <1>1, <1>2, DelayBounds DEF ScheduleUpdate, TimerTypes
<1>4. /\ desired_group_end_link_pose' \in ArmPoses
      /\ desired_world_object_pose' \in WorldPoses
  BY DEF Moved, MovedRobotMarker, MovedWorldMarker, SetGroupPose,
         SetWorldObjectPose, ShownTypes
<1>5. asked' \in BOOLEAN
  BY <1>1, Zenon DEF ScheduleUpdate
<1>. QED  BY <1>1, <1>3, <1>4, <1>5 DEF ScheduleUpdate, ShownTypes, shownVars

(* Repeated callbacks keep the rate. *)
LEMMA RefreshLater ==
  ASSUME NEW a \in Nat
  PROVE  Larger(Refresh, 2 * a) \in Nat /\ Larger(Refresh, 2 * a) >= Delay(a)
<1>1. (a * 12) \div 10 \in Nat /\ (a * 12) \div 10 <= 2 * a
  OBVIOUS
<1>. QED  BY <1>1, DelaysAssumption DEF Delay, Larger

(* The timer after a callback: stopped with init_time_, or set anew.  *)
LEMMA Rearmed ==
  ASSUME TimerTypes, UpdateCallback
  PROVE  /\ average_callback_duration' \in 0 .. Longest
         /\ \/ publish_timer' = None /\ init_time' = None
            \/ /\ publish_timer' \in Nat /\ init_time' \in 0 .. Startup
               /\ publish_timer' >= Delay(average_callback_duration')
<1>1. PICK work \in 0 .. MaxWork :
        /\ average_callback_duration' = (average_callback_duration + work) \div 2
        /\ Rearm(IF init_time = None THEN None ELSE init_time + work)
  BY DEF UpdateCallback
<1>2. average_callback_duration' \in 0 .. Longest
  BY <1>1, AverageBounded DEF TimerTypes
<1>3. average_callback_duration' \in Nat
  BY <1>2, DelayBounds
<1>4. Larger(Refresh, 2 * average_callback_duration') \in Nat
      /\ Larger(Refresh, 2 * average_callback_duration')
           >= Delay(average_callback_duration')
  BY <1>3, RefreshLater
<1>5. CASE init_time = None
  BY <1>1, <1>2, <1>5 DEF Rearm
<1>6. CASE init_time # None
  <2>1. init_time + work \in Nat /\ Startup \in Nat /\ Rearm(init_time + work)
    BY <1>1, <1>6, DelaysAssumption DEF TimerTypes
  <2>. QED  BY <1>2, <1>4, <2>1 DEF Rearm
<1>. QED  BY <1>5, <1>6

LEMMA UpdateTypes ==
  ASSUME ShownTypes, UpdateAll, UNCHANGED <<desiredVars, connected>>
  PROVE  /\ robot_state' \in ArmPoses
         /\ g_collision_points' \subseteq Points /\ markers' \subseteq Points
         /\ current' \in BOOLEAN
         /\ shown_world' \in WorldPoses \cup {None}
         /\ shown_arm' \in ArmPoses \cup {None}
<1>0. shown_world' \in WorldPoses \cup {None}
  BY DEF UpdateAll, PublishWorldState, ShownTypes
<1>1. CASE /\ robot_state' = desired_group_end_link_pose
           /\ PublishRobotState /\ ComputeContacts
  <2>. DEFINE found == Contacts[<<robot_state', desired_world_object_pose>>]
              counted == ~found.collision \/ found.points # {}
              points == IF found.collision THEN found.points ELSE {}
  <2>1. robot_state' \in ArmPoses
    BY <1>1 DEF ShownTypes
  <2>2. points \subseteq Points
    BY <2>1, FoundPoints DEF ShownTypes
  <2>. HIDE DEF found
  <2>3. /\ current' = (connected /\ counted)
        /\ \/ PublishMarkers(points)
           \/ UNCHANGED <<markers, g_collision_points>>
    BY <1>1 DEF ComputeContacts, found
  <2>. HIDE DEF counted, points
  <2>4. g_collision_points' \subseteq Points /\ markers' \subseteq Points
    BY <2>2, <2>3 DEF PublishMarkers, ShownTypes
  <2>5. current' \in BOOLEAN
    BY <2>3, Zenon
  <2>6. shown_arm' \in ArmPoses \cup {None}
    BY <1>1, <2>1 DEF PublishRobotState, ShownTypes
  <2>. QED  BY <1>0, <2>1, <2>4, <2>5, <2>6
<1>2. CASE /\ current' = FALSE
           /\ UNCHANGED <<robot_state, shown_arm, g_collision_points, markers>>
  <2>1. current' \in BOOLEAN
    BY <1>2, Zenon
  <2>. QED  BY <1>0, <1>2, <2>1 DEF ShownTypes
<1>. QED  BY <1>1, <1>2 DEF UpdateAll

LEMMA TypeStep ==
  ASSUME TimerTypes, ShownTypes, [Next]_vars
  PROVE  TimerTypes' /\ ShownTypes'
<1>1. CASE Moved
  BY <1>1, MovedTypes
<1>2. CASE UpdateCallback
  <2>1. /\ average_callback_duration' \in 0 .. Longest
        /\ publish_timer' \in Nat \cup {None}
        /\ init_time' \in (0 .. Startup) \cup {None}
    BY <1>2, Rearmed
  <2>2. TimerTypes'
    BY <1>2, <2>1, DelayBounds DEF UpdateCallback, TimerTypes
  <2>3. asked' \in BOOLEAN
    BY <1>2, Zenon DEF UpdateCallback
  <2>4. ShownTypes'
    BY <1>2, <2>3, UpdateTypes DEF UpdateCallback, desiredVars, ShownTypes
  <2>. QED  BY <2>2, <2>4
<1>3. CASE Connect
  <2>1. connected' \in BOOLEAN
    BY <1>3, Zenon DEF Connect
  <2>. QED
    BY <1>3, <2>1 DEF Connect, desiredVars, timerVars, shownVars, TimerTypes,
                      ShownTypes
<1>4. CASE Tick
  <2>1. last_callback_time' \in 0 .. Horizon /\ rest' \in 0 .. Horizon
    BY <1>4, AfterBounded DEF Tick, TimerTypes
  <2>2. publish_timer' \in Nat \cup {None}
    BY <1>4 DEF Tick, TimerTypes, None
  <2>3. init_time' \in (0 .. Startup) \cup {None}
    BY <1>4, DelaysAssumption DEF Tick, TimerTypes, None
  <2>. QED
    BY <1>4, <2>1, <2>2, <2>3 DEF Tick, desiredVars, shownVars, TimerTypes,
                                  ShownTypes
<1>5. CASE UNCHANGED vars
  BY <1>5 DEF vars, desiredVars, timerVars, shownVars, TimerTypes, ShownTypes
<1>. QED  BY <1>1, <1>2, <1>3, <1>4, <1>5 DEF Next

(* Every variable stays in its type. *)
THEOREM TypeCorrect == Spec => []TypeOK
<1>1. Init => TimerTypes /\ ShownTypes
  BY TypeInit
<1>2. TimerTypes /\ ShownTypes /\ [Next]_vars => TimerTypes' /\ ShownTypes'
  BY TypeStep
<1>. QED  BY <1>1, <1>2, TypeParts, PTL DEF Spec

-----------------------------------------------------------------------------
LEMMA TimerStep ==
  ASSUME TimerTypes, TimerRunsWhenNeeded, [Next]_vars
  PROVE  TimerRunsWhenNeeded'
<1>1. CASE Moved
  <2>1. ScheduleUpdate
    BY <1>1 DEF Moved, MovedRobotMarker, MovedWorldMarker, SetGroupPose,
         SetWorldObjectPose
  <2>2. asked' /\ publish_timer' \in Nat
    BY <2>1, Requested DEF ScheduleUpdate
  <2>. QED  BY <2>2 DEF TimerRunsWhenNeeded, None
<1>2. CASE UpdateCallback
  <2>1. \/ publish_timer' = None /\ init_time' = None
        \/ publish_timer' \in Nat /\ init_time' \in 0 .. Startup
    BY <1>2, Rearmed
  <2>2. ~asked'
    BY <1>2 DEF UpdateCallback
  <2>. QED  BY <2>1, <2>2, DelaysAssumption DEF TimerRunsWhenNeeded, None
<1>3. CASE Connect
  BY <1>3 DEF Connect, timerVars, TimerRunsWhenNeeded
<1>4. CASE Tick
  <2>1. publish_timer' # None <=> publish_timer # None
    BY <1>4 DEF Tick, TimerTypes, None
  <2>2. init_time' # None <=> init_time # None
    BY <1>4, DelaysAssumption DEF Tick, TimerTypes, None
  <2>3. asked' = asked
    BY <1>4 DEF Tick
  <2>. QED  BY <2>1, <2>2, <2>3 DEF TimerRunsWhenNeeded
<1>5. CASE UNCHANGED vars
  BY <1>5 DEF vars, timerVars, TimerRunsWhenNeeded
<1>. QED  BY <1>1, <1>2, <1>3, <1>4, <1>5 DEF Next

(* No request is lost in a stop of the timer, and it stops when none is    *)
(* left and the first seconds are over.                                    *)
THEOREM TimerRuns == Spec => []TimerRunsWhenNeeded
<1>1. Init => TimerRunsWhenNeeded
  <2>. SUFFICES ASSUME Init PROVE TimerRunsWhenNeeded
    OBVIOUS
  <2>1. asked /\ publish_timer = Delay(MinDelay)
    BY DEF Init
  <2>2. Delay(MinDelay) \in Nat
    BY DelaysAssumption, DelayGrows
  <2>. QED  BY <2>1, <2>2 DEF TimerRunsWhenNeeded, None
<1>2. TimerTypes /\ TimerRunsWhenNeeded /\ [Next]_vars => TimerRunsWhenNeeded'
  BY TimerStep
<1>3. TypeOK => TimerTypes
  BY TypeParts
<1>. QED  BY <1>1, <1>2, <1>3, TypeCorrect, PTL DEF Spec

-----------------------------------------------------------------------------
(* What is left to wait, with what has passed since the last callback, is  *)
(* the delay at least; last_callback_time_ is never before that callback.  *)
RateInv ==
  /\ last_callback_time <= rest
  /\ publish_timer # None =>
       publish_timer + rest >= Delay(average_callback_duration)

LEMMA RateStep ==
  ASSUME TimerTypes, RateInv, [Next]_vars
  PROVE  RateInv'
<1>1. /\ last_callback_time \in Nat /\ rest \in Nat /\ rest <= Horizon
      /\ Horizon \in Nat /\ publish_timer \in Nat \cup {None}
      /\ Delay(average_callback_duration) \in Nat
      /\ Delay(average_callback_duration) <= Horizon
  BY DelayBounds DEF TimerTypes
<1>2. CASE Moved
  <2>1. ScheduleUpdate
    BY <1>2 DEF Moved, MovedRobotMarker, MovedWorldMarker, SetGroupPose,
         SetWorldObjectPose
  <2>2. /\ publish_timer' \in Nat /\ last_callback_time' \in 0 .. last_callback_time
        /\ publish_timer' + last_callback_time >= Delay(average_callback_duration)
    BY <2>1, Requested DEF ScheduleUpdate
  <2>3. rest' = rest /\ average_callback_duration' = average_callback_duration
    BY <2>1 DEF ScheduleUpdate
  <2>4. last_callback_time' <= rest' /\
        publish_timer' + rest' >= Delay(average_callback_duration)
    BY <1>1, <2>2, <2>3 DEF RateInv
  <2>. QED  BY <2>3, <2>4 DEF RateInv
<1>3. CASE UpdateCallback
  <2>1. last_callback_time' = 0 /\ rest' = 0
    BY <1>3 DEF UpdateCallback
  <2>2. \/ publish_timer' = None
        \/ /\ publish_timer' \in Nat
           /\ publish_timer' >= Delay(average_callback_duration')
    BY <1>3, Rearmed
  <2>3. Delay(average_callback_duration') \in Nat
    BY <1>3, Rearmed, DelayBounds
  <2>. QED  BY <2>1, <2>2, <2>3 DEF RateInv, None
<1>4. CASE Connect
  BY <1>4 DEF Connect, timerVars, RateInv
<1>5. CASE Tick
  <2>1. /\ last_callback_time' = After(last_callback_time, 1)
        /\ rest' = After(rest, 1)
        /\ average_callback_duration' = average_callback_duration
        /\ publish_timer' = IF publish_timer > 0 THEN publish_timer - 1
                            ELSE publish_timer
    BY <1>5 DEF Tick
  <2>2. last_callback_time' <= rest'
    BY <1>1, <2>1 DEF After, RateInv
  <2>3. ASSUME publish_timer' # None
        PROVE  publish_timer' + rest' >= Delay(average_callback_duration)
    <3>1. publish_timer \in Nat
      BY <1>1, <2>1, <2>3 DEF None
    <3>2. publish_timer + rest >= Delay(average_callback_duration)
      BY <3>1 DEF RateInv, None
    <3>3. CASE rest + 1 < Horizon
      BY <1>1, <2>1, <3>1, <3>2, <3>3 DEF After
    <3>4. CASE ~(rest + 1 < Horizon)
      <4>1. rest' = Horizon /\ publish_timer' \in Nat
        BY <1>1, <2>1, <3>1, <3>4 DEF After
      <4>. QED  BY <1>1, <4>1
    <3>. QED  BY <3>3, <3>4
  <2>. QED  BY <2>1, <2>2, <2>3 DEF RateInv
<1>6. CASE UNCHANGED vars
  BY <1>6 DEF vars, timerVars, RateInv
<1>. QED  BY <1>2, <1>3, <1>4, <1>5, <1>6 DEF Next

(* However requests come in, callbacks keep the distance the average asks  *)
(* for.                                                                    *)
THEOREM RateKept == Spec => []RateLimited
<1>1. Init => RateInv
  <2>. SUFFICES ASSUME Init PROVE RateInv
    OBVIOUS
  <2>1. /\ last_callback_time = 0 /\ rest = 0 /\ average_callback_duration = MinDelay
        /\ publish_timer = Delay(MinDelay)
    BY DEF Init
  <2>2. Delay(MinDelay) \in Nat
    BY DelaysAssumption, DelayGrows
  <2>. QED  BY <2>1, <2>2 DEF RateInv
<1>2. TimerTypes /\ RateInv /\ [Next]_vars => RateInv'
  BY RateStep
<1>3. TimerTypes /\ RateInv => RateLimited
  <2>. SUFFICES ASSUME TimerTypes, RateInv, publish_timer = 0
                PROVE  rest >= Delay(average_callback_duration)
    BY DEF RateLimited
  <2>1. rest \in Nat /\ Delay(average_callback_duration) \in Nat
    BY DelayBounds DEF TimerTypes
  <2>. QED  BY <2>1 DEF RateInv, None
<1>4. TypeOK => TimerTypes
  BY TypeParts
<1>. QED  BY <1>1, <1>2, <1>3, <1>4, TypeCorrect, PTL DEF Spec

-----------------------------------------------------------------------------
(* RViz shows no marker that the next deletion forgets, and none before it *)
(* listens.                                                                *)
MarkersInv ==
  /\ markers \subseteq g_collision_points
  /\ ~connected => markers = {}
  /\ MarkersMatch

LEMMA MarkersUpdate ==
  ASSUME ShownTypes, MarkersInv, UpdateAll, UNCHANGED <<desiredVars, connected>>
  PROVE  MarkersInv'
<1>1. CASE /\ robot_state' = desired_group_end_link_pose
           /\ PublishRobotState /\ ComputeContacts
  <2>. DEFINE found == Contacts[<<robot_state', desired_world_object_pose>>]
              counted == ~found.collision \/ found.points # {}
              points == IF found.collision THEN found.points ELSE {}
  <2>1. /\ current' = (connected /\ counted)
        /\ IF counted THEN PublishMarkers(points)
           ELSE UNCHANGED <<markers, g_collision_points>>
    BY <1>1 DEF ComputeContacts
  <2>2. connected => Outcome(shown_arm', shown_world') = found
    BY <1>1 DEF Outcome, UpdateAll, PublishWorldState, PublishRobotState
  <2>. HIDE DEF found
  <2>3. CASE counted /\ connected
    <3>1. markers' = points /\ g_collision_points' = points /\ connected'
      BY <2>1, <2>3 DEF PublishMarkers, MarkersInv
    <3>2. MarkersMatch'
      BY <2>2, <2>3, <3>1 DEF MarkersMatch
    <3>. QED  BY <3>1, <3>2 DEF MarkersInv
  <2>4. CASE counted /\ ~connected
    <3>1. markers' = {} /\ ~current'
      BY <2>1, <2>4 DEF PublishMarkers, MarkersInv
    <3>. QED  BY <3>1 DEF MarkersInv, MarkersMatch
  <2>5. CASE ~counted
    <3>1. UNCHANGED <<markers, g_collision_points>> /\ ~current'
      BY <2>1, <2>5
    <3>. QED  BY <3>1 DEF MarkersInv, MarkersMatch
  <2>. QED  BY <2>3, <2>4, <2>5
<1>2. CASE /\ current' = FALSE
           /\ UNCHANGED <<robot_state, shown_arm, g_collision_points, markers>>
  BY <1>2 DEF MarkersInv, MarkersMatch
<1>. QED  BY <1>1, <1>2 DEF UpdateAll

LEMMA MarkersStep ==
  ASSUME ShownTypes, MarkersInv, [Next]_vars
  PROVE  MarkersInv'
<1>1. CASE Moved
  BY <1>1 DEF Moved, MovedRobotMarker, MovedWorldMarker, SetGroupPose,
         SetWorldObjectPose, ScheduleUpdate,
              shownVars, MarkersInv, MarkersMatch
<1>2. CASE UpdateCallback
  BY <1>2, MarkersUpdate DEF UpdateCallback
<1>3. CASE Connect
  BY <1>3 DEF Connect, shownVars, MarkersInv, MarkersMatch
<1>4. CASE Tick
  BY <1>4 DEF Tick, shownVars, MarkersInv, MarkersMatch
<1>5. CASE UNCHANGED vars
  BY <1>5 DEF vars, shownVars, MarkersInv, MarkersMatch
<1>. QED  BY <1>1, <1>2, <1>3, <1>4, <1>5 DEF Next

(* The points RViz shows are those of what it shows, for any contacts.     *)
THEOREM MarkersRight == Spec => []MarkersMatch
<1>1. Init => MarkersInv
  BY DEF Init, MarkersInv, MarkersMatch
<1>2. ShownTypes /\ MarkersInv /\ [Next]_vars => MarkersInv'
  BY MarkersStep
<1>3. MarkersInv => MarkersMatch
  BY DEF MarkersInv
<1>4. TypeOK => ShownTypes
  BY TypeParts
<1>. QED  BY <1>1, <1>2, <1>3, <1>4, TypeCorrect, PTL DEF Spec
=============================================================================
