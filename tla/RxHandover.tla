---------------------------- MODULE RxHandover ----------------------------
(***************************************************************************)
(* The nodes of rx90_control that command the simulated arms over topics.  *)
(* main_publisher: arm 1 takes a piece and hands it over to arm 2.  main() *)
(* plays a script of commands and pauses, a second thread has the grippers *)
(* grip and let go by calls of Gazebo's service; the two share the ints    *)
(* alert and end, without a lock.  main_catch: closes the fingers of       *)
(* another arm, over and over again.                                       *)
(*                                                                         *)
(* Time is in seconds.  A pause lasts as long as it says, at least; a      *)
(* call of the service takes CallTime at most; the thread, which polls     *)
(* without rest (sleep(0.2) is sleep(0)), sees a change at once; and the   *)
(* topics are linked to the controllers within LinkTime.  Angles are in    *)
(* hundredths of a radian.                                                 *)
(***************************************************************************)
EXTENDS Integers, Sequences

CONSTANTS
  CallTime,    \* seconds a call of the service takes at most
  LinkTime,    \* seconds after which the controllers listen
  MaxFails     \* bound: calls of the service that fail

ASSUME TimesAssumption == CallTime \in Nat /\ LinkTime \in Nat
ASSUME MaxFailsAssumption == MaxFails \in Nat

ArmTopics == {"arm_1", "arm_2", "elbow_1", "elbow_2", "wrist_1", "wrist_2",
              "shoulder_2"}
FingerTopics == {"lgripper", "rgripper"}
Topics == ArmTopics \cup FingerTopics
Grippers == {1, 2}

VARIABLES
  step, wait,  \* main(): the next step of its script, and the pause before it
  alert, end,
  thread,      \* where the second thread is
  seen,        \* alert, as it read it
  todo,        \* the calls it still has to make
  call, left,  \* the one in progress, and the seconds it may still take
  net,         \* Gazebo: the sum of the efforts at each gripper; > 0 opens it
  fails,       \* history: calls that failed, for each gripper
  linked, age, \* topics the controllers listen to; seconds since the start
  sent, goal,  \* the last value sent on each topic, and that which arrived
  sem,         \* main_catch's
  unheld       \* history: seconds since neither gripper has held the piece

mainVars == <<step, wait>>
threadVars == <<thread, seen, todo>>
callVars == <<call, left, net, fails>>
topicVars == <<linked, sent, goal>>
vars == <<mainVars, alert, end, threadVars, callVars, topicVars, age, sem,
          unheld>>

-----------------------------------------------------------------------------
(* main()'s script: what it sends, which of its variables it sets, and how *)
(* long it sleeps then.                                                    *)
Play(sends, does, pause) == [sends |-> sends, does |-> does, pause |-> pause]
To(topics, value) == [t \in topics |-> value]
Nothing == To({}, 0)

tiempo == 4

Approach ==
  <<Play(To({"arm_1", "arm_2"}, 0), "sleeps", tiempo),
    Play(To({"arm_1", "arm_2"}, -6), "sleeps", tiempo),
    Play(To({"elbow_1", "elbow_2"}, 70), "sleeps", tiempo),
    Play(To({"arm_1", "arm_2"}, -30), "sleeps", tiempo),
    Play(Nothing, "starts", tiempo),
    Play(To({"arm_1", "arm_2"}, 90), "sleeps", tiempo),
    Play(To({"wrist_1", "wrist_2"}, 85), "sleeps", tiempo + 3),
    Play(To({"arm_2"}, 85), "sleeps", tiempo),
    Play(To({"elbow_2"}, 120), "sleeps", tiempo),
    Play(To({"wrist_2"}, 30), "sleeps", tiempo + 1)>>
Alert == Play(Nothing, "alerts", tiempo - 1)
DrawBack == Play([arm_1 |-> 70, elbow_1 |-> -70], "sleeps", tiempo)
Deposit ==
  <<Play(To({"shoulder_2"}, 160), "sleeps", tiempo),
    Play(To({"wrist_2"}, 0), "sleeps", tiempo),
    Play(To({"arm_2"}, -10), "sleeps", tiempo)>>
End == Play(Nothing, "ends", 0)

(* Mutants of Script: the first pause is left out, arm 1 draws back before *)
(* the alert, the end is never told.                                       *)
ScriptAtOnce ==
  <<[Approach[1] EXCEPT !.pause = 0]>> \o Tail(Approach)
  \o <<Alert, DrawBack>> \o Deposit \o <<End>>
ScriptEarly == Approach \o <<DrawBack, Alert>> \o Deposit \o <<End>>
ScriptEndless == Approach \o <<Alert, DrawBack>> \o Deposit
Script == Approach \o <<Alert, DrawBack>> \o Deposit \o <<End>>

Init ==
  /\ step = 1 /\ wait = 0 /\ alert = 0 /\ end = FALSE
  /\ thread = "none" /\ seen = 0 /\ todo = << >>
  /\ call = "none" /\ left = 0
  /\ net = [g \in Grippers |-> 0] /\ fails = [g \in Grippers |-> 0]
  /\ linked = {} /\ age = 0
  /\ sent = [t \in Topics |-> 0] /\ goal = [t \in Topics |-> 0]
  /\ sem = 0 /\ unheld = 0

(* publish: what is sent before a controller listens is lost. *)
Send(values) ==
  /\ sent' = [t \in Topics |-> IF t \in DOMAIN values THEN values[t]
                               ELSE sent[t]]
  /\ goal' = [t \in Topics |-> IF t \in DOMAIN values \cap linked
                               THEN values[t] ELSE goal[t]]
  /\ UNCHANGED linked

Call(g, effort) == [gripper |-> g, effort |-> effort]
(* The thread's first calls, a round of the hand-over, and its last calls. *)
Grip == <<Call(2, 99), Call(1, -99)>>
(* Mutant of Round: the first has gripper 1 let go only. *)
RoundOfOne(n) == IF n = 1 THEN <<Call(1, 100)>>
                 ELSE <<Call(1, 100), Call(2, -150)>>
Round(n) == <<Call(1, 100), Call(2, -150)>>
(* Mutant of LetGo: once only. *)
LetGoOnce == <<Call(1, 100), Call(2, 200)>>
LetGo == <<Call(1, 100), Call(2, 200), Call(1, 100), Call(2, 200)>>

PlayStep ==
  /\ step <= Len(Script) /\ wait = 0
  /\ LET play == Script[step] IN
       /\ Send(play.sends)
       /\ wait' = play.pause
       /\ alert' = IF play.does = "alerts" THEN 1 ELSE alert
       /\ end' = (end \/ play.does = "ends")
       /\ IF play.does = "starts"
          THEN thread' = "calls" /\ todo' = Grip
          ELSE UNCHANGED <<thread, todo>>
  /\ step' = step + 1
  /\ UNCHANGED <<seen, callVars, age, sem, unheld>>

(* garra.join() *)
Join ==
  /\ step = Len(Script) + 1 /\ wait = 0 /\ thread = "done"
  /\ step' = step + 1
  /\ UNCHANGED <<wait, alert, end, threadVars, callVars, topicVars, age, sem,
                 unheld>>

-----------------------------------------------------------------------------
(* The second thread. *)

CallService ==
  /\ thread = "calls" /\ todo # << >> /\ call = "none"
  /\ call' = "asked" /\ left' = CallTime
  /\ UNCHANGED <<mainVars, alert, end, threadVars, net, fails, topicVars, age,
                 sem, unheld>>

(* External, Gazebo: an effort of duration -1 lasts, and adds to those     *)
(* before it; or the call fails, which the thread does not look at.        *)
Serve ==
  /\ call = "asked"
  /\ LET g == Head(todo).gripper IN
       \/ net' = [net EXCEPT ![g] = @ + Head(todo).effort] /\ UNCHANGED fails
       \/ /\ fails[1] + fails[2] < MaxFails
          /\ fails' = [fails EXCEPT ![g] = @ + 1]
          /\ UNCHANGED net
  /\ call' = "answered"
  /\ UNCHANGED <<mainVars, alert, end, threadVars, left, topicVars, age, sem,
                 unheld>>

CallReturns ==
  /\ call = "answered"
  /\ call' = "none" /\ todo' = Tail(todo)
  /\ UNCHANGED <<mainVars, alert, end, thread, seen, left, net, fails,
                 topicVars, age, sem, unheld>>

(* Mutant of CallsMade: alert counts on after the last calls as well. *)
CallsMadeCounting ==
  /\ thread = "calls" /\ todo = << >>
  /\ alert' = IF seen # 0 THEN seen + 1 ELSE alert
  /\ thread' = IF seen = 3 THEN "done" ELSE "polls"
  /\ seen' = 0
  /\ UNCHANGED <<mainVars, end, todo, callVars, topicVars, age, sem, unheld>>

(* After a round alert counts on; after the last calls the thread is over. *)
CallsMade ==
  /\ thread = "calls" /\ todo = << >>
  /\ alert' = IF seen \in {1, 2} THEN seen + 1 ELSE alert
  /\ thread' = IF seen = 3 THEN "done" ELSE "polls"
  /\ seen' = 0
  /\ UNCHANGED <<mainVars, end, todo, callVars, topicVars, age, sem, unheld>>

(* while(!end) *)
TestEnd ==
  /\ thread = "polls"
  /\ IF end THEN thread' = "calls" /\ todo' = LetGo /\ seen' = 3
     ELSE thread' = "looks" /\ UNCHANGED <<todo, seen>>
  /\ UNCHANGED <<mainVars, alert, end, callVars, topicVars, age, sem, unheld>>

(* if(alert==1) ... else if(alert==2) *)
TestAlert ==
  /\ thread = "looks"
  /\ IF alert \in {1, 2}
     THEN thread' = "calls" /\ todo' = Round(alert) /\ seen' = alert
     ELSE thread' = "polls" /\ UNCHANGED <<todo, seen>>
  /\ UNCHANGED <<mainVars, alert, end, callVars, topicVars, age, sem, unheld>>

SecondThread ==
  CallService \/ Serve \/ CallReturns \/ CallsMade \/ TestEnd \/ TestAlert

-----------------------------------------------------------------------------
(* main_catch: one turn of its loop. *)

(* Mutant of Catch: it publishes in its first turn only. *)
CatchOnce ==
  /\ sem' = 1
  /\ IF sem = 0 THEN Send([lgripper |-> 20, rgripper |-> -20])
     ELSE UNCHANGED topicVars
  /\ UNCHANGED <<mainVars, alert, end, threadVars, callVars, age, unheld>>

Catch ==
  /\ sem' = 1
  /\ Send([lgripper |-> 20, rgripper |-> -20])
  /\ UNCHANGED <<mainVars, alert, end, threadVars, callVars, age, unheld>>

(* External: a controller's subscription reaches its publisher. *)
Link(t) ==
  /\ t \notin linked /\ linked' = linked \cup {t}
  /\ UNCHANGED <<mainVars, alert, end, threadVars, callVars, sent, goal, age,
                 sem, unheld>>

(* A second passes.  It cannot while something is due at once, or overdue. *)
Busy ==
  \/ thread = "calls" /\ (call = "none" \/ left = 0)
  \/ thread \in {"polls", "looks"} /\ (end \/ alert \in {1, 2})
Unheld == alert # 0 /\ ~end /\ net[1] >= 0 /\ net[2] >= 0
Tick ==
  /\ ~Busy
  /\ age = LinkTime => ArmTopics \subseteq linked
  /\ age' = IF age < LinkTime THEN age + 1 ELSE age
  /\ wait' = IF wait > 0 THEN wait - 1 ELSE 0
  /\ left' = IF left > 0 THEN left - 1 ELSE 0
  /\ unheld' = IF ~Unheld THEN 0
               ELSE IF unheld <= 2 * CallTime THEN unheld + 1 ELSE unheld
  /\ UNCHANGED <<step, alert, end, threadVars, call, net, fails, topicVars, sem>>

MainThread == PlayStep \/ Join
Next ==
  \/ MainThread \/ SecondThread \/ Catch \/ Tick
  \/ \E t \in Topics : Link(t)

Spec == Init /\ [][Next]_vars

(* The threads, the loop of main_catch, the service, the links and time go *)
(* on.                                                                     *)
FairSpec ==
  /\ Spec
  /\ WF_vars(MainThread) /\ WF_vars(SecondThread) /\ WF_vars(Catch)
  /\ WF_vars(Tick) /\ \A t \in Topics : WF_vars(Link(t))

-----------------------------------------------------------------------------
Calls == [gripper : Grippers, effort : Int]

(* Every variable stays in its type. *)
TypeOK ==
  /\ step \in 1 .. Len(Script) + 2 /\ wait \in Nat
  /\ alert \in 0 .. 3 /\ end \in BOOLEAN
  /\ thread \in {"none", "calls", "polls", "looks", "done"}
  /\ seen \in 0 .. 3 /\ todo \in Seq(Calls)
  /\ call \in {"none", "asked", "answered"} /\ left \in Nat
  /\ call # "none" => thread = "calls" /\ todo # << >>
  /\ net \in [Grippers -> Int] /\ fails \in [Grippers -> Nat]
  /\ linked \subseteq Topics /\ age \in Nat
  /\ sent \in [Topics -> Int] /\ goal \in [Topics -> Int]
  /\ sem \in {0, 1} /\ unheld \in Nat

(* Every command of the script reaches its joint, however late, within     *)
(* LinkTime, its controller listens: only the first, for the position the  *)
(* arms start in, may be sent to nobody.                                   *)
CommandsArrive == \A t \in ArmTopics : goal[t] = sent[t]

(* Arm 1 draws back when gripper 1 has let the piece go and gripper 2 has  *)
(* gripped it, if no call failed: main() does not wait for the second      *)
(* thread, it only sleeps.                                                 *)
HandedOver ==
  [][sent["elbow_1"] = 70 /\ sent'["elbow_1"] = -70 /\ fails = [g \in Grippers |-> 0]
       => net[1] > 0 /\ net[2] < 0]_vars

(* Between the grippers the piece is held by neither for the time of two   *)
(* calls at most.                                                          *)
BrieflyUnheld == fails = [g \in Grippers |-> 0] => unheld <= 2 * CallTime

(* When main_publisher is over both grippers are open, although the        *)
(* efforts of all the rounds add up: gripper 1 even if three calls of the  *)
(* service failed, gripper 2 if none of its calls did.                     *)
ReleasedAtEnd ==
  step = Len(Script) + 2 =>
    /\ fails[1] <= 3 => net[1] > 0
    /\ fails[2] = 0 => net[2] > 0

(* main_publisher comes to its end: the second thread sees that it has to. *)
Terminates == <>(step = Len(Script) + 2)

(* The fingers of main_catch's arm are told to close, whenever their       *)
(* controllers begin to listen.                                            *)
CatchArrives == <>[](goal["lgripper"] = 20 /\ goal["rgripper"] = -20)
=============================================================================
