------------------------- MODULE RxHandoverProofs -------------------------
(***************************************************************************)
(* Theorems about RxHandover, for any times of the calls and the links and *)
(* any number of failed calls: no command is lost, and, under a bound on   *)
(* how long a call takes, the piece goes from one gripper to the other.    *)
(***************************************************************************)
EXTENDS RxHandover, SequenceTheorems, TLAPS

(* Of a sequence put together as Script is, the first element. *)
LEMMA FirstOfConcat ==
  ASSUME NEW S, NEW s \in Seq(S), NEW t \in Seq(S), Len(s) >= 2
  PROVE  (s \o t) \in Seq(S) /\ Len(s \o t) >= 2 /\ (s \o t)[1] = s[1]
BY ConcatProperties, LenProperties

(* The first step of Script, and that there are more. *)
LEMMA FirstPlay ==
  /\ Script[1] = Play(To({"arm_1", "arm_2"}, 0), "sleeps", tiempo)
  /\ Len(Script) \in Nat /\ Len(Script) >= 2
<1>. DEFINE a == Play(To({"arm_1", "arm_2"}, 0), "sleeps", tiempo)
            b == Play(To({"arm_1", "arm_2"}, -6), "sleeps", tiempo)
            c == Play(To({"elbow_1", "elbow_2"}, 70), "sleeps", tiempo)
            d == Play(To({"arm_1", "arm_2"}, -30), "sleeps", tiempo)
            e == Play(Nothing, "starts", tiempo)
            f == Play(To({"arm_1", "arm_2"}, 90), "sleeps", tiempo)
            g == Play(To({"wrist_1", "wrist_2"}, 85), "sleeps", tiempo + 3)
            h == Play(To({"arm_2"}, 85), "sleeps", tiempo)
            i == Play(To({"elbow_2"}, 120), "sleeps", tiempo)
            j == Play(To({"wrist_2"}, 30), "sleeps", tiempo + 1)
            m == Play(To({"shoulder_2"}, 160), "sleeps", tiempo)
            n == Play(To({"wrist_2"}, 0), "sleeps", tiempo)
            o == Play(To({"arm_2"}, -10), "sleeps", tiempo)
            S == {a, b, c, d, e, f, g, h, i, j, Alert, DrawBack, m, n, o, End}
            s == <<a, b, c, d, e, f, g, h, i, j>>
            t == <<Alert, DrawBack>>
            u == <<m, n, o>>
<1>1. Script = s \o t \o u \o <<End>>
  BY DEF Script, Approach, Deposit
<1>2. a = Play(To({"arm_1", "arm_2"}, 0), "sleeps", tiempo)
  OBVIOUS
<1>. HIDE DEF a, b, c, d, e, f, g, h, i, j, m, n, o
<1>3. s \in Seq(S)
  OBVIOUS
<1>4. t \in Seq(S) /\ u \in Seq(S) /\ <<End>> \in Seq(S)
  OBVIOUS
<1>5. Len(s) >= 2 /\ s[1] = a
  OBVIOUS
<1>. HIDE DEF S, s, t, u
<1>6. s \o t \in Seq(S) /\ Len(s \o t) >= 2 /\ (s \o t)[1] = a
  BY <1>3, <1>4, <1>5, FirstOfConcat
<1>7. /\ s \o t \o u \in Seq(S) /\ Len(s \o t \o u) >= 2
      /\ (s \o t \o u)[1] = a
  BY <1>4, <1>6, FirstOfConcat
<1>8. Script \in Seq(S) /\ Len(Script) >= 2 /\ Script[1] = a
  BY <1>1, <1>4, <1>7, FirstOfConcat
<1>9. Len(Script) \in Nat
  BY <1>8, LenProperties
<1>. QED  BY <1>2, <1>8, <1>9, Zenon

-----------------------------------------------------------------------------
ArmsLinked == ArmTopics \subseteq linked

(* Nothing but a zero is sent before the first pause, and the first pause  *)
(* is not over before the topics are linked.                               *)
LinkInv ==
  /\ step \in Nat \ {0} /\ age \in Nat /\ age <= LinkTime
  /\ step = 1 => wait = 0 /\ \A t \in ArmTopics : sent[t] = 0
  /\ step = 2 => wait \in Nat /\ (ArmsLinked \/ age + wait >= tiempo)
  /\ step > 2 => ArmsLinked
  /\ CommandsArrive

(* What is sent when every topic of the arms is linked arrives. *)
LEMMA SentArrives ==
  ASSUME NEW values, Send(values), ArmsLinked, CommandsArrive
  PROVE  CommandsArrive' /\ ArmsLinked'
<1>. SUFFICES ASSUME NEW t \in ArmTopics PROVE goal'[t] = sent'[t]
  BY DEF CommandsArrive, ArmsLinked, Send
<1>1. t \in Topics /\ t \in linked /\ goal[t] = sent[t]
  BY DEF ArmsLinked, Topics, CommandsArrive
<1>. QED  BY <1>1 DEF Send

LEMMA LinkPlay ==
  ASSUME LinkTime < tiempo, LinkInv, PlayStep
  PROVE  LinkInv'
<1>1. /\ step \in Nat \ {0} /\ wait = 0 /\ step' = step + 1 /\ age' = age
      /\ Send(Script[step].sends) /\ wait' = Script[step].pause
  BY DEF PlayStep, LinkInv
<1>2. CASE step = 1
  <2>. DEFINE sends == To({"arm_1", "arm_2"}, 0)
  <2>0. Script[step] = Play(sends, "sleeps", tiempo)
    BY <1>2, FirstPlay, Zenon
  <2>1. Script[step].sends = sends /\ Script[step].pause = tiempo
    <3>. HIDE DEF sends
    <3>1. ASSUME NEW p, p = Play(sends, "sleeps", tiempo)
          PROVE  p.sends = sends /\ p.pause = tiempo
      BY <3>1 DEF Play
    <3>. QED  BY <2>0, <3>1, Zenon
  <2>2. ASSUME NEW t \in ArmTopics PROVE goal'[t] = sent'[t]
    <3>1. t \in Topics /\ goal[t] = 0 /\ sent[t] = 0
      BY <1>2 DEF Topics, LinkInv, CommandsArrive
    <3>2. sent'[t] = 0 /\ goal'[t] = 0
      BY <1>1, <2>1, <3>1 DEF Send, To
    <3>. QED  BY <3>2
  <2>3. step' = 2 /\ wait' = tiempo
    BY <1>1, <1>2, <2>1
  <2>. QED
    BY <1>1, <2>2, <2>3 DEF LinkInv, CommandsArrive, tiempo
<1>3. CASE step # 1
  <2>1. ArmsLinked
    BY <1>1, <1>3, TimesAssumption DEF LinkInv, tiempo
  <2>2. CommandsArrive' /\ ArmsLinked'
    BY <1>1, <2>1, SentArrives DEF LinkInv
  <2>3. step' \in Nat \ {0} /\ step' > 2
    BY <1>1, <1>3
  <2>. QED  BY <1>1, <2>2, <2>3 DEF LinkInv
<1>. QED  BY <1>2, <1>3

LEMMA LinkTick ==
  ASSUME LinkInv, Tick
  PROVE  LinkInv'
<1>1. /\ step' = step /\ sent' = sent /\ goal' = goal /\ linked' = linked
      /\ age = LinkTime => ArmsLinked
      /\ age' = IF age < LinkTime THEN age + 1 ELSE age
      /\ wait' = IF wait > 0 THEN wait - 1 ELSE 0
  BY DEF Tick, topicVars, ArmsLinked
<1>2. age' \in Nat /\ age' <= LinkTime
  BY <1>1, TimesAssumption DEF LinkInv
<1>3. step = 1 => wait' = 0
  BY <1>1 DEF LinkInv
<1>4. ASSUME step = 2
      PROVE  wait' \in Nat /\ (ArmsLinked \/ age' + wait' >= tiempo)
  BY <1>1, <1>4, TimesAssumption DEF LinkInv, tiempo
<1>5. CommandsArrive' /\ (ArmsLinked' <=> ArmsLinked)
  BY <1>1 DEF LinkInv, CommandsArrive, ArmsLinked
<1>. QED  BY <1>1, <1>2, <1>3, <1>4, <1>5 DEF LinkInv

LEMMA LinkStep ==
  ASSUME LinkTime < tiempo, LinkInv, [Next]_vars
  PROVE  LinkInv'
<1>1. CASE PlayStep
  BY <1>1, LinkPlay
<1>2. CASE Join
  <2>1. step' = step + 1 /\ step > 2
    <3>1. ASSUME NEW n \in Nat, n >= 2, step = n + 1 PROVE step > 2
      BY <3>1
    <3>. QED  BY <1>2, <3>1, FirstPlay, Zenon DEF Join
  <2>. QED
    BY <1>2, <2>1 DEF Join, topicVars, LinkInv, CommandsArrive, ArmsLinked
<1>3. CASE SecondThread
  <2>1. UNCHANGED <<mainVars, topicVars, age>>
    BY <1>3 DEF SecondThread, CallService, Serve, CallReturns, CallsMade,
                TestEnd, TestAlert
  <2>. QED
    BY <2>1 DEF mainVars, topicVars, LinkInv, CommandsArrive, ArmsLinked
<1>4. CASE Catch
  <2>1. UNCHANGED <<step, wait, age, linked>>
    BY <1>4 DEF Catch, Send, mainVars
  <2>2. ASSUME NEW t \in ArmTopics PROVE sent'[t] = sent[t] /\ goal'[t] = goal[t]
    BY <1>4 DEF Catch, Send, ArmTopics, Topics
  <2>. QED  BY <2>1, <2>2 DEF LinkInv, CommandsArrive, ArmsLinked
<1>5. CASE Tick
  BY <1>5, LinkTick
<1>6. ASSUME NEW t \in Topics, Link(t) PROVE LinkInv'
  BY <1>6 DEF Link, mainVars, LinkInv, CommandsArrive, ArmsLinked
<1>7. CASE UNCHANGED vars
  BY <1>7 DEF vars, mainVars, topicVars, LinkInv, CommandsArrive, ArmsLinked
<1>. QED
  BY <1>1, <1>2, <1>3, <1>4, <1>5, <1>6, <1>7 DEF Next, MainThread

(* However late, before the first pause ends, each topic is linked, no     *)
(* command of the script is lost but zeros sent to arms that are at zero.  *)
THEOREM CommandsNeverLost ==
  ASSUME LinkTime < tiempo
  PROVE  Spec => []CommandsArrive
<1>1. Init => LinkInv
  BY TimesAssumption DEF Init, LinkInv, CommandsArrive, Topics
<1>2. LinkInv /\ [Next]_vars => LinkInv'
  BY LinkStep
<1>3. LinkInv => CommandsArrive
  BY DEF LinkInv
<1>. QED  BY <1>1, <1>2, <1>3, PTL DEF Spec

-----------------------------------------------------------------------------
(* The whole script: the pause of each step, what main() does at it, and   *)
(* what it may send.                                                       *)
Pauses == <<4, 4, 4, 4, 4, 4, 7, 4, 4, 5, 3, 4, 4, 4, 4, 0>>
Does == [i \in 1 .. 16 |-> IF i = 5 THEN "starts"
                           ELSE IF i = 11 THEN "alerts"
                           ELSE IF i = 16 THEN "ends" ELSE "sleeps"]

(* A play that can be the step i of the script. *)
IsPlay(i, p) ==
  /\ p.pause = Pauses[i] /\ p.does = Does[i]
  /\ p.sends \in UNION {[D -> Int] : D \in SUBSET ArmTopics}
  /\ i # 12 /\ "elbow_1" \in DOMAIN p.sends => p.sends["elbow_1"] = 70

Sends == UNION {[D -> Int] : D \in SUBSET ArmTopics}

LEMMA PlayFits ==
  ASSUME NEW i \in 1 .. 16, NEW sends, NEW does, NEW pause,
         pause = Pauses[i], does = Does[i], sends \in Sends,
         i # 12 /\ "elbow_1" \in DOMAIN sends => sends["elbow_1"] = 70
  PROVE  IsPlay(i, Play(sends, does, pause))
BY DEF IsPlay, Play, Sends

LEMMA ToFits ==
  ASSUME NEW D \in SUBSET ArmTopics, NEW v \in Int
  PROVE  /\ To(D, v) \in Sends /\ DOMAIN To(D, v) = D
         /\ \A t \in D : To(D, v)[t] = v
BY DEF To, Sends

LEMMA DoesWhat ==
  /\ Does[1] = "sleeps" /\ Does[2] = "sleeps" /\ Does[3] = "sleeps"
  /\ Does[4] = "sleeps" /\ Does[6] = "sleeps" /\ Does[7] = "sleeps"
  /\ Does[8] = "sleeps" /\ Does[9] = "sleeps" /\ Does[10] = "sleeps"
  /\ Does[12] = "sleeps" /\ Does[13] = "sleeps" /\ Does[14] = "sleeps"
  /\ Does[15] = "sleeps"
  /\ Does[5] = "starts" /\ Does[11] = "alerts" /\ Does[16] = "ends"
BY DEF Does

LEMMA ApproachPlays ==
  /\ Len(Approach) = 10 /\ Approach \in Seq({Approach[i] : i \in 1 .. 10})
  /\ \A i \in 1 .. 10 : IsPlay(i, Approach[i])
<1>. DEFINE arms == {"arm_1", "arm_2"}      elbows == {"elbow_1", "elbow_2"}
            wrists == {"wrist_1", "wrist_2"}
            arm == {"arm_2"}  elbow == {"elbow_2"}  wrist == {"wrist_2"}
            none == {}
            p1 == Play(To(arms, 0), "sleeps", tiempo)
            p2 == Play(To(arms, -6), "sleeps", tiempo)
            p3 == Play(To(elbows, 70), "sleeps", tiempo)
            p4 == Play(To(arms, -30), "sleeps", tiempo)
            p5 == Play(To(none, 0), "starts", tiempo)
            p6 == Play(To(arms, 90), "sleeps", tiempo)
            p7 == Play(To(wrists, 85), "sleeps", tiempo + 3)
            p8 == Play(To(arm, 85), "sleeps", tiempo)
            p9 == Play(To(elbow, 120), "sleeps", tiempo)
            p10 == Play(To(wrist, 30), "sleeps", tiempo + 1)
            Rest == SUBSET (ArmTopics \ {"elbow_1"})
<1>1. Approach = <<p1, p2, p3, p4, p5, p6, p7, p8, p9, p10>>
  BY DEF Approach, Nothing
<1>2. /\ arms \in Rest /\ wrists \in Rest /\ arm \in Rest /\ elbow \in Rest
      /\ wrist \in Rest /\ none \in Rest
      /\ elbows \in SUBSET ArmTopics /\ "elbow_1" \in elbows
  BY DEF ArmTopics
<1>. HIDE DEF arms, elbows, wrists, arm, elbow, wrist, none
<1>3. /\ tiempo = Pauses[1] /\ tiempo = Pauses[2] /\ tiempo = Pauses[3]
      /\ tiempo = Pauses[4] /\ tiempo = Pauses[5] /\ tiempo = Pauses[6]
      /\ tiempo + 3 = Pauses[7] /\ tiempo = Pauses[8] /\ tiempo = Pauses[9]
      /\ tiempo + 1 = Pauses[10]
  BY DEF Pauses, tiempo
<1>4. ASSUME NEW n \in 1 .. 10, n # 3, NEW D \in Rest,
             NEW v \in Int, NEW does, does = Does[n], NEW pause, pause = Pauses[n]
      PROVE  IsPlay(n, Play(To(D, v), does, pause))
  <2>1. To(D, v) \in Sends /\ "elbow_1" \notin DOMAIN To(D, v)
    BY ToFits
  <2>. QED  BY <1>4, <2>1, PlayFits
<1>5. IsPlay(3, p3)
  <2>1. To(elbows, 70) \in Sends /\ To(elbows, 70)["elbow_1"] = 70
    BY <1>2, ToFits
  <2>2. 3 \in 1 .. 16
    OBVIOUS
  <2>. QED  BY <1>3, <2>1, <2>2, DoesWhat, PlayFits
<1>6. IsPlay(1, p1) /\ IsPlay(2, p2)
  <2>1. 1 \in 1 .. 10 /\ 2 \in 1 .. 10 /\ 0 \in Int /\ -6 \in Int
    OBVIOUS
  <2>. QED  BY <1>2, <1>3, <1>4, <2>1, DoesWhat
<1>7. IsPlay(4, p4) /\ IsPlay(6, p6) /\ IsPlay(5, p5)
  <2>1. /\ 4 \in 1 .. 10 /\ 5 \in 1 .. 10 /\ 6 \in 1 .. 10
        /\ -30 \in Int /\ 0 \in Int /\ 90 \in Int
    OBVIOUS
  <2>. QED  BY <1>2, <1>3, <1>4, <2>1, DoesWhat
<1>8. IsPlay(7, p7) /\ IsPlay(8, p8) /\ IsPlay(9, p9) /\ IsPlay(10, p10)
  <2>1. /\ 7 \in 1 .. 10 /\ 8 \in 1 .. 10 /\ 9 \in 1 .. 10 /\ 10 \in 1 .. 10
        /\ 85 \in Int /\ 120 \in Int /\ 30 \in Int
    OBVIOUS
  <2>. QED  BY <1>2, <1>3, <1>4, <2>1, DoesWhat
<1>. HIDE DEF p1, p2, p3, p4, p5, p6, p7, p8, p9, p10
<1>9. Len(Approach) = 10 /\ Approach \in Seq({Approach[n] : n \in 1 .. 10})
  BY <1>1
<1>10. \A n \in 1 .. 10 : IsPlay(n, Approach[n])
  BY <1>1, <1>5, <1>6, <1>7, <1>8
<1>. QED  BY <1>9, <1>10
LEMMA AlertPlays == IsPlay(11, Alert) /\ IsPlay(12, DrawBack)
<1>1. IsPlay(11, Alert)
  <2>1. Nothing \in Sends /\ DOMAIN Nothing = {}
    BY ToFits DEF Nothing
  <2>2. 11 \in 1 .. 16 /\ tiempo - 1 = Pauses[11]
    BY DEF tiempo, Pauses
  <2>. QED  BY <2>1, <2>2, DoesWhat, PlayFits DEF Alert
<1>2. IsPlay(12, DrawBack)
  <2>1. [arm_1 |-> 70, elbow_1 |-> -70] \in Sends
    BY DEF Sends, ArmTopics
  <2>. HIDE DEF Sends
  <2>2. 12 \in 1 .. 16 /\ tiempo = Pauses[12]
    BY DEF tiempo, Pauses
  <2>. QED  BY <2>1, <2>2, DoesWhat, PlayFits DEF DrawBack
<1>. QED  BY <1>1, <1>2

LEMMA DepositPlays ==
  /\ Len(Deposit) = 3 /\ Deposit \in Seq({Deposit[i] : i \in 1 .. 3})
  /\ IsPlay(13, Deposit[1]) /\ IsPlay(14, Deposit[2]) /\ IsPlay(15, Deposit[3])
  /\ IsPlay(16, End)
<1>. DEFINE shoulder == {"shoulder_2"}  wrist == {"wrist_2"}  arm == {"arm_2"}
            p1 == Play(To(shoulder, 160), "sleeps", tiempo)
            p2 == Play(To(wrist, 0), "sleeps", tiempo)
            p3 == Play(To(arm, -10), "sleeps", tiempo)
            Rest == SUBSET (ArmTopics \ {"elbow_1"})
<1>1. Deposit = <<p1, p2, p3>>
  BY DEF Deposit
<1>2. shoulder \in Rest /\ wrist \in Rest /\ arm \in Rest /\ {} \in Rest
  BY DEF ArmTopics
<1>. HIDE DEF shoulder, wrist, arm
<1>3. /\ tiempo = Pauses[13] /\ tiempo = Pauses[14] /\ tiempo = Pauses[15]
      /\ 0 = Pauses[16]
  BY DEF Pauses, tiempo
<1>4. ASSUME NEW n \in 13 .. 16, NEW D \in Rest,
             NEW v \in Int, NEW does, does = Does[n], NEW pause, pause = Pauses[n]
      PROVE  IsPlay(n, Play(To(D, v), does, pause))
  <2>1. To(D, v) \in Sends /\ "elbow_1" \notin DOMAIN To(D, v)
    BY ToFits
  <2>2. n \in 1 .. 16
    OBVIOUS
  <2>. QED  BY <1>4, <2>1, <2>2, PlayFits
<1>5. IsPlay(13, p1) /\ IsPlay(14, p2) /\ IsPlay(15, p3)
  <2>1. /\ 13 \in 13 .. 16 /\ 14 \in 13 .. 16 /\ 15 \in 13 .. 16
        /\ 160 \in Int /\ 0 \in Int /\ -10 \in Int
    OBVIOUS
  <2>. QED  BY <1>2, <1>3, <1>4, <2>1, DoesWhat
<1>6. IsPlay(16, End)
  <2>1. 16 \in 13 .. 16 /\ 0 \in Int
    OBVIOUS
  <2>. QED  BY <1>2, <1>3, <1>4, <2>1, DoesWhat DEF End, Nothing
<1>. HIDE DEF p1, p2, p3
<1>. QED  BY <1>1, <1>5, <1>6

(* Two sequences, one after the other. *)
LEMMA Earlier ==
  ASSUME NEW S, NEW s \in Seq(S), NEW t \in Seq(S)
  PROVE  /\ s \o t \in Seq(S) /\ Len(s \o t) = Len(s) + Len(t)
         /\ \A i \in 1 .. Len(s) : (s \o t)[i] = s[i]
<1>1. /\ s \o t \in Seq(S) /\ Len(s \o t) = Len(s) + Len(t)
      /\ \A i \in 1 .. Len(s) + Len(t) :
           (s \o t)[i] = IF i <= Len(s) THEN s[i] ELSE t[i - Len(s)]
  BY ConcatProperties, Zenon
<1>2. PICK m \in Nat, n \in Nat : m = Len(s) /\ n = Len(t)
  BY LenProperties
<1>3. ASSUME NEW i \in 1 .. m PROVE (s \o t)[i] = s[i]
  <2>1. i \in 1 .. m + n /\ i <= m
    OBVIOUS
  <2>. QED  BY <1>1, <1>2, <2>1, Zenon
<1>. QED  BY <1>1, <1>2, <1>3, Zenon

LEMMA Later ==
  ASSUME NEW S, NEW s \in Seq(S), NEW t \in Seq(S),
         NEW j \in 1 .. Len(s) + Len(t), ~ (j <= Len(s))
  PROVE  (s \o t)[j] = t[j - Len(s)]
<1>1. \A k \in 1 .. Len(s) + Len(t) :
        (s \o t)[k] = IF k <= Len(s) THEN s[k] ELSE t[k - Len(s)]
  BY ConcatProperties, Zenon
<1>. QED  BY <1>1, Zenon

LEMMA ScriptPlays ==
  /\ Len(Script) = 16
  /\ \A i \in 1 .. 16 : IsPlay(i, Script[i])
<1>. DEFINE a == Approach  t == <<Alert, DrawBack>>  u == Deposit  w == <<End>>
            S == {a[i] : i \in 1 .. 10} \cup {Alert, DrawBack}
                   \cup {u[i] : i \in 1 .. 3} \cup {End}
            b == a \o t
            c == b \o u
<1>1. Script = c \o w
  BY DEF Script
<1>2. /\ a \in Seq(S) /\ Len(a) = 10 /\ u \in Seq(S) /\ Len(u) = 3
  BY ApproachPlays, DepositPlays
<1>3. /\ t \in Seq(S) /\ Len(t) = 2 /\ w \in Seq(S) /\ Len(w) = 1
      /\ t[1] = Alert /\ t[2] = DrawBack /\ w[1] = End
  OBVIOUS
<1>4. /\ \A i \in 1 .. 10 : IsPlay(i, a[i])
      /\ IsPlay(11, t[1]) /\ IsPlay(12, t[2])
      /\ IsPlay(13, u[1]) /\ IsPlay(14, u[2]) /\ IsPlay(15, u[3])
      /\ IsPlay(16, w[1])
  BY <1>3, ApproachPlays, AlertPlays, DepositPlays
<1>. HIDE DEF a, t, u, w, S
<1>6. /\ b \in Seq(S) /\ Len(b) = 12
      /\ \A i \in 1 .. 10 : b[i] = a[i]
      /\ b[11] = t[1] /\ b[12] = t[2]
  <2>1. /\ b \in Seq(S) /\ Len(b) = Len(a) + Len(t)
        /\ \A i \in 1 .. Len(a) : b[i] = a[i]
    BY <1>2, <1>3, Earlier, Zenon
  <2>2. ASSUME NEW j \in {11, 12} PROVE b[j] = t[j - 10]
    <3>1. j \in 1 .. Len(a) + Len(t) /\ ~ (j <= Len(a))
      BY <1>2, <1>3
    <3>2. b[j] = t[j - Len(a)]
      BY <1>2, <1>3, <3>1, Later
    <3>. QED  BY <1>2, <3>2, Zenon
  <2>. HIDE DEF b
  <2>3. 11 - 10 = 1 /\ 12 - 10 = 2 /\ Len(a) + Len(t) = 12
    BY <1>2, <1>3
  <2>. QED  BY <1>2, <1>3, <2>1, <2>2, <2>3, Zenon
<1>. HIDE DEF b
<1>7. /\ c \in Seq(S) /\ Len(c) = 15
      /\ \A i \in 1 .. 12 : c[i] = b[i]
      /\ c[13] = u[1] /\ c[14] = u[2] /\ c[15] = u[3]
  <2>1. /\ c \in Seq(S) /\ Len(c) = Len(b) + Len(u)
        /\ \A i \in 1 .. Len(b) : c[i] = b[i]
    BY <1>2, <1>6, Earlier, ZenonT(60)
  <2>2. ASSUME NEW j \in {13, 14, 15} PROVE c[j] = u[j - 12]
    <3>1. j \in 1 .. Len(b) + Len(u) /\ ~ (j <= Len(b))
      BY <1>2, <1>6
    <3>2. c[j] = u[j - Len(b)]
      BY <1>2, <1>6, <3>1, Later
    <3>. QED  BY <1>6, <3>2, Zenon
  <2>. HIDE DEF c
  <2>3. 13 - 12 = 1 /\ 14 - 12 = 2 /\ 15 - 12 = 3 /\ Len(b) + Len(u) = 15
    BY <1>2, <1>6
  <2>. QED  BY <1>2, <1>6, <2>1, <2>2, <2>3, Zenon
<1>. HIDE DEF c
<1>8. /\ Len(Script) = 16 /\ \A i \in 1 .. 15 : Script[i] = c[i]
      /\ Script[16] = w[1]
  <2>1. /\ Len(Script) = Len(c) + Len(w)
        /\ \A i \in 1 .. Len(c) : Script[i] = c[i]
    BY <1>1, <1>3, <1>7, Earlier, ZenonT(60)
  <2>2. Script[16] = w[16 - 15]
    <3>1. 16 \in 1 .. Len(c) + Len(w) /\ ~ (16 <= Len(c))
      BY <1>3, <1>7
    <3>2. Script[16] = w[16 - Len(c)]
      BY <1>1, <1>3, <1>7, <3>1, Later
    <3>. QED  BY <1>7, <3>2, Zenon
  <2>3. 16 - 15 = 1 /\ Len(c) + Len(w) = 16
    BY <1>3, <1>7
  <2>. QED  BY <1>3, <1>7, <2>1, <2>2, <2>3, Zenon
<1>9. ASSUME NEW i \in 1 .. 16 PROVE IsPlay(i, Script[i])
  <2>1. CASE i \in 1 .. 10
    <3>1. i \in 1 .. 15 /\ i \in 1 .. 12
      BY <2>1
    <3>2. Script[i] = a[i]
      BY <1>6, <1>7, <1>8, <2>1, <3>1, Zenon
    <3>. QED  BY <1>4, <2>1, <3>2, Zenon
  <2>2. CASE i \in {11, 12}
    <3>1. 11 \in 1 .. 12 /\ 12 \in 1 .. 12 /\ 11 \in 1 .. 15 /\ 12 \in 1 .. 15
      OBVIOUS
    <3>2. Script[11] = t[1] /\ Script[12] = t[2]
      BY <1>6, <1>7, <1>8, <3>1, Zenon
    <3>. QED  BY <1>4, <2>2, <3>2, Zenon
  <2>3. CASE i \in {13, 14, 15}
    <3>1. 13 \in 1 .. 15 /\ 14 \in 1 .. 15 /\ 15 \in 1 .. 15
      OBVIOUS
    <3>2. Script[13] = u[1] /\ Script[14] = u[2] /\ Script[15] = u[3]
      BY <1>7, <1>8, <3>1, Zenon
    <3>. QED  BY <1>4, <2>3, <3>2, Zenon
  <2>4. CASE i = 16
    BY <1>4, <1>8, <2>4, Zenon
  <2>5. i \in 1 .. 10 \/ i \in {11, 12} \/ i \in {13, 14, 15} \/ i = 16
    OBVIOUS
  <2>. QED  BY <2>1, <2>2, <2>3, <2>4, <2>5
<1>. QED  BY <1>8, <1>9

-----------------------------------------------------------------------------
(* The types. *)
LEMMA SendType ==
  ASSUME TypeOK, NEW values, values \in UNION {[D -> Int] : D \in SUBSET Topics},
         Send(values)
  PROVE  /\ sent' \in [Topics -> Int] /\ goal' \in [Topics -> Int]
         /\ linked' \subseteq Topics
BY DEF TypeOK, Send

LEMMA TypeInit == Init => TypeOK
<1>. SUFFICES ASSUME Init PROVE TypeOK
  OBVIOUS
<1>1. step \in 1 .. Len(Script) + 2
  BY ScriptPlays DEF Init
<1>2. todo \in Seq(Calls)
  BY DEF Init
<1>3. /\ net \in [Grippers -> Int] /\ fails \in [Grippers -> Nat]
      /\ sent \in [Topics -> Int] /\ goal \in [Topics -> Int]
  BY DEF Init
<1>5. end \in BOOLEAN
  BY DEF Init
<1>4. /\ wait = 0 /\ alert = 0 /\ thread = "none" /\ seen = 0
      /\ call = "none" /\ left = 0 /\ linked = {} /\ age = 0
      /\ sem \in {0, 1} /\ unheld = 0
  BY DEF Init
<1>. QED  BY <1>1, <1>2, <1>3, <1>4, <1>5 DEF TypeOK

LEMMA CallsType ==
  /\ Grip \in Seq(Calls) /\ LetGo \in Seq(Calls) /\ \A n : Round(n) \in Seq(Calls)
  /\ Grip # << >>
<1>1. \A g \in {1, 2}, e \in Int : Call(g, e) \in Calls
  BY DEF Call, Calls, Grippers
<1>2. Call(2, 99) \in Calls /\ Call(1, -99) \in Calls
  BY <1>1
<1>3. Call(1, 100) \in Calls /\ Call(2, -150) \in Calls /\ Call(2, 200) \in Calls
  BY <1>1
<1>4. Grip \in Seq(Calls) /\ Grip # << >>
  BY <1>2 DEF Grip
<1>5. LetGo \in Seq(Calls)
  BY <1>3 DEF LetGo
<1>6. ASSUME NEW n PROVE Round(n) \in Seq(Calls)
  BY <1>3 DEF Round
<1>. QED  BY <1>4, <1>5, <1>6

LEMMA TypeStep == TypeOK /\ [Next]_vars => TypeOK'
<1>. SUFFICES ASSUME TypeOK, [Next]_vars PROVE TypeOK'
  OBVIOUS
<1>. USE DEF mainVars, threadVars, callVars, topicVars
<1>1. CASE PlayStep
  <2>1. step \in 1 .. 16 /\ Len(Script) = 16
    <3>1. Len(Script) = 16 /\ step <= Len(Script)
      BY <1>1, ScriptPlays DEF PlayStep
    <3>2. step \in 1 .. Len(Script) + 2
      BY DEF TypeOK
    <3>. QED  BY <3>1, <3>2
  <2>2. /\ Script[step].sends \in UNION {[D -> Int] : D \in SUBSET Topics}
        /\ Script[step].pause \in Nat
    <3>1. IsPlay(step, Script[step]) /\ Pauses[step] \in Nat
      BY <2>1, ScriptPlays DEF Pauses
    <3>2. ArmTopics \subseteq Topics
      BY DEF Topics
    <3>. QED  BY <3>1, <3>2 DEF IsPlay
  <2>3. /\ Send(Script[step].sends) /\ wait' = Script[step].pause
        /\ alert' \in {1, alert} /\ end' \in BOOLEAN
        /\ step' = step + 1
        /\ UNCHANGED <<seen, call, left, net, fails, age, sem, unheld>>
        /\ (thread' = "calls" /\ todo' = Grip) \/ UNCHANGED <<thread, todo>>
    BY <1>1 DEF PlayStep, TypeOK
  <2>4. /\ sent' \in [Topics -> Int] /\ goal' \in [Topics -> Int]
        /\ linked' \subseteq Topics
    BY <2>2, <2>3, SendType
  <2>. QED  BY <2>1, <2>2, <2>3, <2>4, CallsType DEF TypeOK
<1>2. CASE Join
  BY <1>2, ScriptPlays DEF Join, TypeOK
<1>3. CASE CallService
  BY <1>3, TimesAssumption DEF CallService, TypeOK
<1>4. CASE Serve
  <2>1. Head(todo) \in Calls
    BY <1>4 DEF Serve, TypeOK
  <2>2. Head(todo).gripper \in Grippers /\ Head(todo).effort \in Int
    BY <2>1 DEF Calls
  <2>3. net \in [Grippers -> Int] /\ fails \in [Grippers -> Nat]
    BY DEF TypeOK
  <2>4. net' \in [Grippers -> Int] /\ fails' \in [Grippers -> Nat]
    BY <1>4, <2>2, <2>3 DEF Serve
  <2>5. /\ call = "asked" /\ call' = "answered"
        /\ UNCHANGED <<mainVars, alert, end, threadVars, left, topicVars, age, sem,
                       unheld>>
    BY <1>4 DEF Serve
  <2>. QED  BY <2>4, <2>5 DEF TypeOK
<1>5. CASE CallReturns
  <2>1. Tail(todo) \in Seq(Calls)
    BY <1>5 DEF CallReturns, TypeOK
  <2>. QED  BY <1>5, <2>1 DEF CallReturns, TypeOK
<1>6. CASE CallsMade
  BY <1>6 DEF CallsMade, TypeOK
<1>7. CASE TestEnd
  BY <1>7, CallsType DEF TestEnd, TypeOK
<1>8. CASE TestAlert
  BY <1>8, CallsType DEF TestAlert, TypeOK
<1>9. CASE Catch
  <2>. DEFINE values == [lgripper |-> 20, rgripper |-> -20]
  <2>1. values \in UNION {[D -> Int] : D \in SUBSET Topics}
    BY DEF Topics, FingerTopics
  <2>2. Send(values)
    BY <1>9 DEF Catch
  <2>5. sem' \in {0, 1}
    BY <1>9 DEF Catch
  <2>. HIDE DEF values
  <2>3. /\ sent' \in [Topics -> Int] /\ goal' \in [Topics -> Int]
        /\ linked' \subseteq Topics
    BY <2>1, <2>2, SendType
  <2>4. UNCHANGED <<step, wait, alert, end, thread, seen, todo, call, left, net,
                    fails, age, unheld>>
    BY <1>9 DEF Catch
  <2>. QED  BY <2>3, <2>4, <2>5 DEF TypeOK
<1>10. CASE Tick
  BY <1>10 DEF Tick, TypeOK
<1>11. ASSUME NEW t \in Topics, Link(t) PROVE TypeOK'
  BY <1>11 DEF Link, TypeOK
<1>12. CASE UNCHANGED vars
  BY <1>12 DEF vars, TypeOK
<1>. QED
  BY <1>1, <1>2, <1>3, <1>4, <1>5, <1>6, <1>7, <1>8, <1>9, <1>10, <1>11, <1>12
     DEF Next, MainThread, SecondThread

(* Every variable stays in its type, whatever the calls and the links take. *)
THEOREM TypeCorrect == Spec => []TypeOK
BY TypeInit, TypeStep, PTL DEF Spec
-----------------------------------------------------------------------------
(* The hand-over.  The second thread makes ten calls in all, in the order  *)
(* of Sequel; k of them have returned.  None of the properties is          *)
(* inductive: the invariant says which calls are still to be made, what    *)
(* the calls made have left at the grippers, and that the thread is ahead  *)
(* of main(), by the time its calls may still take.                        *)
Sequel == <<Call(2, 99), Call(1, -99), Call(1, 100), Call(2, -150),
            Call(1, 100), Call(2, -150), Call(1, 100), Call(2, 200),
            Call(1, 100), Call(2, 200)>>
Last(s) == IF s = 3 THEN 10 ELSE 2 * s + 2
Polled(a) == IF a = 0 THEN 2 ELSE 2 * a

Where(k) ==
  /\ alert = 0 <=> step <= 11
  /\ end <=> step > 16
  /\ thread = "none" <=> step <= 5
  /\ thread = "none" => k = 0 /\ call = "none" /\ seen = 0
  /\ thread = "calls" =>
       /\ alert = seen /\ 2 * seen <= k /\ Len(todo) = Last(seen) - k
       /\ \A i \in 1 .. Len(todo) : todo[i] = Sequel[k + i]
       /\ seen = 3 => end
  /\ thread \in {"polls", "looks"} => seen = 0 /\ k = Polled(alert)
  /\ thread = "done" => k = 10 /\ alert = 3 /\ end
  /\ step = 18 => thread = "done"
  /\ call # "none" => left <= CallTime

(* The pauses from a step of the script to its last, and from now.  *)
Before == <<63, 59, 55, 51, 47, 43, 39, 32, 28, 24, 19, 16, 12, 8, 4, 0>>
TillEnd == IF step <= 16 THEN wait + Before[step] ELSE 0
TillAlert == TillEnd - 19

(* The time the calls k + 1 to n may still take. *)
Load(j) == CallTime * j
Spent == IF call = "none" THEN 0 ELSE CallTime - left
Work(k, n) == Load(n - k) - Spent

(* The grip is taken before the alert, both rounds are over before the     *)
(* end, and the first of them, if the calls are short, before arm 1 draws  *)
(* back.                                                                   *)
Ahead(k) ==
  /\ thread = "calls" /\ seen = 0 => Work(k, 2) < TillAlert
  /\ alert \in {1, 2} => Work(k, 6) < TillEnd
  /\ 2 * CallTime < tiempo - 1 /\ alert = 1 => step = 12 /\ Work(k, 4) < wait

(* The sums at the grippers after each number of calls, if none failed,    *)
(* and how many of them had gripper 1 let go.                              *)
Made(k) == IF call = "answered" THEN k + 1 ELSE k
Net1 == <<0, 0, -99, 1, 1, 101, 101, 201, 201, 301, 301>>
Net2 == <<0, 99, 99, 99, -51, -51, -201, -201, -1, -1, 199>>
Opened1 == <<0, 0, 0, 1, 1, 2, 2, 3, 3, 4, 4>>

Efforts(m) ==
  /\ fails[1] = 0 => net[1] = Net1[m + 1]
  /\ fails[2] = 0 => net[2] = Net2[m + 1]
  /\ net[1] >= 100 * (Opened1[m + 1] - fails[1]) - 99
  /\ m < 2 => net[1] >= 0

NoneFailed == fails[1] = 0 /\ fails[2] = 0

(* The piece is let go by gripper 1 with the third call and gripped by     *)
(* gripper 2 with the fourth.                                              *)
Holding(k) ==
  NoneFailed =>
    /\ Made(k) < 3 => unheld = 0
    /\ Made(k) = 3 => unheld + Work(k, 4) <= 2 * CallTime
    /\ unheld <= 2 * CallTime

HandOver(k) == Where(k) /\ Ahead(k) /\ Efforts(Made(k)) /\ Holding(k)
HandInv == \E k \in 0 .. 10 : HandOver(k)

LEMMA LoadFacts ==
  /\ Load(0) = 0 /\ Load(1) = CallTime
  /\ Load(2) = 2 * CallTime /\ Load(4) = 4 * CallTime
  /\ \A j \in Int : Load(j) \in Int /\ Load(j + 1) = Load(j) + CallTime
  /\ \A j \in Nat : Load(j) >= 0
<1>1. CallTime \in Nat
  BY TimesAssumption
<1>2. \A j \in Int : Load(j) \in Int /\ Load(j + 1) = Load(j) + CallTime
  BY <1>1 DEF Load
<1>3. \A j \in Nat : Load(j) >= 0
  BY <1>1 DEF Load
<1>4. /\ Load(0) = 0 /\ Load(1) = CallTime
      /\ Load(2) = 2 * CallTime /\ Load(4) = 4 * CallTime
  BY <1>1 DEF Load
<1>. QED  BY <1>2, <1>3, <1>4

LEMMA WorkFacts ==
  ASSUME TypeOK, NEW k \in Nat, Where(k)
  PROVE  /\ Spent \in Nat /\ Spent <= CallTime
         /\ \A n \in Nat : Work(k, n) \in Int
         /\ \A n \in Nat : k <= n /\ (call # "none" => k < n) => Work(k, n) >= 0
<1>1. Spent \in Nat /\ Spent <= CallTime
  BY TimesAssumption DEF Spent, Where, TypeOK
<1>2. ASSUME NEW n \in Nat PROVE Work(k, n) \in Int
  BY <1>1, LoadFacts DEF Work
<1>3. ASSUME NEW n \in Nat, k <= n, call # "none" => k < n PROVE Work(k, n) >= 0
  <2>1. CASE call = "none"
    <3>1. n - k \in Nat /\ Spent = 0
      BY <1>3, <2>1 DEF Spent
    <3>2. Load(n - k) >= 0 /\ Load(n - k) \in Int
      BY <3>1, LoadFacts
    <3>. QED  BY <3>1, <3>2 DEF Work
  <2>2. CASE call # "none"
    <3>1. PICK j \in Nat : n - k = j + 1
      <4>1. n - k - 1 \in Nat /\ n - k = (n - k - 1) + 1
        BY <1>3, <2>2
      <4>. QED  BY <4>1
    <3>2. Load(n - k) = Load(j) + CallTime /\ Load(j) >= 0 /\ Load(j) \in Int
      BY <3>1, LoadFacts
    <3>. QED  BY <1>1, <3>2, TimesAssumption DEF Work
  <2>. QED  BY <2>1, <2>2
<1>. QED  BY <1>1, <1>2, <1>3

LEMMA BeforeFacts ==
  /\ \A i \in 1 .. 16 : Before[i] \in Nat /\ Pauses[i] \in Nat
  /\ \A i \in 1 .. 15 : Before[i] = Pauses[i] + Before[i + 1]
  /\ Before[6] = 43 /\ Before[11] = 19 /\ Before[12] = 16 /\ Before[16] = 0
  /\ Pauses[5] = 4 /\ Pauses[11] = 3 /\ Pauses[16] = 0
<1>1. \A i \in 1 .. 16 : Before[i] \in Nat /\ Pauses[i] \in Nat
  BY DEF Before, Pauses
<1>2. \A i \in 1 .. 15 : Before[i] = Pauses[i] + Before[i + 1]
  BY DEF Before, Pauses
<1>3. /\ Before[6] = 43 /\ Before[11] = 19 /\ Before[12] = 16 /\ Before[16] = 0
      /\ Pauses[5] = 4 /\ Pauses[11] = 3 /\ Pauses[16] = 0
  BY DEF Before, Pauses
<1>. QED  BY <1>1, <1>2, <1>3

LEMMA TillFacts ==
  ASSUME TypeOK
  PROVE  TillEnd \in Nat /\ TillAlert \in Int
<1>1. step \in 1 .. 18 /\ wait \in Nat
  BY ScriptPlays DEF TypeOK
<1>2. TillEnd \in Nat
  <2>1. CASE step <= 16
    <3>1. Before[step] \in Nat
      BY <1>1, <2>1, BeforeFacts
    <3>. QED  BY <1>1, <2>1, <3>1 DEF TillEnd
  <2>2. CASE ~ (step <= 16)
    BY <2>2 DEF TillEnd
  <2>. QED  BY <2>1, <2>2
<1>. QED  BY <1>2 DEF TillAlert

(* The calls of the sequel, and what each adds to the sums. *)
LEMMA SequelCalls ==
  /\ Sequel[1] = Call(2, 99) /\ Sequel[2] = Call(1, -99)
  /\ Sequel[3] = Call(1, 100) /\ Sequel[4] = Call(2, -150)
  /\ Sequel[5] = Call(1, 100) /\ Sequel[6] = Call(2, -150)
  /\ Sequel[7] = Call(1, 100) /\ Sequel[8] = Call(2, 200)
  /\ Sequel[9] = Call(1, 100) /\ Sequel[10] = Call(2, 200)
BY DEF Sequel

OnOne(m) ==
  /\ Sequel[m + 1].gripper = 1
  /\ Net1[m + 2] = Net1[m + 1] + Sequel[m + 1].effort
  /\ Net2[m + 2] = Net2[m + 1]
  /\ \/ Sequel[m + 1].effort = 100 /\ Opened1[m + 2] = Opened1[m + 1] + 1
     \/ m = 1 /\ Sequel[m + 1].effort = -99 /\ Opened1[m + 2] = 0
OnTwo(m) ==
  /\ Sequel[m + 1].gripper = 2
  /\ Net2[m + 2] = Net2[m + 1] + Sequel[m + 1].effort
  /\ Net1[m + 2] = Net1[m + 1]
  /\ Opened1[m + 2] = Opened1[m + 1]

LEMMA SequelSums == \A m \in 0 .. 9 : OnOne(m) \/ OnTwo(m)
<1>1. \A g, e : Call(g, e).gripper = g /\ Call(g, e).effort = e
  BY DEF Call
<1>2. ASSUME NEW m \in {1, 2, 4, 6, 8} PROVE OnOne(m)
  BY <1>1, <1>2, SequelCalls DEF OnOne, Net1, Net2, Opened1
<1>3. ASSUME NEW m \in {0, 3, 5, 7, 9} PROVE OnTwo(m)
  BY <1>1, <1>3, SequelCalls DEF OnTwo, Net1, Net2, Opened1
<1>4. \A m \in 0 .. 9 : m \in {1, 2, 4, 6, 8} \/ m \in {0, 3, 5, 7, 9}
  OBVIOUS
<1>. QED  BY <1>2, <1>3, <1>4

-----------------------------------------------------------------------------
(* One lemma for each action that the invariant is about. *)
LEMMA HandIdle ==
  ASSUME NEW k, HandOver(k),
         UNCHANGED <<step, wait, alert, end, thread, seen, todo, call, left, net,
                     fails, unheld>>
  PROVE  HandOver(k)'
<1>1. Where(k)'
  BY DEF HandOver, Where
<1>2. Spent' = Spent /\ TillEnd' = TillEnd /\ Made(k)' = Made(k)
  BY DEF Spent, TillEnd, Made
<1>3. Ahead(k)' /\ Efforts(Made(k))' /\ Holding(k)'
  BY <1>2 DEF HandOver, Ahead, Efforts, Holding, Work, TillAlert, NoneFailed
<1>. QED  BY <1>1, <1>3 DEF HandOver

LEMMA HandJoin ==
  ASSUME TypeOK, NEW k, HandOver(k), Join
  PROVE  HandOver(k)'
<1>. USE DEF mainVars, threadVars, callVars, topicVars
<1>1. /\ step = 17 /\ step' = 18 /\ thread = "done"
      /\ UNCHANGED <<wait, alert, end, thread, seen, todo, call, left, net, fails,
                     unheld>>
  BY ScriptPlays DEF Join
<1>2. Where(k)'
  BY <1>1 DEF HandOver, Where
<1>3. Spent' = Spent /\ TillEnd' = TillEnd /\ Made(k)' = Made(k) /\ alert = 3
  BY <1>1 DEF Spent, TillEnd, Made, HandOver, Where
<1>4. Ahead(k)' /\ Efforts(Made(k))' /\ Holding(k)'
  BY <1>1, <1>3
     DEF HandOver, Ahead, Efforts, Holding, Work, TillAlert, NoneFailed
<1>. QED  BY <1>2, <1>4 DEF HandOver

LEMMA HandCallService ==
  ASSUME TypeOK, NEW k, HandOver(k), CallService
  PROVE  HandOver(k)'
<1>. USE DEF mainVars, threadVars, callVars, topicVars
<1>1. /\ thread = "calls" /\ call = "none" /\ call' = "asked"
      /\ left' = CallTime
      /\ UNCHANGED <<step, wait, alert, end, thread, seen, todo, net, fails,
                     unheld>>
  BY DEF CallService
<1>2. Where(k)'
  BY <1>1, TimesAssumption DEF HandOver, Where
<1>3. Spent' = Spent /\ TillEnd' = TillEnd /\ Made(k)' = Made(k)
  BY <1>1, TimesAssumption DEF Spent, TillEnd, Made
<1>4. Ahead(k)' /\ Efforts(Made(k))' /\ Holding(k)'
  BY <1>1, <1>3
     DEF HandOver, Ahead, Efforts, Holding, Work, TillAlert, NoneFailed
<1>. QED  BY <1>2, <1>4 DEF HandOver

LEMMA HandCallReturns ==
  ASSUME TypeOK, NEW k \in 0 .. 10, HandOver(k), CallReturns
  PROVE  k + 1 \in 0 .. 10 /\ HandOver(k + 1)'
<1>. USE DEF mainVars, threadVars, callVars, topicVars
<1>1. /\ thread = "calls" /\ call = "answered" /\ call' = "none"
      /\ todo' = Tail(todo) /\ todo # << >> /\ todo \in Seq(Calls)
      /\ UNCHANGED <<step, wait, alert, end, thread, seen, left, net, fails,
                     unheld>>
  BY DEF CallReturns, TypeOK
<1>2. PICK n \in Nat : Len(todo) = n + 1 /\ Len(todo') = n
  <2>1. Len(todo) \in Nat /\ Len(todo) >= 1 /\ Len(todo') = Len(todo) - 1
    BY <1>1
  <2>. QED  BY <2>1
<1>3. \A i \in 1 .. n : todo'[i] = todo[i + 1]
  BY <1>1, <1>2
<1>4. seen \in 0 .. 3 /\ Last(seen) \in 0 .. 10 /\ n + 1 = Last(seen) - k
  BY <1>1, <1>2 DEF TypeOK, Last, HandOver, Where
<1>5. k + 1 \in 0 .. 10 /\ n = Last(seen) - (k + 1)
  BY <1>4
<1>6. ASSUME NEW i \in 1 .. n PROVE todo'[i] = Sequel[(k + 1) + i]
  <2>1. i + 1 \in 1 .. n + 1 /\ k + (i + 1) = (k + 1) + i
    OBVIOUS
  <2>2. todo[i + 1] = Sequel[k + (i + 1)]
    BY <1>1, <1>2, <2>1 DEF HandOver, Where
  <2>. QED  BY <1>3, <2>1, <2>2, Zenon
<1>17. step \in 1 .. 18 /\ seen \in 0 .. 3
  BY ScriptPlays DEF TypeOK
<1>7. Where(k + 1)'
  <2>1. /\ alert = seen /\ 2 * seen <= k
        /\ seen = 3 => end
        /\ alert = 0 <=> step <= 11
        /\ end <=> step > 16
        /\ step > 5 /\ step # 18
    BY <1>1 DEF HandOver, Where, TypeOK
  <2>2. Len(todo)' = n /\ Last(seen)' = Last(seen)
    BY <1>1, <1>2 DEF Last
  <2>3. \A i \in 1 .. Len(todo)' : todo'[i] = Sequel[(k + 1) + i]
    BY <1>6, <2>2, Zenon
  <2>4. 2 * seen <= k + 1
    <3>1. 2 * seen <= k /\ seen \in Int /\ k \in Int
      BY <1>4, <2>1
    <3>. QED  BY <3>1
  <2>5. call' = "none" /\ thread' = "calls"
    BY <1>1
  <2>6. thread' = "calls" =>
          /\ alert' = seen' /\ 2 * seen' <= k + 1
          /\ Len(todo)' = Last(seen)' - (k + 1)
          /\ \A i \in 1 .. Len(todo)' : todo'[i] = Sequel[(k + 1) + i]
          /\ seen' = 3 => end'
    BY <1>1, <1>5, <2>1, <2>2, <2>3, <2>4
  <2>7. /\ alert' = 0 <=> step' <= 11
        /\ end' <=> step' > 16
        /\ thread' = "none" <=> step' <= 5
    BY <1>1, <1>17, <2>1
  <2>8. step' = 18 => thread' = "done"
    BY <1>1, <2>1
  <2>. QED  BY <2>5, <2>6, <2>7, <2>8 DEF Where
<1>8. TillEnd' = TillEnd /\ Made(k + 1)' = Made(k) /\ Spent' = 0
  BY <1>1 DEF TillEnd, Made, Spent
<1>9. ASSUME NEW m \in Nat
      PROVE  Work(k + 1, m)' <= Work(k, m) /\ Work(k + 1, m)' \in Int
  <2>1. PICK j \in Int : j = m - (k + 1) /\ j + 1 = m - k
    OBVIOUS
  <2>2. Load(m - k) = Load(j) + CallTime /\ Load(j) \in Int
    BY <2>1, LoadFacts
  <2>3. Spent \in Nat /\ Spent <= CallTime
    BY WorkFacts DEF HandOver
  <2>4. Work(k + 1, m)' = Load(j)
    BY <1>8, <2>1, <2>2 DEF Work
  <2>5. Work(k, m) = Load(j) + CallTime - Spent
    BY <2>2, <2>3, TimesAssumption DEF Work
  <2>. QED  BY <2>2, <2>3, <2>4, <2>5, TimesAssumption
<1>14. 2 \in Nat /\ 4 \in Nat /\ 6 \in Nat
  OBVIOUS
<1>15. /\ Work(k + 1, 2)' <= Work(k, 2) /\ Work(k + 1, 2)' \in Int
       /\ Work(k + 1, 4)' <= Work(k, 4) /\ Work(k + 1, 4)' \in Int
       /\ Work(k + 1, 6)' <= Work(k, 6) /\ Work(k + 1, 6)' \in Int
       /\ Work(k, 2) \in Int /\ Work(k, 4) \in Int /\ Work(k, 6) \in Int
  BY <1>9, <1>14, WorkFacts DEF HandOver
<1>16. TillEnd \in Int /\ TillAlert \in Int /\ TillAlert' = TillAlert
  BY <1>8, TillFacts DEF TillAlert
<1>10. Ahead(k + 1)'
  <2>1. thread = "calls" /\ seen = 0 => Work(k + 1, 2)' < TillAlert
    <3>1. thread = "calls" /\ seen = 0 => Work(k, 2) < TillAlert
      BY DEF HandOver, Ahead
    <3>. QED  BY <1>15, <1>16, <3>1
  <2>2. alert \in {1, 2} => Work(k + 1, 6)' < TillEnd
    <3>1. alert \in {1, 2} => Work(k, 6) < TillEnd
      BY DEF HandOver, Ahead
    <3>. QED  BY <1>15, <1>16, <3>1
  <2>3. 2 * CallTime < tiempo - 1 /\ alert = 1 =>
          step = 12 /\ Work(k + 1, 4)' < wait
    <3>1. 2 * CallTime < tiempo - 1 /\ alert = 1 =>
            step = 12 /\ Work(k, 4) < wait
      BY DEF HandOver, Ahead
    <3>2. wait \in Int
      BY DEF TypeOK
    <3>. QED  BY <1>15, <3>1, <3>2
  <2>. QED  BY <1>1, <1>8, <1>16, <2>1, <2>2, <2>3 DEF Ahead
<1>11. Efforts(Made(k + 1))'
  BY <1>1, <1>8 DEF HandOver, Efforts
<1>12. Holding(k + 1)'
  BY <1>1, <1>8, <1>15, TimesAssumption DEF HandOver, Holding, NoneFailed, TypeOK
<1>. QED  BY <1>5, <1>7, <1>10, <1>11, <1>12 DEF HandOver

LEMMA HandServe ==
  ASSUME TypeOK, NEW k \in 0 .. 10, HandOver(k), Serve
  PROVE  HandOver(k)'
<1>. USE DEF mainVars, threadVars, callVars, topicVars
<1>1. /\ thread = "calls" /\ call = "asked" /\ call' = "answered"
      /\ todo # << >> /\ todo \in Seq(Calls)
      /\ UNCHANGED <<step, wait, alert, end, thread, seen, todo, left, unheld>>
  BY DEF Serve, TypeOK
<1>2. Where(k)'
  BY <1>1 DEF HandOver, Where
<1>3. /\ Spent' = Spent /\ TillEnd' = TillEnd
      /\ Made(k) = k /\ Made(k)' = k + 1
  BY <1>1 DEF Spent, TillEnd, Made
<1>4. Ahead(k)'
  BY <1>1, <1>3 DEF HandOver, Ahead, Work, TillAlert
<1>5. k \in 0 .. 9 /\ Head(todo) = Sequel[k + 1]
  <2>1. PICK n \in Nat : Len(todo) = n /\ n >= 1
    BY <1>1
  <2>2. seen \in 0 .. 3 /\ Last(seen) \in 0 .. 10 /\ n = Last(seen) - k
    BY <1>1, <2>1 DEF TypeOK, Last, HandOver, Where
  <2>3. todo[1] = Sequel[k + 1]
    <3>1. 1 \in 1 .. n
      BY <2>1
    <3>. QED  BY <1>1, <2>1, <3>1 DEF HandOver, Where
  <2>4. Head(todo) = todo[1]
    BY <1>1
  <2>. QED  BY <2>1, <2>2, <2>3, <2>4
<1>6. Efforts(k + 1)' /\ (NoneFailed' => NoneFailed)
  <2>. DEFINE g == Head(todo).gripper
              e == Head(todo).effort
  <2>1. \/ net' = [net EXCEPT ![g] = @ + e] /\ fails' = fails
        \/ fails' = [fails EXCEPT ![g] = @ + 1] /\ net' = net
    BY DEF Serve
  <2>2. /\ net \in [Grippers -> Int] /\ fails \in [Grippers -> Nat]
        /\ net[1] \in Int /\ net[2] \in Int
        /\ fails[1] \in Nat /\ fails[2] \in Nat
    BY DEF TypeOK, Grippers
  <2>3. Efforts(k)
    BY <1>3 DEF HandOver
  <2>4. /\ Net1[k + 1] \in Int /\ Net2[k + 1] \in Int
        /\ Opened1[k + 1] \in Int /\ (k + 1) + 1 = k + 2
    BY <1>5 DEF Net1, Net2, Opened1
  <2>5. g = Sequel[k + 1].gripper /\ e = Sequel[k + 1].effort
    BY <1>5, Zenon
  <2>. HIDE DEF g, e
  <2>6. CASE OnOne(k)
    <3>1. g = 1 /\ (e = 100 \/ (k = 1 /\ e = -99))
      BY <2>5, <2>6 DEF OnOne
    <3>2. \/ /\ net'[1] = net[1] + e /\ net'[2] = net[2]
             /\ fails'[1] = fails[1] /\ fails'[2] = fails[2]
          \/ /\ net'[1] = net[1] /\ net'[2] = net[2]
             /\ fails'[1] = fails[1] + 1 /\ fails'[2] = fails[2]
      BY <2>1, <2>2, <3>1 DEF Grippers
    <3>3. /\ Net1[k + 2] = Net1[k + 1] + e /\ Net2[k + 2] = Net2[k + 1]
          /\ \/ e = 100 /\ Opened1[k + 2] = Opened1[k + 1] + 1
             \/ k = 1 /\ e = -99 /\ Opened1[k + 2] = 0
      BY <2>5, <2>6 DEF OnOne
    <3>4. /\ k + 1 < 2 => e = 100
          /\ k < 2 => net[1] >= 0
      BY <2>3, <3>1 DEF Efforts
    <3>. QED
      BY <1>5, <2>2, <2>3, <2>4, <3>1, <3>2, <3>3, <3>4 DEF Efforts, NoneFailed
  <2>7. CASE OnTwo(k)
    <3>1. g = 2
      BY <2>5, <2>7 DEF OnTwo
    <3>2. \/ /\ net'[1] = net[1] /\ net'[2] = net[2] + e
             /\ fails'[1] = fails[1] /\ fails'[2] = fails[2]
          \/ /\ net'[1] = net[1] /\ net'[2] = net[2]
             /\ fails'[1] = fails[1] /\ fails'[2] = fails[2] + 1
      BY <2>1, <2>2, <3>1 DEF Grippers
    <3>3. /\ Net2[k + 2] = Net2[k + 1] + e /\ Net1[k + 2] = Net1[k + 1]
          /\ Opened1[k + 2] = Opened1[k + 1]
      BY <2>5, <2>7 DEF OnTwo
    <3>. QED
      BY <1>5, <2>2, <2>3, <2>4, <3>2, <3>3 DEF Efforts, NoneFailed
  <2>. QED  BY <1>5, <2>6, <2>7, SequelSums
<1>7. Holding(k)'
  <2>1. unheld \in Nat /\ Work(k, 4)' = Work(k, 4)
    BY <1>3 DEF TypeOK, Work
  <2>2. NoneFailed' => /\ k < 3 => unheld = 0
                       /\ unheld <= 2 * CallTime
    BY <1>3, <1>6 DEF HandOver, Holding
  <2>3. ASSUME k = 2 PROVE Work(k, 4) <= 2 * CallTime /\ Work(k, 4) \in Int
    <3>1. Load(2) = 2 * CallTime /\ 4 - 2 = 2 /\ Spent \in Nat
      BY LoadFacts, WorkFacts DEF HandOver
    <3>. QED  BY <2>3, <3>1, TimesAssumption DEF Work
  <2>. QED  BY <1>1, <1>3, <2>1, <2>2, <2>3, TimesAssumption DEF Holding
<1>. QED  BY <1>2, <1>3, <1>4, <1>6, <1>7 DEF HandOver

LEMMA HandCallsMade ==
  ASSUME TypeOK, NEW k \in 0 .. 10, HandOver(k), CallsMade
  PROVE  HandOver(k)'
<1>. USE DEF mainVars, threadVars, callVars, topicVars
<1>1. /\ thread = "calls" /\ Len(todo) = 0 /\ seen' = 0
      /\ alert' = (IF seen \in {1, 2} THEN seen + 1 ELSE alert)
      /\ thread' = (IF seen = 3 THEN "done" ELSE "polls")
      /\ UNCHANGED <<step, wait, end, todo, call, left, net, fails, unheld>>
  BY DEF CallsMade
<1>2. /\ step \in 1 .. 18 /\ seen \in 0 .. 3 /\ alert = seen /\ k = Last(seen)
      /\ alert = 0 <=> step <= 11
      /\ end <=> step > 16
      /\ seen = 3 => end
      /\ step > 5 /\ step # 18
      /\ call # "none" => left <= CallTime
  BY <1>1, ScriptPlays DEF HandOver, Where, TypeOK, Last
<1>3. /\ call = "none"
      /\ seen = 0 => alert' = 0 /\ k = 2
      /\ seen = 1 => alert' = 2 /\ k = 4
      /\ seen = 2 => alert' = 3 /\ k = 6
      /\ seen = 3 => alert' = 3 /\ k = 10
  BY <1>1, <1>2 DEF TypeOK, Last
<1>4. thread' \in {"polls", "looks"} => seen' = 0 /\ k = Polled(alert')
  BY <1>1, <1>2, <1>3 DEF Polled
<1>5. Where(k)'
  BY <1>1, <1>2, <1>3, <1>4 DEF Where
<1>6. Spent' = Spent /\ TillEnd' = TillEnd /\ Made(k)' = Made(k)
  BY <1>1 DEF Spent, TillEnd, Made
<1>7. Ahead(k)'
  <2>1. alert' \in {1, 2} => alert \in {1, 2}
    BY <1>2, <1>3
  <2>2. alert' # 1
    BY <1>2, <1>3
  <2>3. ~ (thread' = "calls")
    BY <1>1
  <2>. QED  BY <1>6, <2>1, <2>2, <2>3 DEF HandOver, Ahead, Work
<1>8. Efforts(Made(k))' /\ Holding(k)'
  BY <1>1, <1>6 DEF HandOver, Efforts, Holding, Work, NoneFailed
<1>. QED  BY <1>5, <1>7, <1>8 DEF HandOver

LEMMA HandTestEnd ==
  ASSUME TypeOK, NEW k \in 0 .. 10, HandOver(k), TestEnd
  PROVE  HandOver(k)'
<1>. USE DEF mainVars, threadVars, callVars, topicVars
<1>1. /\ thread = "polls" /\ seen = 0 /\ k = Polled(alert) /\ call = "none"
      /\ UNCHANGED <<step, wait, alert, end, call, left, net, fails, unheld>>
  BY DEF TestEnd, HandOver, Where, TypeOK
<1>2. Spent' = Spent /\ TillEnd' = TillEnd /\ Made(k)' = Made(k)
  BY <1>1 DEF Spent, TillEnd, Made
<1>3. Efforts(Made(k))' /\ Holding(k)'
  BY <1>1, <1>2 DEF HandOver, Efforts, Holding, Work, NoneFailed
<1>4. CASE ~ end
  <2>1. thread' = "looks" /\ seen' = 0 /\ todo' = todo
    BY <1>1, <1>4 DEF TestEnd
  <2>2. Where(k)'
    BY <1>1, <2>1 DEF HandOver, Where
  <2>3. Ahead(k)'
    BY <1>1, <1>2, <2>1 DEF HandOver, Ahead, Work
  <2>. QED  BY <1>3, <2>2, <2>3 DEF HandOver
<1>5. CASE end
  <2>1. thread' = "calls" /\ seen' = 3 /\ todo' = LetGo
    BY <1>5 DEF TestEnd
  <2>2. /\ step \in 1 .. 18 /\ step > 16 /\ alert # 0 /\ alert \in 0 .. 3
        /\ step # 18
    BY <1>1, <1>5, ScriptPlays DEF HandOver, Where, TypeOK
  <2>3. alert = 3 /\ k = 6
    <3>1. TillEnd = 0
      BY <2>2 DEF TillEnd
    <3>2. alert \in {1, 2} => Work(k, 6) < 0 /\ k \in {2, 4}
      BY <1>1, <3>1 DEF HandOver, Ahead, Polled
    <3>3. k \in {2, 4} => Work(k, 6) >= 0 /\ Work(k, 6) \in Int
      <4>1. k \in {2, 4} => k <= 6 /\ k \in Nat /\ 6 \in Nat
        OBVIOUS
      <4>. QED  BY <1>1, <4>1, WorkFacts DEF HandOver
    <3>4. alert = 3
      BY <2>2, <3>2, <3>3
    <3>. QED  BY <1>1, <3>4 DEF Polled
  <2>4. /\ Len(todo') = 4 /\ todo'[1] = Sequel[7] /\ todo'[2] = Sequel[8]
        /\ todo'[3] = Sequel[9] /\ todo'[4] = Sequel[10]
    BY <2>1, SequelCalls DEF LetGo
  <2>5. \A i \in 1 .. 4 : todo'[i] = Sequel[6 + i]
    BY <2>4
  <2>6. Where(k)'
    BY <1>1, <1>5, <2>1, <2>2, <2>3, <2>4, <2>5 DEF HandOver, Where, Last
  <2>7. Ahead(k)'
    BY <1>1, <1>2, <2>1, <2>3 DEF Ahead
  <2>. QED  BY <1>3, <2>6, <2>7 DEF HandOver
<1>. QED  BY <1>4, <1>5

LEMMA HandTestAlert ==
  ASSUME TypeOK, NEW k \in 0 .. 10, HandOver(k), TestAlert
  PROVE  HandOver(k)'
<1>. USE DEF mainVars, threadVars, callVars, topicVars
<1>1. /\ thread = "looks" /\ seen = 0 /\ k = Polled(alert) /\ call = "none"
      /\ UNCHANGED <<step, wait, alert, end, call, left, net, fails, unheld>>
  BY DEF TestAlert, HandOver, Where, TypeOK
<1>2. Spent' = Spent /\ TillEnd' = TillEnd /\ Made(k)' = Made(k)
  BY <1>1 DEF Spent, TillEnd, Made
<1>3. Efforts(Made(k))' /\ Holding(k)'
  BY <1>1, <1>2 DEF HandOver, Efforts, Holding, Work, NoneFailed
<1>4. CASE alert \notin {1, 2}
  <2>1. thread' = "polls" /\ seen' = 0 /\ todo' = todo
    BY <1>1, <1>4 DEF TestAlert
  <2>2. Where(k)'
    BY <1>1, <2>1 DEF HandOver, Where
  <2>3. Ahead(k)'
    BY <1>1, <1>2, <2>1 DEF HandOver, Ahead, Work
  <2>. QED  BY <1>3, <2>2, <2>3 DEF HandOver
<1>5. CASE alert \in {1, 2}
  <2>1. thread' = "calls" /\ seen' = alert /\ todo' = Round(alert)
    BY <1>5 DEF TestAlert
  <2>2. k = 2 * alert /\ Last(alert) = k + 2 /\ k \in {2, 4}
    BY <1>1, <1>5 DEF Polled, Last
  <2>3. /\ Len(todo') = 2 /\ todo'[1] = Sequel[k + 1] /\ todo'[2] = Sequel[k + 2]
    BY <2>1, <2>2, SequelCalls DEF Round
  <2>4. \A i \in 1 .. 2 : todo'[i] = Sequel[k + i]
    BY <2>3
  <2>5. Where(k)'
    BY <1>1, <1>5, <2>1, <2>2, <2>3, <2>4 DEF HandOver, Where
  <2>6. Ahead(k)'
    BY <1>1, <1>2, <1>5, <2>1 DEF HandOver, Ahead, Work
  <2>. QED  BY <1>3, <2>5, <2>6 DEF HandOver
<1>. QED  BY <1>4, <1>5

(* The calls that are being made, or that the alert asks for. *)
LEMMA WorkLeft ==
  ASSUME TypeOK, NEW k \in 0 .. 10, Where(k)
  PROVE  /\ thread = "calls" /\ seen = 0 => Work(k, 2) >= 0
         /\ alert \in {1, 2} => Work(k, 6) >= 0
         /\ alert = 1 => Work(k, 4) >= 0
<1>1. /\ step \in 1 .. 18 /\ seen \in 0 .. 3 /\ alert \in 0 .. 3
      /\ k \in Nat /\ 2 \in Nat /\ 4 \in Nat /\ 6 \in Nat
  BY ScriptPlays DEF TypeOK
<1>2. PICK n \in Nat : n = Len(todo) /\ (call # "none" => n > 0 /\ thread = "calls")
  BY DEF TypeOK
<1>3. thread = "calls" => alert = seen /\ n = Last(seen) - k
  BY <1>2 DEF Where
<1>4. Last(0) = 2 /\ Last(1) = 4 /\ Last(2) = 6 /\ Polled(1) = 2 /\ Polled(2) = 4
  BY DEF Last, Polled
<1>5. alert \in {1, 2} => \/ thread = "calls" /\ seen = alert
                          \/ k = Polled(alert) /\ thread # "calls"
  BY <1>1 DEF Where, TypeOK
<1>6. thread = "calls" /\ seen = 0 => k <= 2 /\ (call # "none" => k < 2)
  BY <1>2, <1>3, <1>4
<1>7. alert = 1 => k <= 4 /\ (call # "none" => k < 4)
  BY <1>2, <1>3, <1>4, <1>5
<1>8. alert = 2 => k <= 6 /\ (call # "none" => k < 6)
  BY <1>2, <1>3, <1>4, <1>5
<1>9. \A n1 \in Nat : k <= n1 /\ (call # "none" => k < n1) => Work(k, n1) >= 0
  BY <1>1, WorkFacts, Zenon
<1>10. thread = "calls" /\ seen = 0 => Work(k, 2) >= 0
  BY <1>1, <1>6, <1>9, Zenon
<1>11. alert = 1 => Work(k, 4) >= 0
  BY <1>1, <1>7, <1>9, Zenon
<1>12. alert \in {1, 2} => k <= 6 /\ (call # "none" => k < 6)
  BY <1>7, <1>8
<1>13. alert \in {1, 2} => Work(k, 6) >= 0
  BY <1>1, <1>9, <1>12, Zenon
<1>. QED  BY <1>10, <1>11, <1>13

LEMMA HandPlay ==
  ASSUME 4 * CallTime < 19, TypeOK, NEW k \in 0 .. 10, HandOver(k), PlayStep
  PROVE  HandOver(k)'
<1>. USE DEF mainVars, threadVars, callVars, topicVars
<1>1. /\ step \in 1 .. 16 /\ wait = 0 /\ seen \in 0 .. 3 /\ alert \in 0 .. 3
      /\ ~ end /\ step' = step + 1
      /\ UNCHANGED <<seen, call, left, net, fails, unheld>>
  <2>1. step <= Len(Script) /\ Len(Script) = 16
    BY ScriptPlays DEF PlayStep
  <2>2. step \in 1 .. Len(Script) + 2 /\ seen \in 0 .. 3 /\ alert \in 0 .. 3
    BY DEF TypeOK
  <2>3. step \in 1 .. 16
    BY <2>1, <2>2
  <2>4. ~ end
    BY <2>3 DEF HandOver, Where
  <2>5. /\ wait = 0 /\ step' = step + 1
        /\ UNCHANGED <<seen, call, left, net, fails, unheld>>
    BY DEF PlayStep
  <2>. QED  BY <2>2, <2>3, <2>4, <2>5
<1>2. Script[step].pause = Pauses[step] /\ Script[step].does = Does[step]
  BY <1>1, ScriptPlays DEF IsPlay
<1>3. /\ Does[step] = "alerts" <=> step = 11
      /\ Does[step] = "ends" <=> step = 16
      /\ Does[step] = "starts" <=> step = 5
  BY <1>1 DEF Does
<1>4. /\ wait' = Pauses[step]
      /\ alert' = (IF step = 11 THEN 1 ELSE alert)
      /\ end' <=> step = 16
      /\ IF step = 5 THEN thread' = "calls" /\ todo' = Grip
         ELSE thread' = thread /\ todo' = todo
  <2>. DEFINE play == Script[step]
  <2>1. /\ wait' = play.pause
        /\ alert' = IF play.does = "alerts" THEN 1 ELSE alert
        /\ end' = (end \/ play.does = "ends")
        /\ IF play.does = "starts"
           THEN thread' = "calls" /\ todo' = Grip
           ELSE UNCHANGED <<thread, todo>>
    BY DEF PlayStep
  <2>2. play.pause = Pauses[step] /\ play.does = Does[step]
    BY <1>2
  <2>. HIDE DEF play
  <2>. QED  BY <1>1, <1>3, <2>1, <2>2
<1>5. /\ Spent' = Spent /\ Made(k)' = Made(k) /\ Spent \in Nat
      /\ \A n : Work(k, n)' = Work(k, n)
  BY <1>1, WorkFacts DEF Spent, Made, Work, HandOver
<1>6. /\ TillEnd = Before[step] /\ TillEnd' = TillEnd /\ TillEnd \in Nat
  <2>1. Before[step] \in Nat /\ Pauses[step] \in Nat
    BY <1>1, BeforeFacts
  <2>2. TillEnd = Before[step]
    BY <1>1, <2>1 DEF TillEnd
  <2>3. CASE step = 16
    BY <1>1, <2>2, <2>3, BeforeFacts DEF TillEnd
  <2>4. CASE step # 16
    <3>1. step \in 1 .. 15 /\ step' <= 16
      BY <1>1, <2>4
    <3>2. Before[step] = Pauses[step] + Before[step + 1]
      BY <3>1, BeforeFacts
    <3>3. TillEnd' = wait' + Before[step']
      BY <3>1 DEF TillEnd
    <3>. QED  BY <1>1, <1>4, <2>1, <2>2, <3>2, <3>3
  <2>. QED  BY <2>3, <2>4
<1>7. Efforts(Made(k))' /\ Holding(k)'
  <2>1. Work(k, 4)' = Work(k, 4)
    BY <1>5
  <2>. QED
    BY <1>1, <1>5, <2>1 DEF HandOver, Efforts, Holding, NoneFailed
<1>8. CASE step = 5
  <2>1. /\ k = 0 /\ seen = 0 /\ alert = 0 /\ call = "none" /\ alert' = 0
    BY <1>1, <1>4, <1>8 DEF HandOver, Where
  <2>2. /\ thread' = "calls" /\ todo' = Grip
    BY <1>4, <1>8
  <2>3. Len(todo') = 2 /\ todo'[1] = Sequel[1] /\ todo'[2] = Sequel[2]
    BY <2>2, SequelCalls DEF Grip
  <2>4. \A i \in 1 .. 2 : todo'[i] = Sequel[0 + i]
    BY <2>3
  <2>5. Where(k)'
    BY <1>1, <1>4, <1>8, <2>1, <2>2, <2>3, <2>4 DEF Where, Last
  <2>6. TillAlert' = 28
    BY <1>6, <1>8, BeforeFacts DEF TillAlert, Before
  <2>7. Work(k, 2) <= 2 * CallTime /\ Work(k, 2) \in Int
    <3>1. Load(2 - 0) = 2 * CallTime
      BY LoadFacts
    <3>. QED  BY <1>5, <2>1, <3>1, TimesAssumption DEF Work
  <2>8. Ahead(k)'
    BY <1>5, <2>1, <2>6, <2>7, TimesAssumption DEF Ahead
  <2>. QED  BY <1>7, <2>5, <2>8 DEF HandOver
<1>9. CASE step = 11
  <2>1. alert = 0 /\ alert' = 1 /\ wait' = 3 /\ TillEnd = 19 /\ TillAlert = 0
    BY <1>1, <1>4, <1>6, <1>9, BeforeFacts DEF HandOver, Where, TillAlert
  <2>2. thread \in {"polls", "looks"} /\ k = 2 /\ call = "none"
    <3>1. thread # "none" /\ thread # "done"
      BY <1>9, <2>1 DEF HandOver, Where
    <3>2. thread # "calls"
      <4>1. ASSUME thread = "calls" PROVE FALSE
        <5>1. seen = 0 /\ Work(k, 2) < 0
          BY <2>1, <4>1 DEF HandOver, Where, Ahead
        <5>2. Work(k, 2) >= 0 /\ Work(k, 2) \in Int
          BY <4>1, <5>1, WorkLeft, WorkFacts DEF HandOver
        <5>. QED  BY <5>1, <5>2
      <4>. QED  BY <4>1
    <3>. QED  BY <2>1, <3>1, <3>2 DEF HandOver, Where, TypeOK, Polled
  <2>3. Where(k)'
    BY <1>1, <1>4, <1>9, <2>1, <2>2 DEF HandOver, Where, Polled
  <2>4. Work(k, 4) = 2 * CallTime /\ Work(k, 6) = 4 * CallTime
    <3>1. Load(4 - 2) = 2 * CallTime /\ Load(6 - 2) = 4 * CallTime /\ Spent = 0
      BY <2>2, LoadFacts DEF Spent
    <3>. QED  BY <2>2, <3>1, TimesAssumption DEF Work
  <2>5. thread' # "calls" /\ step' = 12
    BY <1>1, <1>4, <1>9, <2>2
  <2>6. Ahead(k)'
    BY <1>5, <1>6, <2>1, <2>4, <2>5, TimesAssumption DEF Ahead, tiempo
  <2>. QED  BY <1>7, <2>3, <2>6 DEF HandOver
<1>10. CASE step # 5 /\ step # 11
  <2>1. thread' = thread /\ todo' = todo /\ alert' = alert
    BY <1>4, <1>10
  <2>2. ASSUME step = 16 \/ wait = 0 PROVE ~ (2 * CallTime < tiempo - 1 /\ alert = 1)
    <3>1. Work(k, 4) \in Int /\ (alert = 1 => Work(k, 4) >= 0)
      <4>1. k \in Nat /\ 4 \in Nat
        OBVIOUS
      <4>. QED  BY <4>1, WorkLeft, WorkFacts DEF HandOver
    <3>2. 2 * CallTime < tiempo - 1 /\ alert = 1 => Work(k, 4) < 0
      BY <1>1 DEF HandOver, Ahead
    <3>. QED  BY <3>1, <3>2
  <2>3. step = 16 => alert = 3
    <3>1. step = 16 => TillEnd = 0
      BY <1>6, BeforeFacts
    <3>2. Work(k, 6) \in Int /\ (alert \in {1, 2} => Work(k, 6) >= 0)
      <4>1. k \in Nat /\ 6 \in Nat
        OBVIOUS
      <4>. QED  BY <4>1, WorkLeft, WorkFacts DEF HandOver
    <3>3. alert \in {1, 2} => Work(k, 6) < TillEnd
      BY DEF HandOver, Ahead
    <3>4. step = 16 => alert # 0
      BY DEF HandOver, Where
    <3>. QED  BY <1>1, <3>1, <3>2, <3>3, <3>4
  <2>4. step = 16 => thread # "calls"
    BY <1>1, <2>3 DEF HandOver, Where
  <2>5. Where(k)'
    BY <1>1, <1>4, <1>10, <2>1, <2>3, <2>4 DEF HandOver, Where
  <2>6. Ahead(k)'
    BY <1>1, <1>5, <1>6, <2>1, <2>2 DEF HandOver, Ahead, TillAlert
  <2>. QED  BY <1>7, <2>5, <2>6 DEF HandOver
<1>. QED  BY <1>8, <1>9, <1>10

LEMMA HandTick ==
  ASSUME TypeOK, NEW k \in 0 .. 10, HandOver(k), Tick
  PROVE  HandOver(k)'
<1>. USE DEF mainVars, threadVars, callVars, topicVars
<1>1. /\ wait' = (IF wait > 0 THEN wait - 1 ELSE 0)
      /\ left' = (IF left > 0 THEN left - 1 ELSE 0)
      /\ UNCHANGED <<step, alert, end, thread, seen, todo, call, net, fails>>
      /\ ~ Busy
  BY DEF Tick
<1>2. unheld' = IF ~ Unheld THEN 0
                ELSE IF unheld <= 2 * CallTime THEN unheld + 1 ELSE unheld
  BY DEF Tick
<1>3. /\ step \in 1 .. 18 /\ wait \in Nat /\ left \in Nat /\ alert \in 0 .. 3
      /\ seen \in 0 .. 3 /\ unheld \in Nat
  BY ScriptPlays DEF TypeOK
<1>4. Where(k) /\ Ahead(k) /\ Efforts(Made(k)) /\ Holding(k)
  BY DEF HandOver
<1>5. Where(k)'
  BY <1>1, <1>3, <1>4, TimesAssumption DEF Where
<1>6. ASSUME thread = "calls"
      PROVE  /\ call # "none" /\ left > 0 /\ Spent' = Spent + 1
             /\ Spent < CallTime /\ Spent \in Nat
  <2>1. call # "none" /\ left > 0
    BY <1>1, <1>3, <1>6 DEF Busy
  <2>2. left' = left - 1 /\ left <= CallTime
    BY <1>1, <1>4, <2>1 DEF Where
  <2>. QED  BY <1>1, <1>3, <2>1, <2>2, TimesAssumption DEF Spent
<1>7. ASSUME thread = "calls", NEW n \in Int
      PROVE  Work(k, n) \in Int /\ Work(k, n)' = Work(k, n) - 1
  <2>1. Load(n - k) \in Int
    BY LoadFacts
  <2>. QED  BY <1>6, <1>7, <2>1 DEF Work
<1>8. TillEnd \in Nat /\ TillEnd' >= TillEnd - 1 /\ TillEnd' \in Int
  <2>1. CASE step <= 16
    <3>1. Before[step] \in Nat
      BY <1>3, <2>1, BeforeFacts
    <3>. QED  BY <1>1, <1>3, <2>1, <3>1 DEF TillEnd
  <2>2. CASE ~ (step <= 16)
    BY <1>1, <2>2 DEF TillEnd
  <2>. QED  BY <2>1, <2>2
<1>9. /\ alert \in {1, 2} => thread = "calls"
      /\ alert # 0 /\ ~ end => thread = "calls" \/ alert = 3
  BY <1>1, <1>3, <1>4 DEF Busy, Where, TypeOK
<1>10. Ahead(k)'
  <2>1. thread = "calls" =>
          /\ Work(k, 2) \in Int /\ Work(k, 2)' = Work(k, 2) - 1
          /\ Work(k, 4) \in Int /\ Work(k, 4)' = Work(k, 4) - 1
          /\ Work(k, 6) \in Int /\ Work(k, 6)' = Work(k, 6) - 1
    <3>1. 2 \in Int /\ 4 \in Int /\ 6 \in Int
      OBVIOUS
    <3>. QED  BY <1>7, <3>1
  <2>2. thread = "calls" /\ seen = 0 => Work(k, 2)' < TillAlert'
    BY <1>4, <1>8, <2>1 DEF Ahead, TillAlert
  <2>3. alert \in {1, 2} => Work(k, 6)' < TillEnd'
    BY <1>4, <1>8, <1>9, <2>1 DEF Ahead
  <2>4. 2 * CallTime < tiempo - 1 /\ alert = 1 => step = 12 /\ Work(k, 4)' < wait'
    BY <1>1, <1>3, <1>4, <1>9, <2>1 DEF Ahead
  <2>. QED  BY <1>1, <2>2, <2>3, <2>4 DEF Ahead
<1>11. Made(k)' = Made(k) /\ Made(k) \in 0 .. 10 /\ Made(k) \in {k, k + 1}
  <2>1. call = "answered" => k \in 0 .. 9
    <3>1. PICK n \in Nat : n = Len(todo) /\ (call = "answered" => n > 0 /\ thread = "calls")
      BY DEF TypeOK
    <3>2. thread = "calls" => n = Last(seen) - k /\ Last(seen) \in 0 .. 10
      BY <1>3, <1>4, <3>1 DEF Where, Last
    <3>. QED  BY <3>1, <3>2
  <2>. QED  BY <1>1, <2>1 DEF Made
<1>12. Efforts(Made(k))'
  BY <1>1, <1>4, <1>11 DEF Efforts
<1>13. ASSUME NoneFailed PROVE net[1] = Net1[Made(k) + 1] /\ net[2] = Net2[Made(k) + 1]
  BY <1>4, <1>13 DEF Efforts, NoneFailed
<1>14. PICK m \in 0 .. 10 : m = Made(k)
  BY <1>11
<1>15. ASSUME NoneFailed, m # 3 PROVE ~ Unheld
  <2>1. CASE m \in {0, 1}
    <3>1. k \in {0, 1}
      BY <1>11, <1>14, <2>1
    <3>2. alert = 0
      BY <1>3, <1>4, <3>1 DEF Where, TypeOK, Polled
    <3>. QED  BY <3>2 DEF Unheld
  <2>2. CASE m = 2
    <3>1. net[1] = -99
      BY <1>13, <1>14, <1>15, <2>2 DEF Net1
    <3>. QED  BY <3>1 DEF Unheld
  <2>3. CASE m \in 4 .. 9
    <3>1. net[2] < 0
      BY <1>13, <1>14, <1>15, <2>3 DEF Net2
    <3>2. net[2] \in Int
      BY DEF TypeOK, Grippers
    <3>. QED  BY <3>1, <3>2 DEF Unheld
  <2>4. CASE m = 10
    <3>1. k \in {9, 10}
      BY <1>11, <1>14, <2>4
    <3>2. end
      <4>1. CASE thread = "calls"
        <5>1. PICK n \in Nat : n = Len(todo)
          BY DEF TypeOK
        <5>2. n = Last(seen) - k
          BY <1>4, <4>1, <5>1 DEF Where
        <5>3. seen = 3
          BY <1>3, <3>1, <5>2 DEF Last
        <5>. QED  BY <1>4, <4>1, <5>3 DEF Where
      <4>2. CASE thread \in {"polls", "looks"}
        BY <1>3, <1>4, <3>1, <4>2 DEF Where, Polled
      <4>3. CASE thread = "none"
        BY <1>4, <3>1, <4>3 DEF Where
      <4>4. CASE thread = "done"
        BY <1>4, <4>4 DEF Where
      <4>. QED  BY <4>1, <4>2, <4>3, <4>4 DEF TypeOK
    <3>. QED  BY <3>2 DEF Unheld
  <2>. QED  BY <1>15, <2>1, <2>2, <2>3, <2>4
<1>16. ASSUME m = 3
       PROVE  /\ Work(k, 4) \in Int /\ Work(k, 4)' \in Int
              /\ Work(k, 4)' <= 2 * CallTime
              /\ alert # 0 => /\ Work(k, 4)' = Work(k, 4) - 1
                              /\ Work(k, 4)' >= 0
  <2>1. k \in {2, 3} /\ (k = 2 => call = "answered")
    BY <1>14, <1>16 DEF Made
  <2>2. Load(4 - k) \in {CallTime, 2 * CallTime}
    <3>1. 4 - 3 = 1 /\ 4 - 2 = 2
      OBVIOUS
    <3>. QED  BY <2>1, <3>1, LoadFacts
  <2>3. Spent \in Nat /\ Spent <= CallTime /\ Spent' \in Nat
    <3>1. Spent \in Nat /\ Spent <= CallTime
      BY <1>4, WorkFacts
    <3>2. Spent' \in Nat
      BY <1>1, <1>3, <1>4, TimesAssumption DEF Spent, Where
    <3>. QED  BY <3>1, <3>2
  <2>4. Work(k, 4) = Load(4 - k) - Spent /\ Work(k, 4)' = Load(4 - k) - Spent'
    BY DEF Work
  <2>5. alert # 0 => thread = "calls"
    BY <1>1, <1>3, <1>4, <2>1 DEF Where, Polled, TypeOK
  <2>. QED  BY <1>6, <2>2, <2>3, <2>4, <2>5, TimesAssumption
<1>17. Holding(k)'
  <2>. SUFFICES ASSUME NoneFailed
       PROVE /\ m < 3 => unheld' = 0
             /\ m = 3 => unheld' + Work(k, 4)' <= 2 * CallTime
             /\ unheld' <= 2 * CallTime
    BY <1>1, <1>11, <1>14 DEF Holding, NoneFailed
  <2>1. CASE m # 3
    BY <1>2, <1>15, <2>1, TimesAssumption
  <2>2. CASE m = 3
    <3>1. unheld + Work(k, 4) <= 2 * CallTime /\ unheld <= 2 * CallTime
      BY <1>4, <1>14, <2>2 DEF Holding
    <3>2. CASE Unheld
      <4>1. unheld' = unheld + 1 /\ alert # 0
        BY <1>2, <3>1, <3>2 DEF Unheld
      <4>. QED  BY <1>3, <1>16, <2>2, <3>1, <4>1, TimesAssumption
    <3>3. CASE ~ Unheld
      <4>1. unheld' = 0
        BY <1>2, <3>3
      <4>. QED  BY <1>16, <2>2, <4>1, TimesAssumption
    <3>. QED  BY <3>2, <3>3
  <2>. QED  BY <2>1, <2>2
<1>. QED  BY <1>5, <1>10, <1>12, <1>17 DEF HandOver

LEMMA HandInit == Init => HandInv
<1>. SUFFICES ASSUME Init PROVE HandOver(0)
  BY DEF HandInv
<1>1. /\ step = 1 /\ wait = 0 /\ alert = 0 /\ ~ end /\ thread = "none"
      /\ seen = 0 /\ call = "none" /\ unheld = 0
      /\ net[1] = 0 /\ net[2] = 0 /\ fails[1] = 0 /\ fails[2] = 0
  BY DEF Init, Grippers
<1>2. Where(0)
  BY <1>1 DEF Where
<1>3. Ahead(0)
  BY <1>1 DEF Ahead
<1>4. Made(0) = 0
  BY <1>1 DEF Made
<1>5. Efforts(Made(0))
  BY <1>1, <1>4 DEF Efforts, Net1, Net2, Opened1
<1>6. Holding(0)
  BY <1>1, <1>4, TimesAssumption DEF Holding
<1>. QED  BY <1>2, <1>3, <1>5, <1>6 DEF HandOver

LEMMA HandStep ==
  ASSUME 4 * CallTime < 19, TypeOK, HandInv, [Next]_vars
  PROVE  HandInv'
<1>. USE DEF mainVars, threadVars, callVars, topicVars
<1>1. PICK k \in 0 .. 10 : HandOver(k)
  BY DEF HandInv
<1>2. ASSUME HandOver(k)' PROVE HandInv'
  BY <1>2 DEF HandInv
<1>3. CASE PlayStep
  BY <1>1, <1>2, <1>3, HandPlay
<1>4. CASE Join
  BY <1>1, <1>2, <1>4, HandJoin
<1>5. CASE CallService
  BY <1>1, <1>2, <1>5, HandCallService
<1>6. CASE Serve
  BY <1>1, <1>2, <1>6, HandServe
<1>7. CASE CallReturns
  <2>1. k + 1 \in 0 .. 10 /\ HandOver(k + 1)'
    BY <1>1, <1>7, HandCallReturns
  <2>. QED  BY <2>1 DEF HandInv
<1>8. CASE CallsMade
  BY <1>1, <1>2, <1>8, HandCallsMade
<1>9. CASE TestEnd
  BY <1>1, <1>2, <1>9, HandTestEnd
<1>10. CASE TestAlert
  BY <1>1, <1>2, <1>10, HandTestAlert
<1>11. CASE Tick
  BY <1>1, <1>2, <1>11, HandTick
<1>12. CASE Catch \/ (\E t \in Topics : Link(t)) \/ UNCHANGED vars
  <2>1. UNCHANGED <<step, wait, alert, end, thread, seen, todo, call, left, net,
                    fails, unheld>>
    BY <1>12 DEF Catch, Link, vars
  <2>. QED  BY <1>1, <1>2, <2>1, HandIdle
<1>. QED
  BY <1>3, <1>4, <1>5, <1>6, <1>7, <1>8, <1>9, <1>10, <1>11, <1>12
     DEF Next, MainThread, SecondThread

LEMMA HandAlways ==
  ASSUME 4 * CallTime < 19
  PROVE  Spec => [](TypeOK /\ HandInv)
<1>1. Init => TypeOK /\ HandInv
  BY TypeInit, HandInit
<1>2. TypeOK /\ HandInv /\ [Next]_vars => (TypeOK /\ HandInv)'
  BY TypeStep, HandStep
<1>. QED  BY <1>1, <1>2, PTL DEF Spec

(* If four calls of the service take less than the pauses from the alert   *)
(* to the end, the piece is held by neither gripper for two calls at most. *)
THEOREM HeldAgainSoon ==
  ASSUME 4 * CallTime < 19
  PROVE  Spec => []BrieflyUnheld
<1>1. TypeOK /\ HandInv => BrieflyUnheld
  <2>. SUFFICES ASSUME HandInv, fails = [g \in Grippers |-> 0]
       PROVE unheld <= 2 * CallTime
    BY DEF BrieflyUnheld
  <2>1. NoneFailed
    BY DEF NoneFailed, Grippers
  <2>. QED  BY <2>1 DEF HandInv, HandOver, Holding
<1>. QED  BY <1>1, HandAlways, PTL

(* Then both grippers are open when main_publisher is over, gripper 1 even *)
(* after three failed calls and gripper 2 if none of its calls failed.     *)
THEOREM BothOpenAtEnd ==
  ASSUME 4 * CallTime < 19
  PROVE  Spec => []ReleasedAtEnd
<1>1. TypeOK /\ HandInv => ReleasedAtEnd
  <2>. SUFFICES ASSUME TypeOK, HandInv, step = 18
       PROVE  /\ fails[1] <= 3 => net[1] > 0
              /\ fails[2] = 0 => net[2] > 0
    BY ScriptPlays DEF ReleasedAtEnd
  <2>1. PICK k \in 0 .. 10 : HandOver(k)
    BY DEF HandInv
  <2>2. k = 10 /\ call = "none"
    BY <2>1 DEF HandOver, Where, TypeOK
  <2>3. Made(k) = 10
    BY <2>2 DEF Made
  <2>4. /\ fails[2] = 0 => net[2] = 199
        /\ net[1] >= 100 * (4 - fails[1]) - 99
    BY <2>1, <2>3 DEF HandOver, Efforts, Net2, Opened1
  <2>5. fails[1] \in Nat /\ net[1] \in Int
    BY DEF TypeOK, Grippers
  <2>. QED  BY <2>4, <2>5
<1>. QED  BY <1>1, HandAlways, PTL

(* If two calls take less than the pause after the alert, arm 1 draws back *)
(* only after gripper 1 has let go and gripper 2 has gripped the piece.    *)
THEOREM GrippedBeforeDrawBack ==
  ASSUME 2 * CallTime < tiempo - 1
  PROVE  Spec => HandedOver
<1>. DEFINE Drawn == sent["elbow_1"] = 70 /\ sent'["elbow_1"] = -70
                     /\ fails = [g \in Grippers |-> 0]
                     => net[1] > 0 /\ net[2] < 0
<1>1. 4 * CallTime < 19
  BY TimesAssumption DEF tiempo
<1>2. ASSUME TypeOK, HandInv, [Next]_vars PROVE [Drawn]_vars
  <2>. SUFFICES ASSUME sent["elbow_1"] = 70, sent'["elbow_1"] = -70,
                       fails = [g \in Grippers |-> 0]
       PROVE  net[1] > 0 /\ net[2] < 0
    OBVIOUS
  <2>1. PlayStep
    <3>1. ASSUME Catch PROVE sent'["elbow_1"] = sent["elbow_1"]
      BY <3>1 DEF Catch, Send, Topics, ArmTopics
    <3>2. ASSUME ~ PlayStep, ~ Catch PROVE sent' = sent
      BY <1>2, <3>2
         DEF Next, MainThread, SecondThread, Join, CallService, Serve,
             CallReturns, CallsMade, TestEnd, TestAlert, Tick, Link, vars,
             topicVars
    <3>. QED  BY <3>1, <3>2
  <2>2. step \in 1 .. 16 /\ wait = 0
    <3>1. step <= Len(Script) /\ wait = 0 /\ Len(Script) = 16
      BY <2>1, ScriptPlays DEF PlayStep
    <3>2. step \in 1 .. Len(Script) + 2
      BY <1>2 DEF TypeOK
    <3>. QED  BY <3>1, <3>2
  <2>3. step = 12
    <3>. DEFINE sends == Script[step].sends
    <3>1. /\ step # 12 /\ "elbow_1" \in DOMAIN sends => sends["elbow_1"] = 70
      BY <2>2, ScriptPlays DEF IsPlay
    <3>2. "elbow_1" \in Topics /\ Send(sends)
      BY <2>1 DEF PlayStep, Topics, ArmTopics
    <3>. HIDE DEF sends
    <3>3. sent'["elbow_1"] = IF "elbow_1" \in DOMAIN sends THEN sends["elbow_1"]
                             ELSE sent["elbow_1"]
      BY <3>2 DEF Send
    <3>. QED  BY <3>1, <3>3
  <2>4. PICK k \in 0 .. 10 : HandOver(k)
    BY <1>2 DEF HandInv
  <2>5. /\ alert \in {2, 3} /\ ~ end /\ thread # "none" /\ thread # "done"
        /\ seen \in 0 .. 3
    <3>1. alert # 0 /\ alert \in 0 .. 3 /\ ~ end /\ thread # "none"
          /\ thread # "done" /\ seen \in 0 .. 3
      BY <1>2, <2>3, <2>4 DEF HandOver, Where, TypeOK
    <3>2. alert # 1
      <4>1. ASSUME alert = 1 PROVE FALSE
        <5>1. Work(k, 4) < 0
          BY <2>2, <2>4, <4>1 DEF HandOver, Ahead
        <5>2. Work(k, 4) >= 0 /\ Work(k, 4) \in Int
          <6>1. k \in Nat /\ 4 \in Nat
            OBVIOUS
          <6>. QED  BY <1>2, <2>4, <4>1, <6>1, WorkLeft, WorkFacts DEF HandOver
        <5>. QED  BY <5>1, <5>2
      <4>. QED  BY <4>1
    <3>. QED  BY <3>1, <3>2
  <2>6. k \in 4 .. 6 /\ (k = 6 => call = "none")
    <3>1. CASE thread = "calls"
      <4>1. PICK n \in Nat : n = Len(todo) /\ (call # "none" => n > 0)
        BY <1>2 DEF TypeOK
      <4>2. seen = 2 /\ k >= 4 /\ n = 6 - k
        BY <2>4, <2>5, <3>1, <4>1 DEF HandOver, Where, Last
      <4>. QED  BY <4>1, <4>2
    <3>2. CASE thread # "calls"
      BY <1>2, <2>4, <2>5, <3>2 DEF HandOver, Where, TypeOK, Polled
    <3>. QED  BY <3>1, <3>2
  <2>7. Made(k) \in 4 .. 6
    BY <2>6 DEF Made
  <2>8. net[1] = Net1[Made(k) + 1] /\ net[2] = Net2[Made(k) + 1]
    BY <2>4 DEF HandOver, Efforts, Grippers
  <2>. QED  BY <2>7, <2>8 DEF Net1, Net2
<1>3. Spec => [][Drawn]_vars
  BY <1>1, <1>2, HandAlways, PTL DEF Spec
<1>. QED  BY <1>3 DEF HandedOver
=============================================================================
