--------------------------- MODULE RxDialogProofs ---------------------------
(***************************************************************************)
(* Theorems about RxDialog, for any commands and any number of them: as    *)
(* long as no command has a decimal point and the ones that ask are sent   *)
(* with waitQuestionMark, a call of sendCommand is one exchange.           *)
(***************************************************************************)
EXTENDS RxDialog, TLAPS

(* The echo of a command without decimal points has no point. *)
LEMMA NoEcho == Points(0) = << >>
BY DEF Points

(* The initial state is idle. *)
LEMMA DialogInit == Init => DialogInv
BY DEF Init, DialogInv, Idle

(* Every step of the program or of the monitor takes a call from one stage *)
(* to the next, or leaves it in its stage.                                 *)
LEMMA DialogStep ==
  ASSUME NoPoints, QuestionsAwaited, DialogInv, [Next]_vars
  PROVE  DialogInv'
<1>1. CASE Write
  <2>1. PICK c \in Commands : command' = Line(c) /\ lines' = Append(lines, Line(c))
                              /\ pc' = IF c.waits THEN "question" ELSE "prompt"
    BY <1>1 DEF Write
  <2>2. Idle
    BY <1>1 DEF Write, DialogInv, Idle, Sent, Busy, Asked, Answered, Prompted
  <2>3. lines' = <<command'>>
    BY <2>1, <2>2 DEF Idle
  <2>4. Sent'
    BY <1>1, <2>1, <2>2, <2>3, CommandsAssumption
       DEF Write, monitorVars, Sent, Proper, Idle, Line, NoPoints,
           QuestionsAwaited, DialogInv
  <2>. QED  BY <1>1, <2>4 DEF Write, monitorVars, DialogInv
<1>2. CASE Question
  <2>1. Asked
    BY <1>2 DEF Question, DialogInv, Idle, Sent, Busy, Asked, Answered, Prompted
  <2>2. CASE chars = <<"?">>
    <3>1. Answered'
      BY <1>2, <2>1, <2>2 DEF Question, monitorVars, Asked, Answered
    <3>. QED  BY <1>2, <3>1 DEF Question, monitorVars, DialogInv
  <2>3. CASE chars = <<".", "?">>
    <3>1. Head(chars) = "." /\ Tail(chars) = <<"?">>
      BY <2>3
    <3>2. Asked'
      BY <1>2, <2>1, <3>1 DEF Question, monitorVars, Asked
    <3>. QED  BY <1>2, <3>2 DEF Question, monitorVars, DialogInv
  <2>. QED  BY <2>1, <2>2, <2>3 DEF Asked
<1>3. CASE Prompt
  <2>1. Prompted
    BY <1>3 DEF Prompt, DialogInv, Idle, Sent, Busy, Asked, Answered, Prompted
  <2>2. Idle'
    BY <1>3, <2>1 DEF Prompt, monitorVars, Idle, Prompted
  <2>. QED  BY <1>3, <2>2 DEF Prompt, monitorVars, DialogInv
<1>4. CASE Read
  <2>1. CASE Sent
    <3>1. Head(lines) = command /\ Tail(lines) = << >>
      BY <2>1 DEF Sent
    <3>2. chars \o Points(command.points) = << >>
      BY <2>1, NoEcho DEF Sent, Proper
    <3>3. Busy'
      BY <1>4, <2>1, <3>1, <3>2 DEF Read, programVars, Sent, Busy, Proper
    <3>. QED  BY <1>4, <3>3 DEF Read, programVars, DialogInv
  <2>. QED
    BY <1>4, <2>1 DEF Read, DialogInv, Idle, Busy, Asked, Answered, Prompted
<1>5. CASE Finish
  <2>1. Busy /\ ~command.waits
    BY <1>5 DEF Finish, DialogInv, Idle, Sent, Busy, Asked, Answered, Prompted,
                Proper
  <2>2. Prompted'
    BY <1>5, <2>1 DEF Finish, programVars, Busy, Prompted, Proper, DialogInv
  <2>. QED  BY <1>5, <2>2 DEF Finish, programVars, DialogInv
<1>6. CASE Ask
  <2>1. Busy /\ command.waits
    BY <1>6 DEF Ask, DialogInv, Idle, Sent, Busy, Asked, Answered, Prompted,
                Proper
  <2>2. PICK printed \in {<<"?">>, <<".", "?">>} : chars' = chars \o printed
    BY <1>6 DEF Ask
  <2>3. << >> \o <<"?">> = <<"?">> /\ << >> \o <<".", "?">> = <<".", "?">>
    OBVIOUS
  <2>4. chars' \in {<<"?">>, <<".", "?">>}
    BY <2>1, <2>2, <2>3 DEF Busy
  <2>5. Asked'
    BY <1>6, <2>1, <2>4 DEF Ask, programVars, Busy, Asked, Proper
  <2>. QED  BY <1>6, <2>5 DEF Ask, programVars, DialogInv
<1>7. CASE TakeAnswer
  <2>1. Answered
    BY <1>7 DEF TakeAnswer, DialogInv, Idle, Sent, Busy, Asked, Answered,
                Prompted
  <2>2. Prompted'
    BY <1>7, <2>1 DEF TakeAnswer, programVars, Answered, Prompted
  <2>. QED  BY <1>7, <2>2 DEF TakeAnswer, programVars, DialogInv
<1>8. CASE UNCHANGED vars
  BY <1>8 DEF vars, programVars, monitorVars, DialogInv, Idle, Sent, Busy,
              Asked, Answered, Prompted, Proper
<1>. QED
  BY <1>1, <1>2, <1>3, <1>4, <1>5, <1>6, <1>7, <1>8
     DEF Next, Program, Monitor

(* Whatever is sent, in any order: the text, the echo, the question, its   *)
(* answer and the prompt are never on the line but at their stage of the   *)
(* call, so neither side can take one for another.                         *)
THEOREM DialogStaged ==
  ASSUME NoPoints, QuestionsAwaited
  PROVE  Spec => []DialogInv
<1>1. Init => DialogInv
  BY DialogInit
<1>2. DialogInv /\ [Next]_vars => DialogInv'
  BY DialogStep
<1>. QED  BY <1>1, <1>2, PTL DEF Spec

(* If its callers keep to whole numbers and to waitQuestionMark, a call of *)
(* sendCommand never returns before its command has been carried out, nor  *)
(* leaves anything on the line.                                            *)
THEOREM DialogSynchronised ==
  ASSUME NoPoints, QuestionsAwaited
  PROVE  Spec => []Synchronised
<1>1. Init => DialogInv
  BY DialogInit
<1>2. DialogInv /\ [Next]_vars => DialogInv'
  BY DialogStep
<1>3. DialogInv => Synchronised
  BY DEF DialogInv, Synchronised, Idle, Sent, Busy, Asked, Answered, Prompted
<1>. QED  BY <1>1, <1>2, <1>3, PTL DEF Spec

(* Every step of the dialogue is a step of the exchange, or none of it. *)
LEMMA DialogMaps ==
  ASSUME DialogInv, DialogInv', [Next]_vars
  PROVE  [Exchange!Next]_<<IF pc = "idle" THEN "idle"
                           ELSE IF done = sent THEN "executed" ELSE "sent", done>>
<1>1. CASE Write
  BY <1>1 DEF Write, monitorVars, DialogInv, Idle, Sent, Busy, Asked, Answered,
              Prompted, Exchange!Next, Exchange!Call
<1>2. CASE Question
  BY <1>2 DEF Question, monitorVars, DialogInv, Idle, Sent, Busy, Asked,
              Answered, Prompted, Exchange!Next
<1>3. CASE Prompt
  <2>1. Prompted
    BY <1>3 DEF Prompt, DialogInv, Idle, Sent, Busy, Asked, Answered, Prompted
  <2>. QED
    BY <1>3, <2>1 DEF Prompt, monitorVars, Prompted, Exchange!Next,
                      Exchange!Return
<1>4. CASE Read
  BY <1>4 DEF Read, programVars, Exchange!Next
<1>5. CASE Finish
  BY <1>5 DEF Finish, programVars, DialogInv, Idle, Sent, Busy, Asked,
              Answered, Prompted, Proper, Exchange!Next, Exchange!Execute
<1>6. CASE Ask
  BY <1>6 DEF Ask, programVars, Exchange!Next
<1>7. CASE TakeAnswer
  BY <1>7 DEF TakeAnswer, programVars, DialogInv, Idle, Sent, Busy, Asked,
              Answered, Prompted, Proper, Exchange!Next, Exchange!Execute
<1>8. CASE UNCHANGED vars
  BY <1>8 DEF vars, programVars, monitorVars
<1>. QED
  BY <1>1, <1>2, <1>3, <1>4, <1>5, <1>6, <1>7, <1>8
     DEF Next, Program, Monitor

(* The dialogue implements the exchange: commands one at a time, each      *)
(* carried out before its call returns.                                    *)
THEOREM DialogIsExchange ==
  ASSUME NoPoints, QuestionsAwaited
  PROVE  Spec => IsExchange
<1>1. Init => DialogInv /\ Exchange!Init
  BY DialogInit DEF Init, Exchange!Init
<1>2. DialogInv /\ [Next]_vars => DialogInv'
  BY DialogStep
<1>3. DialogInv /\ DialogInv' /\ [Next]_vars
      => [Exchange!Next]_<<IF pc = "idle" THEN "idle"
                           ELSE IF done = sent THEN "executed" ELSE "sent", done>>
  BY DialogMaps
<1>. QED  BY <1>1, <1>2, <1>3, PTL DEF Spec, IsExchange, Exchange!Spec
=============================================================================
