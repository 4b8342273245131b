------------------------------ MODULE RxDialog -------------------------------
(***************************************************************************)
(* The dialogue of Rx90::sendCommand with the V+ monitor over the serial   *)
(* line.  All four copies of Rx90.cpp have the same sendCommand: write a   *)
(* line, if asked to wait for the '?' of HERE and answer it with an empty  *)
(* line, then read up to the '.' that V+ prompts with.  Of the characters  *)
(* only '.' and '?' count.                                                 *)
(*                                                                         *)
(* The monitor is external: it echoes a line as it reads it, carries it    *)
(* out, and prompts; HERE first prints the location and asks for a change. *)
(***************************************************************************)
EXTENDS Naturals, Sequences

CONSTANTS
  Commands,   \* what the callers send: the decimal points in the text, does
              \* V+ ask a question, does the caller pass waitQuestionMark
  MaxCommands \* bound: commands sent

ASSUME CommandsAssumption ==
  Commands \subseteq [points : Nat, asks : BOOLEAN, waits : BOOLEAN]
ASSUME MaxAssumption == MaxCommands \in Nat

VARIABLES
  pc,       \* the program: "idle", or reading up to a "question" or "prompt"
  command,  \* the argument of sendCommand
  sent,     \* commands sent so far
  lines,    \* lines under way to the monitor
  chars,    \* characters under way to the program
  monitor,  \* "ready", "busy" or "asking"
  current,  \* the line the monitor has read last
  done      \* commands the monitor has carried out

programVars == <<pc, command, sent>>
monitorVars == <<monitor, current, done>>
vars == <<programVars, monitorVars, lines, chars>>

(* The line that is only END. *)
END == [points |-> 0, asks |-> FALSE, waits |-> FALSE, empty |-> TRUE]
Line(c) == [points |-> c.points, asks |-> c.asks, waits |-> c.waits,
            empty |-> FALSE]

Init ==
  /\ pc = "idle" /\ command = END /\ sent = 0
  /\ lines = << >> /\ chars = << >>
  /\ monitor = "ready" /\ current = END /\ done = 0

(* serial << command << END *)
Write ==
  /\ pc = "idle" /\ sent < MaxCommands
  /\ \E c \in Commands :
       /\ command' = Line(c)
       /\ lines' = Append(lines, Line(c))
       /\ pc' = IF c.waits THEN "question" ELSE "prompt"
  /\ sent' = sent + 1
  /\ UNCHANGED <<chars, monitorVars>>

(* Mutant of Question: the answer to the '?' is not sent. *)
QuestionUnanswered ==
  /\ pc = "question" /\ chars # << >>
  /\ chars' = Tail(chars)
  /\ IF Head(chars) = "?"
     THEN pc' = "prompt" /\ lines' = lines
     ELSE UNCHANGED <<pc, lines>>
  /\ UNCHANGED <<command, sent, monitorVars>>

(* do { serial >> qm; } while (qm != '?'); serial << END *)
Question ==
  /\ pc = "question" /\ chars # << >>
  /\ chars' = Tail(chars)
  /\ IF Head(chars) = "?"
     THEN pc' = "prompt" /\ lines' = Append(lines, END)
     ELSE UNCHANGED <<pc, lines>>
  /\ UNCHANGED <<command, sent, monitorVars>>

(* Mutant of Prompt: any character ends the call. *)
PromptAny ==
  /\ pc = "question" \/ pc = "prompt"
  /\ chars # << >>
  /\ chars' = Tail(chars)
  /\ pc' = "idle"
  /\ UNCHANGED <<command, sent, lines, monitorVars>>

(* do { serial >> r; } while (r != '.') *)
Prompt ==
  /\ pc = "prompt" /\ chars # << >>
  /\ chars' = Tail(chars)
  /\ pc' = IF Head(chars) = "." THEN "idle" ELSE pc
  /\ UNCHANGED <<command, sent, lines, monitorVars>>

Program == Write \/ Question \/ Prompt

-----------------------------------------------------------------------------
Points(n) == [i \in 1 .. n |-> "."]

(* The monitor reads a line and echoes it; an empty one it only prompts. *)
Read ==
  /\ monitor = "ready" /\ lines # << >>
  /\ lines' = Tail(lines)
  /\ current' = Head(lines)
  /\ IF Head(lines).empty
     THEN chars' = Append(chars, ".") /\ UNCHANGED monitor
     ELSE chars' = chars \o Points(Head(lines).points) /\ monitor' = "busy"
  /\ UNCHANGED <<programVars, done>>

(* It carries the line out and prompts. *)
Finish ==
  /\ monitor = "busy" /\ ~current.asks
  /\ chars' = Append(chars, ".")
  /\ monitor' = "ready"
  /\ done' = done + 1
  /\ UNCHANGED <<programVars, lines, current>>

(* HERE prints the location, which has points or not: a program that waits *)
(* for the '?' skips one as it skips several.                              *)
Ask ==
  /\ monitor = "busy" /\ current.asks
  /\ \E printed \in {<<"?">>, <<".", "?">>} : chars' = chars \o printed
  /\ monitor' = "asking"
  /\ UNCHANGED <<programVars, lines, current, done>>

(* Whatever line comes is the answer. *)
TakeAnswer ==
  /\ monitor = "asking" /\ lines # << >>
  /\ lines' = Tail(lines)
  /\ chars' = Append(chars, ".")
  /\ monitor' = "ready"
  /\ done' = done + 1
  /\ UNCHANGED <<programVars, current>>

Monitor == Read \/ Finish \/ Ask \/ TakeAnswer

Next == Program \/ Monitor

Spec == Init /\ [][Next]_vars

(* The program's thread runs and the monitor works. *)
FairSpec == Spec /\ WF_vars(Question \/ Prompt) /\ WF_vars(Monitor)

-----------------------------------------------------------------------------
(* When sendCommand returns, the monitor has carried out every command it  *)
(* was sent, waits for the next, and nothing of its answer is left on the  *)
(* line to be taken for the answer to the next command.                    *)
Synchronised ==
  pc = "idle" => /\ done = sent /\ monitor = "ready"
                 /\ lines = << >> /\ chars = << >>

(* The command in hand is one its callers may send, and not carried out. *)
Proper == /\ command.empty = FALSE /\ command.points = 0
          /\ command.asks = command.waits
          /\ sent = done + 1

(* The stages of a call, in the order the dialogue goes through them. *)
Idle == pc = "idle" /\ lines = << >> /\ chars = << >> /\ monitor = "ready"
        /\ done = sent
Sent == /\ pc = (IF command.waits THEN "question" ELSE "prompt") /\ Proper
        /\ lines = <<command>> /\ chars = << >> /\ monitor = "ready"
Busy == /\ pc = (IF command.waits THEN "question" ELSE "prompt") /\ Proper
        /\ lines = << >> /\ chars = << >> /\ monitor = "busy"
        /\ current = command
Asked == /\ pc = "question" /\ sent = done + 1
         /\ lines = << >> /\ chars \in {<<"?">>, <<".", "?">>}
         /\ monitor = "asking"
Answered == /\ pc = "prompt" /\ sent = done + 1
            /\ lines = <<END>> /\ chars = << >> /\ monitor = "asking"
Prompted == /\ pc = "prompt" /\ done = sent
            /\ lines = << >> /\ chars = <<".">> /\ monitor = "ready"

(* A call is always in one of its stages: the program and the monitor are  *)
(* never both waiting, and never ahead of one another by more than a line. *)
DialogInv ==
  /\ sent \in Nat /\ done \in Nat
  /\ Idle \/ Sent \/ Busy \/ Asked \/ Answered \/ Prompted

Exchange == INSTANCE RxExchange WITH
  state <- IF pc = "idle" THEN "idle"
           ELSE IF done = sent THEN "executed" ELSE "sent",
  count <- done

(* The dialogue implements the exchange its callers take for granted. *)
IsExchange == Exchange!Spec

(* Every call of sendCommand returns. *)
CallsReturn == pc # "idle" ~> pc = "idle"

(* What the callers have to see to: no decimal point in the text, and      *)
(* waitQuestionMark for the commands that ask.                             *)
NoPoints == \A c \in Commands : c.points = 0
QuestionsAwaited == \A c \in Commands : c.asks = c.waits
=============================================================================
