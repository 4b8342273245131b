--------------------------- MODULE RxClientProofs ---------------------------
(***************************************************************************)
(* Theorems about RxClient, for any number of connections, of options and  *)
(* of timeouts, and whatever the user types or the stack holds: what the   *)
(* program sends is what some master of RxMasters sends, and what it tells *)
(* and takes for granted of the pincers is so.                             *)
(***************************************************************************)
EXTENDS RxClient, RxServerProofs

USE DEF NUM_REG, NCLIENT, ADDR_RX90_STATE, ADDR_CLIENT, ADDR_INI_POSITION,
        ADDR_FIN_POSITION, ADDR_PINZA, OPEN_PINCERS, CLOSE_PINCERS,
        DISCONNECT, NO_COMMAND, STATE_POWERINGON, COMMAND_START,
        COMMAND_FINISH, ROBOT_CATCH, ROBOT_DROP, ROBOT_AUTOMOVE,
        READ_REGISTERS, WRITE_ONLY_REGISTER, WRITE_MULTIPLE_REGISTERS,
        WRITE_MASK_REGISTER, READ_WRITE_REGISTERS, READ_FIFO

(* A list without its head, and one with an element before it. *)
LEMMA TailOf ==
  ASSUME NEW S, NEW s \in Seq(S), s # << >>
  PROVE  /\ Head(s) \in S /\ Head(s) = s[1] /\ Tail(s) \in Seq(S)
         /\ Len(Tail(s)) \in Nat /\ Len(s) = Len(Tail(s)) + 1
         /\ \A i \in 1 .. Len(Tail(s)) : Tail(s)[i] = s[i + 1]
<1>1. Head(s) \in S /\ Head(s) = s[1] /\ Tail(s) \in Seq(S)
      /\ Len(Tail(s)) \in Nat /\ Len(s) = Len(Tail(s)) + 1
  OBVIOUS
<1>2. \A i \in 1 .. Len(Tail(s)) : Tail(s)[i] = s[i + 1]
  BY <1>1
<1>. QED  BY <1>1, <1>2

LEMMA ConsOf ==
  ASSUME NEW S, NEW x \in S, NEW t \in Seq(S)
  PROVE  /\ <<x>> \o t \in Seq(S) /\ <<x>> \o t # << >>
         /\ Len(t) \in Nat /\ Len(<<x>> \o t) = Len(t) + 1
         /\ Head(<<x>> \o t) = x /\ (<<x>> \o t)[1] = x
         /\ \A i \in 1 .. Len(t) : (<<x>> \o t)[i + 1] = t[i]
<1>1. /\ <<x>> \o t \in Seq(S) /\ Len(t) \in Nat
      /\ Len(<<x>> \o t) = Len(t) + 1 /\ (<<x>> \o t)[1] = x
  OBVIOUS
<1>2. <<x>> \o t # << >> /\ Head(<<x>> \o t) = x
  BY <1>1
<1>3. ASSUME NEW i \in 1 .. Len(t) PROVE (<<x>> \o t)[i + 1] = t[i]
  BY <1>1, <1>3
<1>. QED  BY <1>1, <1>2, <1>3

LEMMA EmptyConcat == ASSUME NEW S, NEW t \in Seq(S) PROVE << >> \o t = t
OBVIOUS

-----------------------------------------------------------------------------
(* The calls. *)
LEMMA CallKinds ==
  ASSUME NEW a \in Calls
  PROVE  /\ a.do \in {"command", "toggle", "message", "move", "readPosition",
                      "catchIf", "readAll"}
         /\ a.needs \in Needs
         /\ a.do = "command" => a.code \in {Jogs.UP, Jogs.BACKWARD, ROBOT_CATCH}
         /\ a.do = "catchIf" => a.state \in {OPEN_PINCERS, CLOSE_PINCERS}
         /\ a.do = "move" => a.by \in Int
         /\ a.do \notin {"move", "readPosition"} => a.needs = "any"
BY DEF Calls, Needs

LEMMA CallTypes ==
  /\ \A code \in {Jogs.UP, Jogs.BACKWARD, ROBOT_CATCH} : Command(code) \in Calls
  /\ Toggle \in Calls /\ Message \in Calls /\ ReadAll \in Calls
  /\ \A by \in Int, n \in Needs : Move(by, n) \in Calls
  /\ \A n \in Needs : ReadPosition(n) \in Calls
  /\ \A s \in {OPEN_PINCERS, CLOSE_PINCERS} : CatchIf(s) \in Calls
<1>1. \A code \in {Jogs.UP, Jogs.BACKWARD, ROBOT_CATCH} : Command(code) \in Calls
  BY DEF Calls, Command
<1>2. Toggle \in Calls /\ Message \in Calls /\ ReadAll \in Calls
  BY DEF Calls, Toggle, Message, ReadAll
<1>3. \A by \in Int, n \in Needs : Move(by, n) \in Calls
  BY DEF Calls, Move
<1>4. \A n \in Needs : ReadPosition(n) \in Calls
  BY DEF Calls, ReadPosition
<1>5. \A s \in {OPEN_PINCERS, CLOSE_PINCERS} : CatchIf(s) \in Calls
  BY DEF Calls, CatchIf
<1>. QED  BY <1>1, <1>2, <1>3, <1>4, <1>5

LEMMA CallFields ==
  /\ \A code : /\ Command(code).do = "command" /\ Command(code).code = code
               /\ Command(code).needs = "any"
  /\ Toggle.do = "toggle" /\ Toggle.needs = "any"
  /\ Message.do = "message" /\ Message.needs = "any"
  /\ ReadAll.do = "readAll" /\ ReadAll.needs = "any"
  /\ \A by, n : Move(by, n).do = "move" /\ Move(by, n).needs = n
  /\ \A n : ReadPosition(n).do = "readPosition" /\ ReadPosition(n).needs = n
  /\ \A s : /\ CatchIf(s).do = "catchIf" /\ CatchIf(s).state = s
            /\ CatchIf(s).needs = "any"
BY DEF Command, Toggle, Message, ReadAll, Move, ReadPosition, CatchIf

(* A call is made with the number of registers it is for... *)
Fit(call, n) ==
  /\ call.needs # "any" \/ call.do = "readPosition" => n = 7
  /\ call.do = "readAll" => n = NUM_REG
AllFit(s, n) == \A i \in 1 .. Len(s) : Fit(s[i], n)

(* ... and one that needs the pincers in some state comes after one that   *)
(* needs them so, or after what sees to it.  A catch is only ever next.    *)
Other(state) == IF state = "open" THEN "closed" ELSE "open"
Named(word) == IF word = CLOSE_PINCERS THEN "closed" ELSE "open"
Follow(a, b) ==
  /\ b # Command(ROBOT_CATCH)
  /\ b.needs # "any" =>
       \/ a.needs = b.needs
       \/ a.do = "catchIf" /\ Named(a.state) = Other(b.needs)
       \/ a = Command(ROBOT_CATCH)
Linked(s) == \A i \in 1 .. Len(s) - 1 : Follow(s[i], s[i + 1])

LEMMA TailKeeps ==
  ASSUME NEW s \in Seq(Calls), s # << >>, NEW n
  PROVE  /\ AllFit(s, n) => Fit(Head(s), n) /\ AllFit(Tail(s), n)
         /\ Linked(s) => /\ Linked(Tail(s))
                         /\ Tail(s) # << >> => Follow(Head(s), Head(Tail(s)))
<1>1. /\ Head(s) = s[1] /\ Tail(s) \in Seq(Calls)
      /\ Len(Tail(s)) \in Nat /\ Len(s) = Len(Tail(s)) + 1
      /\ \A i \in 1 .. Len(Tail(s)) : Tail(s)[i] = s[i + 1]
  BY TailOf, SMTT(40)
<1>2. PICK k \in Nat : k = Len(Tail(s)) /\ Len(s) = k + 1
  BY <1>1
<1>3. \A i \in 1 .. k : i + 1 \in 1 .. k + 1
  OBVIOUS
<1>4. 1 \in 1 .. k + 1
  OBVIOUS
<1>5. AllFit(s, n) => Fit(Head(s), n) /\ AllFit(Tail(s), n)
  BY <1>1, <1>2, <1>3, <1>4, Zenon DEF AllFit
<1>6. ASSUME Linked(s) PROVE Linked(Tail(s))
  <2>1. \A i \in 1 .. k : Follow(s[i], s[i + 1])
    BY <1>2, <1>6 DEF Linked
  <2>2. ASSUME NEW i \in 1 .. k - 1 PROVE Follow(Tail(s)[i], Tail(s)[i + 1])
    <3>1. i \in 1 .. k /\ i + 1 \in 1 .. k
      OBVIOUS
    <3>. QED  BY <1>1, <1>2, <2>1, <3>1
  <2>. QED  BY <1>2, <2>2 DEF Linked
<1>7. ASSUME Linked(s), Tail(s) # << >> PROVE Follow(Head(s), Head(Tail(s)))
  <2>1. k > 0 /\ Head(Tail(s)) = Tail(s)[1]
    BY <1>1, <1>2, <1>7
  <2>2. 1 \in 1 .. k /\ 1 \in 1 .. Len(s) - 1
    BY <1>2, <2>1
  <2>. QED  BY <1>1, <1>2, <1>7, <2>1, <2>2 DEF Linked
<1>. QED  BY <1>5, <1>6, <1>7

LEMMA ConsKeeps ==
  ASSUME NEW x \in Calls, NEW t \in Seq(Calls), NEW n
  PROVE  /\ Fit(x, n) /\ AllFit(t, n) => AllFit(<<x>> \o t, n)
         /\ Linked(t) /\ (t # << >> => Follow(x, Head(t))) => Linked(<<x>> \o t)
<1>. DEFINE s == <<x>> \o t
<1>1. /\ s \in Seq(Calls) /\ Len(t) \in Nat /\ Len(s) = Len(t) + 1
      /\ s[1] = x /\ \A i \in 1 .. Len(t) : s[i + 1] = t[i]
  BY ConsOf
<1>. HIDE DEF s
<1>2. PICK k \in Nat : k = Len(t) /\ Len(s) = k + 1
  BY <1>1
<1>3. ASSUME NEW i \in 1 .. k + 1, i # 1
      PROVE  i - 1 \in 1 .. k /\ s[i] = t[i - 1]
  <2>1. i - 1 \in 1 .. k /\ (i - 1) + 1 = i
    BY <1>3
  <2>. QED  BY <1>1, <1>2, <2>1
<1>4. Fit(x, n) /\ AllFit(t, n) => AllFit(s, n)
  BY <1>1, <1>2, <1>3, Zenon DEF AllFit
<1>5. ASSUME Linked(t), t # << >> => Follow(x, Head(t)) PROVE Linked(s)
  <2>1. ASSUME NEW i \in 1 .. k PROVE Follow(s[i], s[i + 1])
    <3>1. s[i + 1] = t[i]
      BY <1>1, <1>2
    <3>2. CASE i = 1
      <4>1. t # << >> /\ Head(t) = t[1]
        BY <1>2, <3>2
      <4>. QED  BY <1>1, <1>5, <3>1, <3>2, <4>1
    <3>3. CASE i # 1
      <4>1. s[i] = t[i - 1] /\ i - 1 \in 1 .. k - 1 /\ (i - 1) + 1 = i
        BY <1>3, <3>3
      <4>2. Follow(t[i - 1], t[(i - 1) + 1])
        BY <1>2, <1>5, <4>1 DEF Linked
      <4>. QED  BY <3>1, <4>1, <4>2
    <3>. QED  BY <3>2, <3>3
  <2>2. \A i \in 1 .. Len(s) - 1 : i \in 1 .. k
    BY <1>2
  <2>. QED  BY <2>1, <2>2 DEF Linked
<1>. QED  BY <1>4, <1>5 DEF s

(* What an option of the menu begins with. *)
Chosen(s, n) ==
  /\ s \in Seq(Calls) /\ Len(s) <= 11
  /\ AllFit(s, n) /\ Linked(s)
  /\ s # << >> => Head(s).needs = "any" /\ Head(s) # Command(ROBOT_CATCH)

LEMMA PlainList ==
  ASSUME NEW s \in Seq(Calls), Len(s) <= 11, NEW n,
         \A i \in 1 .. Len(s) : /\ s[i].needs = "any" /\ Fit(s[i], n)
                                /\ s[i] # Command(ROBOT_CATCH)
  PROVE  Chosen(s, n)
<1>1. Linked(s)
  <2>1. \A i \in 1 .. Len(s) - 1 : i + 1 \in 1 .. Len(s)
    OBVIOUS
  <2>. QED  BY <2>1 DEF Linked, Follow
<1>2. s # << >> => Head(s) = s[1] /\ 1 \in 1 .. Len(s)
  OBVIOUS
<1>. QED  BY <1>1, <1>2 DEF Chosen, AllFit

LEMMA OneCall ==
  ASSUME NEW a \in Calls, NEW n, a.needs = "any", Fit(a, n),
         a # Command(ROBOT_CATCH)
  PROVE  Chosen(<<a>>, n)
<1>1. <<a>> \in Seq(Calls) /\ Len(<<a>>) = 1 /\ <<a>>[1] = a
  OBVIOUS
<1>. QED  BY <1>1, PlainList

LEMMA ArrowChosen ==
  ASSUME NEW n, NEW a \in DOMAIN ArrowKeys
  PROVE  Chosen(ArrowKeys[a], n)
<1>. DEFINE up == Command(Jogs.UP)
<1>1. ArrowKeys[a] = <<up, up>> \/ ArrowKeys[a] = << >>
  BY DEF ArrowKeys, KeyUp
<1>2. up \in Calls /\ up.needs = "any" /\ Fit(up, n) /\ up # Command(ROBOT_CATCH)
  <2>1. up \in Calls
    BY CallTypes
  <2>2. up # Command(ROBOT_CATCH)
    <3>1. up.code = Jogs.UP /\ Command(ROBOT_CATCH).code = ROBOT_CATCH
      BY CallFields
    <3>2. Jogs.UP # ROBOT_CATCH
      BY DEF Jogs
    <3>. QED  BY <3>1, <3>2
  <2>. QED  BY <2>1, <2>2, CallFields DEF Fit
<1>. HIDE DEF up
<1>3. Chosen(<<up, up>>, n)
  <2>1. PICK x \in Calls :
          x = up /\ x.needs = "any" /\ Fit(x, n) /\ x # Command(ROBOT_CATCH)
    BY <1>2
  <2>2. <<x, x>> \in Seq(Calls) /\ Len(<<x, x>>) = 2
        /\ \A i \in 1 .. 2 : <<x, x>>[i] = x
    OBVIOUS
  <2>3. PICK s \in Seq(Calls) :
          s = <<x, x>> /\ Len(s) = 2 /\ \A i \in 1 .. 2 : s[i] = x
    BY <2>2
  <2>4. Len(s) <= 11
    BY <2>3
  <2>5. ASSUME NEW i \in 1 .. Len(s)
        PROVE  s[i].needs = "any" /\ Fit(s[i], n) /\ s[i] # Command(ROBOT_CATCH)
    <3>1. s[i] = x
      BY <2>3
    <3>. QED  BY <2>1, <3>1, ZenonT(60)
  <2>6. Chosen(s, n)
    BY <2>4, <2>5, PlainList
  <2>. QED  BY <2>1, <2>3, <2>6
<1>4. Chosen(<< >>, n)
  <2>1. << >> \in Seq(Calls) /\ Len(<< >>) = 0 /\ Len(<< >>) <= 11
    OBVIOUS
  <2>2. AllFit(<< >>, n) /\ Linked(<< >>)
    BY <2>1 DEF AllFit, Linked
  <2>. QED  BY <2>1, <2>2, Zenon DEF Chosen
<1>. QED  BY <1>1, <1>3, <1>4

LEMMA ObjectChosen == Chosen(MoveObject, 7)
<1>. DEFINE a1 == Move(-10, "any")    a2 == ReadPosition("any")
            a3 == CatchIf(CLOSE_PINCERS)
            a4 == Move(10, "open")    a5 == ReadPosition("open")
            a6 == CatchIf(OPEN_PINCERS)
            a7 == Move(90, "closed")  a8 == ReadPosition("closed")
            a9 == CatchIf(CLOSE_PINCERS)
            a10 == Move(-10, "open")  a11 == ReadPosition("open")
<1>1. /\ a1 \in Calls /\ a2 \in Calls /\ a3 \in Calls /\ a4 \in Calls
      /\ a5 \in Calls /\ a6 \in Calls /\ a7 \in Calls /\ a8 \in Calls
      /\ a9 \in Calls /\ a10 \in Calls /\ a11 \in Calls
  BY CallTypes DEF Needs
<1>2. /\ a1.needs = "any" /\ a2.needs = "any" /\ a3.needs = "any"
      /\ a4.needs = "open" /\ a5.needs = "open" /\ a6.needs = "any"
      /\ a7.needs = "closed" /\ a8.needs = "closed" /\ a9.needs = "any"
      /\ a10.needs = "open" /\ a11.needs = "open"
  BY CallFields
<1>3. /\ a3.do = "catchIf" /\ a3.state = 1 /\ a6.do = "catchIf" /\ a6.state = 0
      /\ a9.do = "catchIf" /\ a9.state = 1
  BY CallFields
<1>6. /\ a1 # Command(ROBOT_CATCH) /\ a2 # Command(ROBOT_CATCH)
      /\ a3 # Command(ROBOT_CATCH) /\ a4 # Command(ROBOT_CATCH)
      /\ a5 # Command(ROBOT_CATCH) /\ a6 # Command(ROBOT_CATCH)
      /\ a7 # Command(ROBOT_CATCH) /\ a8 # Command(ROBOT_CATCH)
      /\ a9 # Command(ROBOT_CATCH) /\ a10 # Command(ROBOT_CATCH)
      /\ a11 # Command(ROBOT_CATCH)
  <2>1. Command(ROBOT_CATCH).do = "command"
    BY CallFields
  <2>2. \A by, n : Move(by, n) # Command(ROBOT_CATCH)
    BY <2>1, CallFields
  <2>3. \A n : ReadPosition(n) # Command(ROBOT_CATCH)
    BY <2>1, CallFields
  <2>4. \A state : CatchIf(state) # Command(ROBOT_CATCH)
    BY <2>1, CallFields
  <2>. QED  BY <2>2, <2>3, <2>4
<1>4. /\ Follow(a1, a2) /\ Follow(a2, a3) /\ Follow(a3, a4) /\ Follow(a4, a5)
      /\ Follow(a5, a6) /\ Follow(a6, a7) /\ Follow(a7, a8) /\ Follow(a8, a9)
      /\ Follow(a9, a10) /\ Follow(a10, a11)
  <2>. HIDE DEF a1, a2, a3, a4, a5, a6, a7, a8, a9, a10, a11
  <2>. QED  BY <1>2, <1>3, <1>6 DEF Follow, Named, Other
<1>5. a1.do # "readAll" /\ a2.do # "readAll" /\ a3.do # "readAll"
      /\ a4.do # "readAll" /\ a5.do # "readAll" /\ a6.do # "readAll"
      /\ a7.do # "readAll" /\ a8.do # "readAll" /\ a9.do # "readAll"
      /\ a10.do # "readAll" /\ a11.do # "readAll"
  BY CallFields
<1>. DEFINE s == <<a1, a2, a3, a4, a5, a6, a7, a8, a9, a10, a11>>
<1>7. MoveObject = s
  BY DEF MoveObject
<1>. HIDE DEF a1, a2, a3, a4, a5, a6, a7, a8, a9, a10, a11
<1>8. s \in Seq(Calls) /\ Len(s) = 11
  BY <1>1
<1>9. /\ s[1] = a1 /\ s[2] = a2 /\ s[3] = a3 /\ s[4] = a4 /\ s[5] = a5
      /\ s[6] = a6 /\ s[7] = a7 /\ s[8] = a8 /\ s[9] = a9 /\ s[10] = a10
      /\ s[11] = a11
  OBVIOUS
<1>. HIDE DEF s
<1>10. AllFit(s, 7)
  <2>1. ASSUME NEW i \in 1 .. 11 PROVE s[i].do # "readAll"
    <3>1. \/ i = 1 \/ i = 2 \/ i = 3 \/ i = 4 \/ i = 5 \/ i = 6 \/ i = 7
          \/ i = 8 \/ i = 9 \/ i = 10 \/ i = 11
      OBVIOUS
    <3>. QED  BY <1>5, <1>9, <3>1, Zenon
  <2>. QED  BY <1>8, <2>1 DEF AllFit, Fit
<1>11. Linked(s)
  <2>1. ASSUME NEW i \in 1 .. 10 PROVE Follow(s[i], s[i + 1])
    <3>1. \/ (i = 1 /\ i + 1 = 2)
          \/ (i = 2 /\ i + 1 = 3)
          \/ (i = 3 /\ i + 1 = 4)
          \/ (i = 4 /\ i + 1 = 5)
          \/ (i = 5 /\ i + 1 = 6)
          \/ (i = 6 /\ i + 1 = 7)
          \/ (i = 7 /\ i + 1 = 8)
          \/ (i = 8 /\ i + 1 = 9)
          \/ (i = 9 /\ i + 1 = 10)
          \/ (i = 10 /\ i + 1 = 11)
      OBVIOUS
    <3>. QED  BY <1>4, <1>9, <3>1, Zenon
  <2>. QED  BY <1>8, <2>1 DEF Linked
<1>12. s # << >> => Head(s) = a1
  BY <1>8, <1>9
<1>. QED  BY <1>2, <1>6, <1>7, <1>8, <1>10, <1>11, <1>12 DEF Chosen

Position == [0 .. 6 -> Word]
Counts == StackInts \cup {7, NUM_REG}

LEMMA Char2IntType ==
  ASSUME NEW numbers \in Seq(Int), NEW p \in Position
  PROVE  Char2Int(numbers, p) \in Position
<1>1. \A i \in 1 .. Len(numbers) : numbers[i] \in Int
  OBVIOUS
<1>. QED  BY <1>1, ToWordIsWord DEF Char2Int, Position

(* Whatever the user chooses. *)
LEMMA OptionCalls ==
  ASSUME NEW c \in Conns, position[c] \in Position, numReg[c] \in Counts, Option(c)
  PROVE  \E s, p, n : /\ Choose(c, s, p, n) /\ Chosen(s, n)
                      /\ p \in Position /\ n \in Counts
<1>1. CASE OptionArrow(c)
  BY <1>1, ArrowChosen DEF OptionArrow
<1>2. CASE OptionBackward(c)
  <2>. DEFINE a == Command(Jogs.BACKWARD)
  <2>1. a \in Calls /\ a.needs = "any" /\ a.do = "command" /\ a # Command(ROBOT_CATCH)
    <3>1. a.code = Jogs.BACKWARD /\ Command(ROBOT_CATCH).code = ROBOT_CATCH
      BY CallFields
    <3>2. Jogs.BACKWARD # ROBOT_CATCH
      BY DEF Jogs
    <3>. QED  BY <3>1, <3>2, CallTypes, CallFields
  <2>2. Chosen(<<a>>, numReg[c])
    <3>. HIDE DEF a
    <3>. QED  BY <2>1, OneCall DEF Fit
  <2>. QED  BY <1>2, <2>2 DEF OptionBackward
<1>3. ASSUME NEW a \in Calls, a.do \in {"toggle", "move", "readPosition", "readAll"},
             a.needs = "any", NEW n, Fit(a, n)
      PROVE  Chosen(<<a>>, n)
  <2>1. a # Command(ROBOT_CATCH)
    BY <1>3, CallFields
  <2>. QED  BY <1>3, <2>1, OneCall
<1>4. CASE OptionPincers(c)
  <2>1. Chosen(<<Toggle>>, numReg[c])
    BY <1>3, CallTypes, CallFields DEF Fit
  <2>. QED  BY <1>4, <2>1 DEF OptionPincers
<1>5. \A n : Chosen(<<Move(0, "any")>>, n)
  BY <1>3, CallTypes, CallFields DEF Fit, Needs
<1>6. CASE OptionMove(c)
  <2>1. PICK numbers \in Typed :
          Choose(c, <<Move(0, "any")>>, Char2Int(numbers, position[c]), 7)
    BY <1>6 DEF OptionMove
  <2>2. Char2Int(numbers, position[c]) \in Position /\ 7 \in Counts
    BY InputAssumption, Char2IntType DEF Counts
  <2>. QED  BY <1>5, <2>1, <2>2, Zenon
<1>7. CASE OptionObject(c)
  BY <1>7, ObjectChosen DEF OptionObject, Counts
<1>8. CASE OptionInitial(c)
  <2>1. InitialPosition \in Seq(Int)
    BY DEF InitialPosition
  <2>2. Char2Int(InitialPosition, position[c]) \in Position
    BY <2>1, Char2IntType
  <2>. QED  BY <1>5, <1>8, <2>2 DEF OptionInitial
<1>9. CASE OptionPosition(c)
  <2>1. Chosen(<<ReadPosition("any")>>, 7)
    BY <1>3, CallTypes, CallFields DEF Fit, Needs
  <2>. QED  BY <1>9, <2>1 DEF OptionPosition, Counts
<1>10. CASE OptionRegisters(c)
  <2>1. Chosen(<<ReadAll>>, NUM_REG)
    BY <1>3, CallTypes, CallFields DEF Fit
  <2>. QED  BY <1>10, <2>1 DEF OptionRegisters, Counts
<1>. QED  BY <1>1, <1>2, <1>4, <1>6, <1>7, <1>8, <1>9, <1>10 DEF Option

-----------------------------------------------------------------------------
(* The requests.  A move carries as many words as numReg says, none if     *)
(* that is negative.                                                       *)
Vectors == {v \in Seq(Word) : Len(v) = 0 \/ Len(v) \in Counts}
Reads == {[fun |-> READ_REGISTERS, raddr |-> a, rn |-> n, waddr |-> 0, vals |-> << >>] :
            a \in {0, ADDR_CLIENT, ADDR_PINZA}, n \in {1, 7, NUM_REG}}
Orders == {[fun |-> WRITE_ONLY_REGISTER, raddr |-> 0, rn |-> 0,
            waddr |-> ADDR_CLIENT, vals |-> <<code>>] :
             code \in {Jogs.UP, Jogs.BACKWARD, ROBOT_CATCH}}
Targets == {[fun |-> WRITE_MULTIPLE_REGISTERS, raddr |-> 0, rn |-> 0,
             waddr |-> ADDR_CLIENT, vals |-> v] : v \in Vectors}
Sendable == Reads \cup Orders \cup Targets

LEMMA RequestMade ==
  ASSUME NEW fun \in Functions, NEW raddr \in Word, NEW rn \in Nat,
         NEW waddr \in Word, NEW v \in Seq(Word), NEW r,
         r = [fun |-> fun, raddr |-> raddr, rn |-> rn, waddr |-> waddr, vals |-> v]
  PROVE  r \in RequestSpace /\ r.fun = fun /\ r.waddr = waddr /\ r.vals = v
BY DEF RequestSpace

LEMMA SendableKinds ==
  ASSUME NEW r \in Sendable
  PROVE  /\ r.fun \in {READ_REGISTERS, WRITE_ONLY_REGISTER, WRITE_MULTIPLE_REGISTERS}
         /\ r.fun # READ_REGISTERS => r.waddr = ADDR_CLIENT
         /\ r \in RequestSpace
<1>0. /\ \A n \in {0, 3, 10} : n \in Word
      /\ \A n \in {3, 6, 16} : n \in Functions
      /\ \A n \in {0, 1, 7, NUM_REG} : n \in Nat
  BY DEF Word, Functions
<1>1. CASE r \in Reads
  <2>1. PICK a \in {0, ADDR_CLIENT, ADDR_PINZA}, n \in {1, 7, NUM_REG} :
          r = [fun |-> 3, raddr |-> a, rn |-> n, waddr |-> 0, vals |-> << >>]
    BY <1>1 DEF Reads
  <2>2. << >> \in Seq(Word)
    OBVIOUS
  <2>3. a \in Word /\ n \in Nat /\ 3 \in Functions /\ 0 \in Word
    BY <1>0
  <2>4. r \in RequestSpace /\ r.fun = 3
    BY <2>1, <2>2, <2>3 DEF RequestSpace
  <2>. QED  BY <2>4
<1>2. CASE r \in Orders
  <2>1. PICK code \in {Jogs.UP, Jogs.BACKWARD, ROBOT_CATCH} :
          r = [fun |-> 6, raddr |-> 0, rn |-> 0, waddr |-> 3, vals |-> <<code>>]
    BY <1>2 DEF Orders
  <2>2. <<code>> \in Seq(Word)
    BY DEF Jogs, Word
  <2>3. 0 \in Word /\ 0 \in Nat /\ 6 \in Functions /\ 3 \in Word
    BY <1>0
  <2>4. r \in RequestSpace /\ r.fun = 6 /\ r.waddr = 3
    BY <2>1, <2>2, <2>3 DEF RequestSpace
  <2>. QED  BY <2>4
<1>3. CASE r \in Targets
  <2>1. PICK v \in Vectors :
          r = [fun |-> 16, raddr |-> 0, rn |-> 0, waddr |-> 3, vals |-> v]
    BY <1>3 DEF Targets
  <2>2. v \in Seq(Word)
    BY DEF Vectors
  <2>3. 0 \in Word /\ 0 \in Nat /\ 16 \in Functions /\ 3 \in Word
    BY <1>0
  <2>4. r \in RequestSpace /\ r.fun = 16 /\ r.waddr = 3
    BY <2>1, <2>2, <2>3 DEF RequestSpace
  <2>. QED  BY <2>4
<1>. QED  BY <1>1, <1>2, <1>3 DEF Sendable

(* The request r is one that call makes with n registers. *)
Asks(call, n, r) ==
  /\ call.do = "command" => r = WriteRequest(WRITE_ONLY_REGISTER, <<call.code>>)
  /\ call.do = "move" =>
       /\ r.fun = WRITE_MULTIPLE_REGISTERS /\ r.waddr = ADDR_CLIENT
       /\ n = 7 => Len(r.vals) = 7 /\ r.vals[1] = ROBOT_AUTOMOVE
  /\ call.do = "readPosition" => r = ReadRequest(ADDR_CLIENT, 7)
  /\ call.do \in {"message", "catchIf"} => r = ReadRequest(ADDR_PINZA, 1)

LEMMA ShiftedType ==
  ASSUME NEW c \in Conns, position[c] \in Position, NEW by \in Int
  PROVE  Shifted(c, by) \in Position /\ Shifted(c, by)[0] = ROBOT_AUTOMOVE
<1>1. PICK q \in Position : q = position[c]
  OBVIOUS
<1>2. q[1] \in Int /\ 307 \in Word
  <2>1. 1 \in 0 .. 6
    OBVIOUS
  <2>2. q[1] \in Word
    BY <2>1 DEF Position
  <2>3. (\A w \in Word : w \in Int) /\ 307 \in Word
    BY DEF Word
  <2>. QED  BY <2>2, <2>3, Zenon
<1>3. ToWord(q[1] + by) \in Word
  BY <1>2, ToWordIsWord
<1>4. PICK w \in Word : w = ToWord(q[1] + by)
  BY <1>3
<1>5. Shifted(c, by) = [q EXCEPT ![0] = 307, ![1] = w]
  BY <1>1, <1>4 DEF Shifted
<1>6. [q EXCEPT ![0] = 307, ![1] = w] \in [0 .. 6 -> Word]
  BY <1>2 DEF Position
<1>7. [q EXCEPT ![0] = 307, ![1] = w][0] = 307
  BY DEF Position
<1>. QED  BY <1>5, <1>6, <1>7 DEF Position

LEMMA WordVector ==
  ASSUME NEW n \in Counts, NEW f, \A i \in 1 .. n : f[i] \in Word,
         f = [i \in 1 .. n |-> f[i]]
  PROVE  f \in Vectors /\ (n = 7 => Len(f) = 7)
<1>1. n \in Int
  BY InputAssumption DEF Counts
<1>2. CASE n >= 0
  <2>1. n \in Nat /\ f \in [1 .. n -> Word]
    BY <1>1, <1>2
  <2>2. f \in Seq(Word) /\ Len(f) = n
    BY <2>1
  <2>. QED  BY <2>2 DEF Vectors
<1>3. CASE ~ (n >= 0)
  <2>1. n # 7 /\ 1 .. n = {}
    BY <1>1, <1>3
  <2>2. f = << >>
    BY <2>1
  <2>3. << >> \in Seq(Word) /\ Len(<< >>) = 0
    OBVIOUS
  <2>. QED  BY <2>1, <2>2, <2>3, Zenon DEF Vectors
<1>. QED  BY <1>2, <1>3

(* What a call sends. *)
LEMMA RequestIs ==
  ASSUME NEW c \in Conns, position[c] \in Position, numReg[c] \in Counts,
         NEW call \in Calls, Fit(call, numReg[c])
  PROVE  /\ RequestOf(c, call) \in Sendable
         /\ Asks(call, numReg[c], RequestOf(c, call))
<1>. DEFINE r == RequestOf(c, call)
<1>1. CASE call.do = "command"
  <2>1. r = WriteRequest(WRITE_ONLY_REGISTER, <<call.code>>)
    BY <1>1 DEF RequestOf
  <2>2. call.code \in {Jogs.UP, Jogs.BACKWARD, ROBOT_CATCH}
    BY <1>1, CallKinds
  <2>3. r \in Orders
    BY <2>1, <2>2 DEF WriteRequest, Orders
  <2>. QED  BY <1>1, <2>1, <2>3 DEF Sendable, Asks
<1>2. CASE call.do = "toggle"
  <2>1. r = WriteRequest(WRITE_ONLY_REGISTER, <<ROBOT_CATCH>>)
    BY <1>2 DEF RequestOf
  <2>2. r \in Orders
    BY <2>1 DEF WriteRequest, Orders
  <2>. QED  BY <1>2, <2>2 DEF Sendable, Asks
<1>3. CASE call.do = "move"
  <2>. DEFINE f == [i \in 1 .. numReg[c] |->
                      IF i <= 7 THEN Shifted(c, call.by)[i - 1] ELSE 0]
  <2>1. r = WriteRequest(WRITE_MULTIPLE_REGISTERS, f)
    BY <1>3 DEF RequestOf
  <2>2. Shifted(c, call.by) \in Position /\ Shifted(c, call.by)[0] = ROBOT_AUTOMOVE
    BY <1>3, CallKinds, ShiftedType
  <2>3. ASSUME NEW i \in 1 .. numReg[c] PROVE f[i] \in Word
    <3>0. \A n \in Counts : n \in Int
      BY InputAssumption DEF Counts
    <3>1. numReg[c] \in Int
      BY <3>0
    <3>2. i <= 7 => i - 1 \in 0 .. 6
      BY <3>1
    <3>3. 0 \in Word
      BY DEF Word
    <3>. QED  BY <2>2, <3>2, <3>3 DEF Position
  <2>4. f = [i \in 1 .. numReg[c] |-> f[i]]
    OBVIOUS
  <2>5. numReg[c] = 7 => f[1] = ROBOT_AUTOMOVE
    <3>1. ASSUME numReg[c] = 7 PROVE f[1] = Shifted(c, call.by)[1 - 1]
      BY <3>1
    <3>. QED  BY <2>2, <3>1
  <2>. HIDE DEF f
  <2>6. f \in Vectors /\ (numReg[c] = 7 => Len(f) = 7)
    BY <2>3, <2>4, WordVector
  <2>7. r \in Targets
    BY <2>1, <2>6 DEF WriteRequest, Targets
  <2>8. r.fun = WRITE_MULTIPLE_REGISTERS /\ r.waddr = ADDR_CLIENT /\ r.vals = f
    BY <2>1 DEF WriteRequest
  <2>. QED  BY <1>3, <2>5, <2>6, <2>7, <2>8 DEF Sendable, Asks
<1>4. ASSUME NEW a \in {0, ADDR_CLIENT, ADDR_PINZA}, NEW n \in {1, 7, NUM_REG}
      PROVE  ReadRequest(a, n) \in Sendable
  BY <1>4 DEF ReadRequest, Reads, Sendable
<1>5. CASE call.do = "readPosition"
  <2>1. r = ReadRequest(ADDR_CLIENT, 7)
    BY <1>5 DEF RequestOf, Fit
  <2>. QED  BY <1>4, <1>5, <2>1 DEF Asks
<1>6. CASE call.do = "readAll"
  <2>1. r = ReadRequest(0, NUM_REG)
    BY <1>6 DEF RequestOf, Fit
  <2>. QED  BY <1>4, <1>6, <2>1 DEF Asks
<1>7. CASE call.do \in {"message", "catchIf"}
  <2>1. r = ReadRequest(ADDR_PINZA, 1)
    BY <1>7 DEF RequestOf
  <2>. QED  BY <1>4, <1>7, <2>1 DEF Asks
<1>. QED  BY <1>1, <1>2, <1>3, <1>5, <1>6, <1>7, CallKinds

-----------------------------------------------------------------------------
(* The inductive invariant under all that follows.  The server classifies  *)
(* a request of the program as what it is...                               *)
Analysed ==
  pc = "analysed" =>
    /\ query.req \in Sendable
    /\ IF query.req.fun = READ_REGISTERS THEN query.type = "READ_ONLY"
       ELSE query.type = "WRITE_ONLY" /\ op.addr_write = ADDR_CLIENT

(* ... and what answers a call under way is what the call asks for; the    *)
(* answer to a read of the pincers leaves the server idle, and no step of  *)
(* the server can make it out of date.                                     *)
Under(c) == conn[c] = "open" /\ waiting[c] # 0

Asked(c) ==
  Under(c) =>
    /\ \A i \in 1 .. Len(inbox[c]) :
         inbox[c][i].id = waiting[c] =>
           Asks(Head(todo[c]), numReg[c], inbox[c][i].req)
    /\ (Hand(c) = 1 /\ query.id = waiting[c]) =>
         Asks(Head(todo[c]), numReg[c], query.req)

Answers(call, rep, c) ==
  rep.kind = "confirm" =>
    /\ call.do = "readPosition" => \A j \in 1 .. 7 : rep.vals[j] \in Word
    /\ call.do \in {"message", "catchIf"} =>
         session = c /\ pc = "receive" /\ rep.vals[1] = regs[ADDR_PINZA]

Answered(c) ==
  Under(c) =>
    \A i \in 1 .. Len(outbox[c]) :
      outbox[c][i].id = waiting[c] => Answers(Head(todo[c]), outbox[c][i].rep, c)

Idle(c) == todo[c] = << >> /\ sent[c] = 0 /\ taken[c] = 0

Own(c) ==
  /\ AllFit(todo[c], numReg[c]) /\ Linked(todo[c])
  /\ conn[c] = "new" => Idle(c)
  /\ conn[c] = "open" => InOrder(c, taken[c], sent[c])
  /\ Asked(c)
  /\ Answered(c)

BaseInv ==
  /\ TypeOK
  /\ ServerTypes(Sendable)
  /\ Unopened
  /\ Analysed
  /\ \A c \in Conns : Own(c)

LEMMA SendableSpace == Sendable \in SUBSET RequestSpace
BY SendableKinds

LEMMA BaseTypes ==
  ASSUME BaseInv
  PROVE  /\ conn \in [Conns -> {"new", "open", "closed"}]
         /\ inbox \in [Conns -> Seq(Frames(Sendable))]
         /\ outbox \in [Conns -> Seq(Replies)]
         /\ backlog \in Seq(Conns)
         /\ todo \in [Conns -> Seq(Calls)]
         /\ waiting \in [Conns -> Nat]
         /\ position \in [Conns -> Position]
         /\ numReg \in [Conns -> Counts]
         /\ sent \in [Conns -> Nat] /\ taken \in [Conns -> Nat]
         /\ clean \in [Conns -> BOOLEAN] /\ overran \in BOOLEAN
         /\ options \in 0 .. MaxOptions /\ timeouts \in 0 .. MaxTimeouts
         /\ \A c \in Conns : waiting[c] # 0 => todo[c] # << >> /\ waiting[c] = sent[c]
BY DEF BaseInv, TypeOK, ServerTypes, Position, Counts

(* The first answer to the last request leaves nothing under way. *)
LEMMA Quiescent ==
  ASSUME NEW R, ServerTypes(R), NEW c \in Conns,
         NEW n \in Nat, NEW m \in Nat, InOrder(c, n, m),
         NEW i \in 1 .. Len(outbox[c]), outbox[c][i].id = m
  PROVE  inbox[c] = << >> /\ Hand(c) = 0
<1>1. inbox \in [Conns -> Seq(Frames(R))] /\ outbox \in [Conns -> Seq(Replies)]
  BY DEF ServerTypes
<1>2. PICK k \in Nat, l \in Nat : k = Len(outbox[c]) /\ l = Len(inbox[c])
  BY <1>1
<1>3. m = n + k + Hand(c) + l /\ m = n + i /\ i \in 1 .. k
  BY <1>2 DEF InOrder
<1>4. Hand(c) = 0 \/ Hand(c) = 1
  BY DEF Hand
<1>5. Hand(c) = 0 /\ l = 0
  BY <1>3, <1>4
<1>6. PICK s \in Seq(Frames(R)) : s = inbox[c]
  BY <1>1
<1>7. Len(s) = 0 => s = << >>
  OBVIOUS
<1>. QED  BY <1>2, <1>5, <1>6, <1>7

-----------------------------------------------------------------------------
(* The server's steps. *)
LEMMA AnalysedStep ==
  ASSUME ServerTypes(Sendable), Analysed, ServerStep
  PROVE  Analysed'
<1>. USE DEF mainVars, modbusVars, netVars, armVars
<1>1. CASE ~ Receive
  BY <1>1 DEF ServerStep, SendCommand, Returned, WaitClient, Answer, Refuse,
       ConfirmCommand, Disconnect, RunCommand, Pincers, Automove, NoAction,
       Jog, Start, Analysed
<1>2. CASE Receive
  <2>1. session \in Conns /\ inbox \in [Conns -> Seq(Frames(Sendable))]
        /\ inbox[session] # << >>
    BY <1>2 DEF Receive, ServerTypes
  <2>2. PICK f \in Frames(Sendable) : f = Head(inbox[session])
    BY <2>1, TailOf
  <2>3. f.req \in Sendable
    BY DEF Frames
  <2>4. PICK r \in Sendable : r = f.req
    BY <2>3
  <2>5. PICK t \in RequestTypes(r) :
          /\ query'.req = r
          /\ query'.type = IF t # "READ_ONLY" /\ Forbidden(op')
                           THEN "NOT_PERMITTED" ELSE t
    BY <1>2, <2>2, <2>4 DEF Receive
  <2>6. op' = ClientOperation(r)
    BY <1>2, <2>2, <2>4 DEF Receive
  <2>7. CASE r.fun = READ_REGISTERS
    BY <2>5, <2>7 DEF RequestTypes, Analysed
  <2>8. CASE r.fun # READ_REGISTERS
    <3>1. r.fun \in {WRITE_ONLY_REGISTER, WRITE_MULTIPLE_REGISTERS}
          /\ r.waddr = ADDR_CLIENT
      BY <2>8, SendableKinds
    <3>2. t = "WRITE_ONLY"
      BY <2>5, <3>1 DEF RequestTypes
    <3>3. op'.addr_write = ADDR_CLIENT
      BY <2>6, <3>1 DEF ClientOperation
    <3>4. ~ Forbidden(op')
      <4>1. PICK n \in Nat : n = op'.numReg_write
        <5>1. ServerTypes(Sendable)'
          BY SendableSpace, ServerTypeStep
        <5>. QED  BY <5>1 DEF ServerTypes
      <4>2. \A i \in 0 .. n - 1 :
              ~ (ADDR_CLIENT + i < ADDR_CLIENT /\ ADDR_CLIENT + i > ADDR_FIN_POSITION)
        OBVIOUS
      <4>. QED  BY <3>3, <4>1, <4>2 DEF Forbidden
    <3>. QED  BY <2>5, <2>8, <3>2, <3>3, <3>4 DEF Analysed
  <2>. QED  BY <2>7, <2>8
<1>. QED  BY <1>1, <1>2

(* Only receiving changes what is in the inboxes and the hand. *)
LEMMA OthersReceiveNothing ==
  ASSUME ServerStep, ~ Receive
  PROVE  inbox' = inbox /\ pc' # "analysed"
BY DEF ServerStep, SendCommand, Returned, WaitClient, Answer, Refuse,
       ConfirmCommand, Disconnect, RunCommand, Pincers, Automove, NoAction,
       Jog, Start, mainVars, modbusVars, netVars, armVars

LEMMA AskedStep ==
  ASSUME BaseInv, ServerStep, UNCHANGED clientVars, conn' = conn,
         NEW c \in Conns
  PROVE  Asked(c)'
<1>0. Asked(c) /\ UNCHANGED <<todo, waiting, numReg>>
  BY DEF BaseInv, Own, clientVars, callVars
<1>1. CASE ~ Receive
  BY <1>0, <1>1, OthersReceiveNothing DEF Asked, Under, Hand
<1>2. CASE Receive /\ session # c
  BY <1>0, <1>2, BaseTypes DEF Asked, Under, Hand, Receive
<1>3. CASE Receive /\ session = c
  <2>1. /\ inbox[c] \in Seq(Frames(Sendable)) /\ inbox[c] # << >>
        /\ inbox'[c] = Tail(inbox[c])
        /\ query'.id = Head(inbox[c]).id /\ query'.req = Head(inbox[c]).req
    BY <1>3, BaseTypes DEF Receive
  <2>2. /\ Head(inbox[c]) = inbox[c][1]
        /\ Len(inbox'[c]) \in Nat /\ Len(inbox[c]) = Len(inbox'[c]) + 1
        /\ \A i \in 1 .. Len(inbox'[c]) : inbox'[c][i] = inbox[c][i + 1]
    BY <2>1, TailOf
  <2>3. PICK k \in Nat : k = Len(inbox'[c]) /\ Len(inbox[c]) = k + 1
    BY <2>2
  <2>4. 1 \in 1 .. k + 1 /\ \A i \in 1 .. k : i + 1 \in 1 .. k + 1
    OBVIOUS
  <2>5. ASSUME Under(c) PROVE
          /\ \A i \in 1 .. k :
               inbox'[c][i].id = waiting[c] =>
                 Asks(Head(todo[c]), numReg[c], inbox'[c][i].req)
          /\ query'.id = waiting[c] =>
               Asks(Head(todo[c]), numReg[c], query'.req)
    BY <1>0, <2>1, <2>2, <2>3, <2>4, <2>5, Zenon DEF Asked
  <2>. QED  BY <1>0, <2>3, <2>5 DEF Asked, Under
<1>. QED  BY <1>1, <1>2, <1>3

(* With the answer to a read of the pincers under way the server has       *)
(* nothing to do.                                                          *)
LEMMA ServerIdle ==
  ASSUME NEW c \in Conns, conn[c] = "open", session = c, pc = "receive",
         inbox[c] = << >>
  PROVE  ~ ServerStep
BY DEF ServerStep, SendCommand, Returned, WaitClient, Receive, Answer, Refuse,
       ConfirmCommand, Disconnect, RunCommand, Pincers, Automove, NoAction, Jog

LEMMA NoneWhileAnswered ==
  ASSUME BaseInv, ServerStep, NEW c \in Conns, Under(c),
         NEW i \in 1 .. Len(outbox[c]), outbox[c][i].id = waiting[c],
         outbox[c][i].rep.kind = "confirm"
  PROVE  Head(todo[c]).do \notin {"message", "catchIf"}
<1>. SUFFICES ASSUME Head(todo[c]).do \in {"message", "catchIf"} PROVE FALSE
  OBVIOUS
<1>1. session = c /\ pc = "receive" /\ conn[c] = "open"
  BY DEF BaseInv, Own, Answered, Answers, Under
<1>2. PICK n \in Nat, m \in Nat : n = taken[c] /\ m = sent[c] /\ m = waiting[c]
  BY BaseTypes DEF Under
<1>3. ServerTypes(Sendable) /\ InOrder(c, n, m)
  BY <1>1, <1>2 DEF BaseInv, Own
<1>4. inbox[c] = << >>
  BY <1>2, <1>3, Quiescent
<1>. QED  BY <1>1, <1>4, ServerIdle

(* What the server answers to the call under way. *)
LEMMA AnswerIs ==
  ASSUME NEW c \in Conns, BaseInv, Answer \/ ConfirmCommand, UNCHANGED todo,
         session = c, Under(c), query.id = waiting[c],
         NEW rep, rep = Reply(query.req)
  PROVE  Answers(Head(todo[c]), rep, c)'
<1>0. /\ pc = "analysed" /\ regs' = AfterWrite(query.req)
      /\ session' = session /\ Hand(c) = 1
      /\ Asks(Head(todo[c]), numReg[c], query.req)
  BY DEF Answer, ConfirmCommand, Confirm, Hand, BaseInv, Own, Asked
<1>1. PICK r \in Sendable : r = query.req
  BY <1>0 DEF BaseInv, Analysed
<1>2. SUFFICES ASSUME rep.kind = "confirm" PROVE Answers(Head(todo[c]), rep, c)'
  BY DEF Answers
<1>3. rep.vals = ReadBack(r)
  BY <1>1, <1>2 DEF Reply
<1>4. PICK f \in [Addrs -> Word] : f = AfterWrite(r)
  BY SendableKinds, AfterWriteType DEF BaseInv, ServerTypes
<1>5. ASSUME NEW a, NEW n, r = ReadRequest(a, n)
      PROVE  rep.vals = [i \in 1 .. n |-> f[a + i - 1]]
  BY <1>3, <1>4, <1>5 DEF ReadBack, Reading, ReadRequest
<1>6. ASSUME Head(todo[c]).do = "readPosition" PROVE \A j \in 1 .. 7 : rep.vals[j] \in Word
  <2>1. r = ReadRequest(ADDR_CLIENT, 7)
    BY <1>0, <1>1, <1>6 DEF Asks
  <2>2. rep.vals = [i \in 1 .. 7 |-> f[ADDR_CLIENT + i - 1]]
    BY <1>5, <2>1
  <2>3. \A i \in 1 .. 7 : ADDR_CLIENT + i - 1 \in Addrs
    BY DEF Addrs
  <2>. QED  BY <2>2, <2>3
<1>7. ASSUME Head(todo[c]).do \in {"message", "catchIf"}
      PROVE  session' = c /\ pc' = "receive" /\ rep.vals[1] = regs'[ADDR_PINZA]
  <2>1. r = ReadRequest(ADDR_PINZA, 1)
    BY <1>0, <1>1, <1>7 DEF Asks
  <2>2. r.fun = READ_REGISTERS
    BY <2>1 DEF ReadRequest
  <2>3. query.type = "READ_ONLY"
    BY <1>0, <1>1, <2>2 DEF BaseInv, Analysed
  <2>4. pc' = "receive"
    BY <2>3 DEF Answer, ConfirmCommand, IsRx90Command
  <2>5. rep.vals = [i \in 1 .. 1 |-> f[ADDR_PINZA + i - 1]]
    BY <1>5, <2>1
  <2>6. rep.vals[1] = f[ADDR_PINZA + 1 - 1] /\ ADDR_PINZA + 1 - 1 = ADDR_PINZA
    BY <2>5
  <2>. QED  BY <1>0, <1>1, <1>4, <2>4, <2>6
<1>. QED  BY <1>2, <1>6, <1>7 DEF Answers

(* One reply is added, to the connection served. *)
LEMMA Delivered ==
  ASSUME BaseInv, NEW rep, Deliver(rep), NEW c \in Conns, NEW i \in 1 .. Len(outbox'[c])
  PROVE  \/ i \in 1 .. Len(outbox[c]) /\ outbox'[c][i] = outbox[c][i]
         \/ session = c /\ outbox'[c][i] = [id |-> query.id, rep |-> rep]
<1>1. outbox \in [Conns -> Seq(Replies)]
  BY BaseTypes
<1>2. CASE session # c \/ conn[session] # "open"
  BY <1>1, <1>2 DEF Deliver
<1>3. CASE session = c /\ conn[c] = "open"
  <2>. DEFINE x == [id |-> query.id, rep |-> rep]
  <2>1. outbox'[c] = Append(outbox[c], x)
    BY <1>1, <1>3 DEF Deliver
  <2>2. PICK s \in Seq(Replies) : s = outbox[c]
    BY <1>1
  <2>. HIDE DEF x
  <2>3. /\ Len(s) \in Nat /\ Len(Append(s, x)) = Len(s) + 1
        /\ Append(s, x)[Len(s) + 1] = x
        /\ \A k \in 1 .. Len(s) : Append(s, x)[k] = s[k]
    OBVIOUS
  <2>4. i \in 1 .. Len(s) \/ i = Len(s) + 1
    BY <2>1, <2>2, <2>3
  <2>5. CASE i \in 1 .. Len(s)
    BY <2>1, <2>2, <2>3, <2>5
  <2>6. CASE i = Len(s) + 1
    BY <1>3, <2>1, <2>2, <2>3, <2>6 DEF x
  <2>. QED  BY <2>4, <2>5, <2>6
<1>. QED  BY <1>2, <1>3

LEMMA AnsweredStep ==
  ASSUME BaseInv, ServerStep, UNCHANGED clientVars, conn' = conn,
         NEW c \in Conns
  PROVE  Answered(c)'
<1>0. Answered(c) /\ UNCHANGED <<todo, waiting, numReg>>
  BY DEF BaseInv, Own, clientVars, callVars
<1>. SUFFICES ASSUME Under(c), NEW i \in 1 .. Len(outbox'[c]),
                     outbox'[c][i].id = waiting[c],
                     NEW rep, rep = outbox'[c][i].rep, rep.kind = "confirm"
              PROVE  Answers(Head(todo[c]), rep, c)'
  BY <1>0 DEF Answered, Answers, Under
<1>1. ASSUME i \in 1 .. Len(outbox[c]), outbox'[c][i] = outbox[c][i]
      PROVE  Answers(Head(todo[c]), rep, c)'
  <2>1. Head(todo[c]).do \notin {"message", "catchIf"}
    BY <1>1, NoneWhileAnswered
  <2>2. Answers(Head(todo[c]), rep, c)
    BY <1>0, <1>1 DEF Answered
  <2>. QED  BY <1>0, <2>1, <2>2 DEF Answers
<1>2. CASE Answer \/ ConfirmCommand \/ Refuse
  <2>1. PICK x : /\ Deliver(x)
                 /\ \/ Refuse /\ x = Exception
                    \/ (Answer \/ ConfirmCommand) /\ x = Reply(query.req)
    BY <1>2 DEF Answer, ConfirmCommand, Refuse, Confirm
  <2>2. CASE i \in 1 .. Len(outbox[c]) /\ outbox'[c][i] = outbox[c][i]
    BY <1>1, <2>2
  <2>3. CASE session = c /\ outbox'[c][i] = [id |-> query.id, rep |-> x]
    <3>1. outbox'[c][i].id = query.id /\ rep = x
      BY <2>3
    <3>2. rep # Exception
      BY DEF Exception
    <3>. QED  BY <1>0, <2>1, <2>3, <3>1, <3>2, AnswerIs
  <2>. QED  BY <2>1, <2>2, <2>3, Delivered
<1>3. CASE ~ (Answer \/ ConfirmCommand \/ Refuse)
  <2>1. outbox' = outbox
    BY <1>3 DEF ServerStep, SendCommand, Returned, WaitClient, Receive,
         Disconnect, RunCommand, Pincers, Automove, NoAction, Jog, Start,
         mainVars, modbusVars, netVars, armVars
  <2>. QED  BY <1>1, <2>1
<1>. QED  BY <1>2, <1>3

LEMMA ConnKept == ASSUME ServerStep PROVE conn' = conn
BY DEF ServerStep, SendCommand, Returned, WaitClient, Receive, Answer, Refuse,
       ConfirmCommand, Disconnect, RunCommand, Pincers, Automove, NoAction,
       Jog, Start, mainVars, modbusVars, netVars, armVars

LEMMA ServerKeeps ==
  ASSUME BaseInv, ServerStep, UNCHANGED clientVars
  PROVE  BaseInv'
<1>0. UNCHANGED <<conn, todo, waiting, position, numReg, sent, taken, options,
                  timeouts, clean, overran>>
  BY ConnKept DEF clientVars, callVars, countVars
<1>1. TypeOK'
  BY <1>0 DEF BaseInv, TypeOK
<1>2. ServerTypes(Sendable)'
  BY SendableSpace, ServerTypeStep DEF BaseInv
<1>3. Unopened'
  BY UnopenedStep DEF BaseInv
<1>4. Analysed'
  BY AnalysedStep DEF BaseInv
<1>5. ASSUME NEW c \in Conns PROVE Own(c)'
  <2>1. Asked(c)' /\ Answered(c)'
    BY <1>0, AskedStep, AnsweredStep
  <2>2. ASSUME conn[c] = "open" PROVE InOrder(c, taken[c], sent[c])'
    <3>1. PICK n \in Nat, m \in Nat : n = taken[c] /\ m = sent[c]
      BY BaseTypes
    <3>2. ServerTypes(Sendable) /\ InOrder(c, n, m)
      BY <2>2, <3>1 DEF BaseInv, Own
    <3>3. InOrder(c, n, m)'
      BY <2>2, <3>2, InOrderStep
    <3>. QED  BY <1>0, <3>1, <3>3 DEF InOrder
  <2>3. Own(c)
    BY DEF BaseInv
  <2>. QED  BY <1>0, <2>1, <2>2, <2>3 DEF Own, AllFit, Linked, Idle
<1>. QED  BY <1>1, <1>2, <1>3, <1>4, <1>5 DEF BaseInv

-----------------------------------------------------------------------------
(* The client's steps.  One connection's step is nothing to another. *)
LEMMA OwnKept ==
  ASSUME NEW d \in Conns, Own(d), UNCHANGED <<pc, session, query, regs>>,
         conn'[d] = conn[d], inbox'[d] = inbox[d], outbox'[d] = outbox[d],
         todo'[d] = todo[d], waiting'[d] = waiting[d], numReg'[d] = numReg[d],
         sent'[d] = sent[d], taken'[d] = taken[d]
  PROVE  Own(d)'
<1>1. Asked(d)'
  BY DEF Own, Asked, Under, Hand
<1>2. Answered(d)'
  BY DEF Own, Answered, Answers, Under
<1>3. conn[d] = "open" => InOrder(d, taken[d], sent[d])'
  BY DEF Own, InOrder, Hand
<1>. QED  BY <1>1, <1>2, <1>3 DEF Own, AllFit, Linked, Idle

LEMMA ConnectKeeps ==
  ASSUME BaseInv, NEW c \in Conns, Connect(c)
  PROVE  BaseInv'
<1>1. /\ conn[c] = "new" /\ conn' = [conn EXCEPT ![c] = "open"]
      /\ backlog' = Append(backlog, c)
      /\ UNCHANGED <<pc, query, session, op, regs, inbox, outbox, todo, waiting,
                     position, numReg, sent, taken, options, timeouts, clean,
                     overran>>
      /\ UNCHANGED <<action, line, shift, nClient, arm, serialOpen, written>>
  BY DEF Connect, mainVars, modbusVars, armVars, clientVars, callVars, countVars
<1>2. TypeOK'
  BY <1>1 DEF BaseInv, TypeOK
<1>3. ServerTypes(Sendable)'
  <2>1. backlog' \in Seq(Conns) /\ conn' \in [Conns -> {"new", "open", "closed"}]
    BY <1>1, BaseTypes
  <2>. QED  BY <1>1, <2>1 DEF BaseInv, ServerTypes
<1>4. Unopened'
  <2>1. /\ Len(backlog) \in Nat /\ Len(backlog') = Len(backlog) + 1
        /\ \A i \in 1 .. Len(backlog) : backlog'[i] = backlog[i]
        /\ backlog'[Len(backlog) + 1] = c
    BY <1>1, BaseTypes, AppendProperties
  <2>2. ASSUME NEW i \in 1 .. Len(backlog') PROVE conn'[backlog'[i]] # "new"
    <3>1. i \in 1 .. Len(backlog) \/ i = Len(backlog) + 1
      BY <2>1
    <3>2. conn \in [Conns -> {"new", "open", "closed"}] /\ backlog \in Seq(Conns)
      BY BaseTypes
    <3>3. \A j \in 1 .. Len(backlog) : conn[backlog[j]] # "new"
      BY DEF BaseInv, Unopened
    <3>. QED  BY <1>1, <2>1, <3>1, <3>2, <3>3
  <2>. QED  BY <1>1, <2>2, BaseTypes DEF BaseInv, Unopened
<1>5. Analysed'
  BY <1>1 DEF BaseInv, Analysed
<1>6. Own(c)'
  <2>1. /\ c # session /\ inbox[c] = << >> /\ outbox[c] = << >>
        /\ Own(c) /\ Idle(c) /\ waiting[c] = 0
    BY <1>1, BaseTypes DEF BaseInv, Unopened, Own, Idle
  <2>2. InOrder(c, taken[c], sent[c])'
    BY <1>1, <2>1 DEF InOrder, Hand, Idle
  <2>3. conn'[c] = "open"
    BY <1>1, BaseTypes
  <2>. QED
    BY <1>1, <2>1, <2>2, <2>3 DEF Own, AllFit, Linked, Asked, Answered, Under
<1>7. ASSUME NEW d \in Conns, d # c PROVE Own(d)'
  <2>1. Own(d) /\ conn'[d] = conn[d]
    BY <1>1, <1>7, BaseTypes DEF BaseInv
  <2>. QED  BY <1>1, <2>1, OwnKept
<1>. QED  BY <1>2, <1>3, <1>4, <1>5, <1>6, <1>7 DEF BaseInv

LEMMA ChooseKeeps ==
  ASSUME BaseInv, NEW c \in Conns, Option(c)
  PROVE  BaseInv'
<1>1. PICK s, p, n : Choose(c, s, p, n) /\ Chosen(s, n) /\ p \in Position /\ n \in Counts
  BY BaseTypes, OptionCalls
<1>2. /\ conn[c] = "open" /\ todo[c] = << >> /\ options < MaxOptions
      /\ todo' = [todo EXCEPT ![c] = s] /\ numReg' = [numReg EXCEPT ![c] = n]
      /\ position' = [position EXCEPT ![c] = p]
      /\ options' = options + 1 /\ clean' = [clean EXCEPT ![c] = TRUE]
      /\ UNCHANGED <<waiting, timeouts, sent, taken, overran>>
      /\ UNCHANGED <<pc, query, session, op, regs, inbox, outbox, conn, backlog>>
      /\ UNCHANGED <<action, line, shift, nClient, arm, serialOpen, written>>
  BY <1>1 DEF Choose, serverVars, mainVars, modbusVars, netVars, armVars
<1>3. s \in Seq(Calls) /\ AllFit(s, n) /\ Linked(s)
  BY <1>1 DEF Chosen
<1>4. waiting[c] = 0
  BY <1>2, BaseTypes
<1>5. TypeOK'
  <2>1. /\ todo' \in [Conns -> Seq(Calls)] /\ numReg' \in [Conns -> Counts]
        /\ position' \in [Conns -> Position] /\ clean' \in [Conns -> BOOLEAN]
        /\ options' \in 0 .. MaxOptions
    BY <1>1, <1>2, <1>3, BaseTypes, BoundsAssumption
  <2>2. \A d \in Conns : waiting'[d] # 0 => todo'[d] # << >> /\ waiting'[d] = sent'[d]
    BY <1>2, <1>4, BaseTypes
  <2>. QED  BY <1>2, <2>1, <2>2, BaseTypes DEF TypeOK, Position, Counts
<1>6. ServerTypes(Sendable)' /\ Unopened' /\ Analysed'
  BY <1>2 DEF BaseInv, ServerTypes, Unopened, Analysed
<1>7. Own(c)'
  <2>1. Own(c) /\ todo'[c] = s /\ numReg'[c] = n
    BY <1>1, <1>2, BaseTypes DEF BaseInv
  <2>2. InOrder(c, taken[c], sent[c])'
    BY <1>2, <2>1 DEF Own, InOrder, Hand
  <2>. QED
    BY <1>2, <1>3, <1>4, <2>1, <2>2
       DEF Own, AllFit, Linked, Asked, Answered, Under
<1>8. ASSUME NEW d \in Conns, d # c PROVE Own(d)'
  <2>1. Own(d) /\ todo'[d] = todo[d] /\ numReg'[d] = numReg[d]
    BY <1>2, <1>8, BaseTypes DEF BaseInv
  <2>. QED  BY <1>2, <2>1, OwnKept
<1>. QED  BY <1>5, <1>6, <1>7, <1>8 DEF BaseInv

(* A request sent now has an id of its own. *)
LEMMA IdsBelow ==
  ASSUME NEW R, ServerTypes(R), NEW c \in Conns,
         NEW n \in Nat, NEW m \in Nat, InOrder(c, n, m)
  PROVE  /\ \A i \in 1 .. Len(outbox[c]) : outbox[c][i].id # m + 1
         /\ Hand(c) = 1 => query.id # m + 1
         /\ \A i \in 1 .. Len(inbox[c]) : inbox[c][i].id # m + 1
<1>1. inbox \in [Conns -> Seq(Frames(R))] /\ outbox \in [Conns -> Seq(Replies)]
  BY DEF ServerTypes
<1>2. PICK k \in Nat, l \in Nat : k = Len(outbox[c]) /\ l = Len(inbox[c])
  BY <1>1
<1>3. PICK h \in {0, 1} : h = Hand(c)
  BY DEF Hand
<1>4. m = n + k + h + l
  BY <1>2, <1>3 DEF InOrder
<1>5. \A i \in 1 .. k : n + i # m + 1
  BY <1>3, <1>4
<1>6. h = 1 => n + k + 1 # m + 1
  BY <1>4
<1>7. \A i \in 1 .. l : n + k + h + i # m + 1
  BY <1>3, <1>4
<1>. QED  BY <1>2, <1>3, <1>5, <1>6, <1>7, Zenon DEF InOrder

LEMMA CallSends ==
  ASSUME BaseInv, NEW c \in Conns, Call(c)
  PROVE  \E r \in Sendable :
           /\ inbox' = [inbox EXCEPT ![c] = Append(@, [id |-> sent[c] + 1, req |-> r])]
           /\ Asks(Head(todo[c]), numReg[c], r)
<1>1. todo[c] # << >> /\ todo[c] \in Seq(Calls)
  BY BaseTypes DEF Call
<1>2. Head(todo[c]) \in Calls
  BY <1>1, TailOf
<1>3. Fit(Head(todo[c]), numReg[c])
  BY <1>1, TailKeeps DEF BaseInv, Own
<1>4. RequestOf(c, Head(todo[c])) \in Sendable
      /\ Asks(Head(todo[c]), numReg[c], RequestOf(c, Head(todo[c])))
  BY <1>2, <1>3, BaseTypes, RequestIs
<1>5. sent'[c] = sent[c] + 1
  BY BaseTypes DEF Call
<1>. QED  BY <1>4, <1>5 DEF Call

LEMMA CallKeeps ==
  ASSUME BaseInv, NEW c \in Conns, Call(c)
  PROVE  BaseInv'
<1>1. PICK n \in Nat, m \in Nat : n = taken[c] /\ m = sent[c]
  BY BaseTypes
<1>2. PICK r \in Sendable :
        /\ inbox' = [inbox EXCEPT ![c] = Append(@, [id |-> m + 1, req |-> r])]
        /\ Asks(Head(todo[c]), numReg[c], r)
  BY <1>1, CallSends
<1>3. /\ conn[c] = "open" /\ waiting[c] = 0 /\ todo[c] # << >>
      /\ sent' = [sent EXCEPT ![c] = m + 1]
      /\ waiting' = [waiting EXCEPT ![c] = m + 1]
      /\ UNCHANGED <<todo, numReg, taken, options, timeouts, clean>>
      /\ UNCHANGED <<pc, query, session, op, regs, outbox, conn, backlog>>
      /\ UNCHANGED <<action, line, shift, nClient, arm, serialOpen, written>>
  <2>1. sent' = [sent EXCEPT ![c] = @ + 1] /\ waiting' = [waiting EXCEPT ![c] = sent'[c]]
    BY DEF Call
  <2>2. sent' = [sent EXCEPT ![c] = m + 1] /\ sent'[c] = m + 1
    BY <1>1, <2>1, BaseTypes
  <2>. QED
    BY <2>1, <2>2 DEF Call, mainVars, modbusVars, armVars, countVars
<1>4. position' \in [Conns -> Position]
  <2>1. todo[c] \in Seq(Calls)
    BY BaseTypes
  <2>2. Head(todo[c]) \in Calls
    BY <1>3, <2>1, TailOf
  <2>3. Head(todo[c]).do = "move" => Shifted(c, Head(todo[c]).by) \in Position
    BY <2>2, CallKinds, BaseTypes, ShiftedType
  <2>. QED  BY <2>3, BaseTypes DEF Call
<1>5. TypeOK'
  <2>1. m + 1 \in Nat
    OBVIOUS
  <2>2. waiting' \in [Conns -> Nat] /\ sent' \in [Conns -> Nat]
    BY <1>3, <2>1, BaseTypes
  <2>3. \A d \in Conns : waiting'[d] # 0 => todo'[d] # << >> /\ waiting'[d] = sent'[d]
    BY <1>3, BaseTypes
  <2>4. overran' \in BOOLEAN
    BY Zenon DEF Call
  <2>. QED  BY <1>3, <1>4, <2>2, <2>3, <2>4, BaseTypes DEF TypeOK, Position, Counts
<1>6. inbox' \in [Conns -> Seq(Frames(Sendable))]
  <2>1. [id |-> m + 1, req |-> r] \in Frames(Sendable)
    BY DEF Frames
  <2>2. PICK f \in Frames(Sendable) : f = [id |-> m + 1, req |-> r]
    BY <2>1
  <2>3. Append(inbox[c], f) \in Seq(Frames(Sendable))
    BY BaseTypes
  <2>. QED  BY <1>2, <2>2, <2>3, BaseTypes
<1>7. ServerTypes(Sendable)' /\ Unopened' /\ Analysed'
  <2>1. ServerTypes(Sendable)'
    BY <1>3, <1>6 DEF BaseInv, ServerTypes
  <2>2. Unopened'
    BY <1>2, <1>3, BaseTypes DEF BaseInv, Unopened
  <2>. QED  BY <1>3, <2>1, <2>2 DEF BaseInv, Analysed
<1>8. Own(c)'
  <2>1. Own(c) /\ ServerTypes(Sendable) /\ InOrder(c, n, m)
    BY <1>1, <1>3 DEF BaseInv, Own
  <2>2. InOrder(c, taken[c], sent[c])'
    <3>1. InOrder(c, n, m + 1)'
      BY <1>2, <1>3, <2>1, InOrderSend
    <3>2. taken'[c] = n /\ sent'[c] = m + 1
      BY <1>1, <1>3, BaseTypes
    <3>. QED  BY <3>1, <3>2 DEF InOrder
  <2>3. waiting'[c] = m + 1
    BY <1>3, BaseTypes
  <2>4. Answered(c)'
    BY <1>3, <2>1, <2>3, IdsBelow DEF Answered
  <2>5. Asked(c)'
    <3>. DEFINE x == [id |-> m + 1, req |-> r]
    <3>1. inbox'[c] = Append(inbox[c], x)
      BY <1>2, BaseTypes
    <3>2. PICK s \in Seq(Frames(Sendable)) : s = inbox[c]
      BY BaseTypes
    <3>3. x.req = r
      OBVIOUS
    <3>. HIDE DEF x
    <3>4. /\ Len(s) \in Nat /\ Len(Append(s, x)) = Len(s) + 1
          /\ Append(s, x)[Len(s) + 1] = x
          /\ \A i \in 1 .. Len(s) : Append(s, x)[i] = s[i]
      OBVIOUS
    <3>5. ASSUME NEW i \in 1 .. Len(inbox'[c]), inbox'[c][i].id = m + 1
          PROVE  inbox'[c][i].req = r
      <4>1. i \in 1 .. Len(s) \/ i = Len(s) + 1
        BY <3>1, <3>2, <3>4
      <4>2. ~ (i \in 1 .. Len(s))
        BY <2>1, <3>1, <3>2, <3>4, <3>5, IdsBelow
      <4>. QED  BY <3>1, <3>2, <3>3, <3>4, <4>1, <4>2
    <3>6. Hand(c)' = Hand(c) /\ query' = query
      BY <1>3 DEF Hand
    <3>. QED  BY <1>2, <1>3, <2>1, <2>3, <3>5, <3>6, IdsBelow DEF Asked
  <2>. QED  BY <1>3, <2>1, <2>2, <2>4, <2>5 DEF Own, AllFit, Linked
<1>9. ASSUME NEW d \in Conns, d # c PROVE Own(d)'
  <2>1. Own(d) /\ inbox'[d] = inbox[d] /\ sent'[d] = sent[d] /\ waiting'[d] = waiting[d]
    BY <1>2, <1>3, <1>9, BaseTypes DEF BaseInv
  <2>. QED  BY <1>3, <2>1, OwnKept
<1>. QED  BY <1>5, <1>7, <1>8, <1>9 DEF BaseInv

(* What follows a call that returned, and what was to follow it anyway. *)
LEMMA Onward ==
  ASSUME NEW s \in Seq(Calls), s # << >>, NEW n, AllFit(s, n), Linked(s), NEW vals
  PROVE  LET t == Continuation(Head(s), vals) \o Tail(s)
         IN  t \in Seq(Calls) /\ AllFit(t, n) /\ Linked(t)
<1>1. PICK h \in Calls, u \in Seq(Calls) : h = Head(s) /\ u = Tail(s)
  BY TailOf
<1>2. AllFit(u, n) /\ Linked(u) /\ (u # << >> => Follow(h, Head(u)))
  BY <1>1, TailKeeps
<1>3. CASE h.do = "toggle"
  <2>1. Message \in Calls /\ Fit(Message, n)
    BY CallTypes, CallFields DEF Fit
  <2>2. PICK x \in Calls : x = Message /\ Fit(x, n)
    BY <2>1
  <2>3. ASSUME u # << >> PROVE Follow(x, Head(u))
    <3>1. h.needs = "any" /\ h # Command(ROBOT_CATCH)
      BY <1>3, CallKinds, CallFields
    <3>2. Head(u).needs = "any" /\ Head(u) # Command(ROBOT_CATCH)
      BY <1>2, <1>3, <2>3, <3>1 DEF Follow
    <3>. QED  BY <3>2 DEF Follow
  <2>4. Continuation(h, vals) = <<x>>
    BY <1>3, <2>2 DEF Continuation
  <2>. QED  BY <1>1, <1>2, <2>2, <2>3, <2>4, ConsOf, ConsKeeps
<1>4. CASE h.do = "catchIf" /\ vals[1] = h.state
  <2>1. Command(ROBOT_CATCH) \in Calls /\ Fit(Command(ROBOT_CATCH), n)
    BY CallTypes, CallFields DEF Fit
  <2>2. PICK x \in Calls : x = Command(ROBOT_CATCH) /\ Fit(x, n)
    BY <2>1
  <2>3. u # << >> => Follow(x, Head(u))
    BY <1>2, <2>2 DEF Follow
  <2>4. Continuation(h, vals) = <<x>>
    BY <1>4, <2>2 DEF Continuation
  <2>5. <<x>> \o u \in Seq(Calls)
    BY ConsOf
  <2>6. AllFit(<<x>> \o u, n) /\ Linked(<<x>> \o u)
    BY <1>2, <2>2, <2>3, ConsKeeps
  <2>. QED  BY <1>1, <2>4, <2>5, <2>6
<1>5. CASE h.do # "toggle" /\ ~ (h.do = "catchIf" /\ vals[1] = h.state)
  <2>1. Continuation(h, vals) = << >>
    BY <1>5 DEF Continuation
  <2>. QED  BY <1>1, <1>2, <2>1, EmptyConcat
<1>. QED  BY <1>3, <1>4, <1>5

(* A connection with no call under way. *)
LEMMA OwnFree ==
  ASSUME NEW c \in Conns, conn'[c] = "open", waiting'[c] = 0,
         AllFit(todo[c], numReg[c])', Linked(todo[c])',
         InOrder(c, taken[c], sent[c])'
  PROVE  Own(c)'
BY DEF Own, Asked, Answered, Under

LEMMA ReturnTrueKeeps ==
  ASSUME BaseInv, NEW c \in Conns, ReturnTrue(c)
  PROVE  BaseInv'
<1>1. PICK n \in Nat, m \in Nat : n = taken[c] /\ m = sent[c]
  BY BaseTypes
<1>. DEFINE vals == Head(outbox[c]).rep.vals
<1>2. /\ conn[c] = "open" /\ waiting[c] # 0 /\ outbox[c] # << >> /\ todo[c] # << >>
      /\ todo' = [todo EXCEPT ![c] = Continuation(Head(@), vals) \o Tail(@)]
      /\ waiting' = [waiting EXCEPT ![c] = 0]
      /\ outbox' = [outbox EXCEPT ![c] = Tail(@)]
      /\ taken' = [taken EXCEPT ![c] = @ + 1]
      /\ UNCHANGED <<numReg, sent, options, timeouts, clean, overran>>
      /\ UNCHANGED <<pc, query, session, op, regs, inbox, conn, backlog>>
      /\ UNCHANGED <<action, line, shift, nClient, arm, serialOpen, written>>
  BY BaseTypes DEF ReturnTrue, Arrived, mainVars, modbusVars, armVars, countVars
<1>3. /\ todo'[c] = Continuation(Head(todo[c]), vals) \o Tail(todo[c])
      /\ todo'[c] \in Seq(Calls) /\ AllFit(todo'[c], numReg[c]) /\ Linked(todo'[c])
  <2>1. todo'[c] = Continuation(Head(todo[c]), vals) \o Tail(todo[c])
    BY <1>2, BaseTypes
  <2>2. todo[c] \in Seq(Calls) /\ AllFit(todo[c], numReg[c]) /\ Linked(todo[c])
    BY BaseTypes DEF BaseInv, Own
  <2>. HIDE DEF vals
  <2>. QED  BY <1>2, <2>1, <2>2, Onward
<1>4. position' \in [Conns -> Position]
  <2>1. CASE Head(todo[c]).do = "readPosition"
    <3>1. outbox[c] \in Seq(Replies)
      BY BaseTypes
    <3>2. 1 \in 1 .. Len(outbox[c]) /\ Head(outbox[c]) = outbox[c][1]
      BY <1>2, <3>1
    <3>3. Answers(Head(todo[c]), outbox[c][1].rep, c)
      BY <1>2, <3>2 DEF ReturnTrue, Matches, BaseInv, Own, Answered, Under
    <3>4. \A j \in 1 .. 7 : vals[j] \in Word
      BY <2>1, <3>2, <3>3 DEF ReturnTrue, Matches, Answers
    <3>5. \A i \in 0 .. 6 : i + 1 \in 1 .. 7
      OBVIOUS
    <3>6. [i \in 0 .. 6 |-> vals[i + 1]] \in Position
      BY <3>4, <3>5 DEF Position
    <3>7. position' = [position EXCEPT ![c] = [i \in 0 .. 6 |-> vals[i + 1]]]
      BY <2>1 DEF ReturnTrue
    <3>. QED  BY <3>6, <3>7, BaseTypes
  <2>2. CASE Head(todo[c]).do # "readPosition"
    BY <2>2, BaseTypes DEF ReturnTrue
  <2>. QED  BY <2>1, <2>2
<1>5. TypeOK'
  <2>1. todo' \in [Conns -> Seq(Calls)]
    BY <1>2, <1>3, BaseTypes
  <2>2. waiting' \in [Conns -> Nat] /\ taken' \in [Conns -> Nat]
    BY <1>2, BaseTypes
  <2>3. \A d \in Conns : waiting'[d] # 0 => todo'[d] # << >> /\ waiting'[d] = sent'[d]
    BY <1>2, BaseTypes
  <2>. QED  BY <1>2, <1>4, <2>1, <2>2, <2>3, BaseTypes DEF TypeOK, Position, Counts
<1>6. outbox' \in [Conns -> Seq(Replies)]
  BY <1>2, TailOf, BaseTypes
<1>7. ServerTypes(Sendable)' /\ Unopened' /\ Analysed'
  <2>1. ServerTypes(Sendable)'
    BY <1>2, <1>6 DEF BaseInv, ServerTypes
  <2>2. Unopened'
    BY <1>2, BaseTypes DEF BaseInv, Unopened
  <2>. QED  BY <1>2, <2>1, <2>2 DEF BaseInv, Analysed
<1>8. Own(c)'
  <2>1. Own(c) /\ ServerTypes(Sendable) /\ InOrder(c, n, m)
    BY <1>1, <1>2 DEF BaseInv, Own
  <2>2. InOrder(c, n + 1, m)'
    BY <1>2, <2>1, InOrderTake
  <2>3. taken'[c] = n + 1 /\ sent'[c] = m /\ waiting'[c] = 0
    BY <1>1, <1>2, BaseTypes
  <2>4. InOrder(c, taken[c], sent[c])'
    BY <2>2, <2>3 DEF InOrder
  <2>5. AllFit(todo[c], numReg[c])' /\ Linked(todo[c])'
    BY <1>2, <1>3 DEF AllFit, Linked
  <2>. QED  BY <1>2, <2>3, <2>4, <2>5, OwnFree
<1>9. ASSUME NEW d \in Conns, d # c PROVE Own(d)'
  <2>1. Own(d) /\ outbox'[d] = outbox[d] /\ todo'[d] = todo[d]
        /\ waiting'[d] = waiting[d] /\ taken'[d] = taken[d]
    BY <1>2, <1>9, BaseTypes DEF BaseInv
  <2>. QED  BY <1>2, <2>1, OwnKept
<1>. QED  BY <1>5, <1>7, <1>8, <1>9 DEF BaseInv

LEMMA GiveUpKeeps ==
  ASSUME BaseInv, NEW c \in Conns, ReturnFalse(c) \/ Timeout(c)
  PROVE  BaseInv'
<1>1. PICK n \in Nat, m \in Nat : n = taken[c] /\ m = sent[c]
  BY BaseTypes
<1>2. /\ conn[c] = "open" /\ waiting[c] # 0 /\ todo[c] # << >>
      /\ todo' = [todo EXCEPT ![c] = Tail(@)]
      /\ waiting' = [waiting EXCEPT ![c] = 0]
      /\ clean' = [clean EXCEPT ![c] = FALSE]
      /\ UNCHANGED <<position, numReg, sent, options, overran>>
      /\ UNCHANGED <<pc, query, session, op, regs, inbox, conn, backlog>>
      /\ UNCHANGED <<action, line, shift, nClient, arm, serialOpen, written>>
  BY BaseTypes DEF ReturnFalse, Timeout, GiveUp, Arrived, mainVars, modbusVars, armVars
<1>3. \/ /\ outbox[c] # << >> /\ outbox' = [outbox EXCEPT ![c] = Tail(@)]
         /\ taken' = [taken EXCEPT ![c] = @ + 1] /\ timeouts' = timeouts
      \/ /\ UNCHANGED <<outbox, taken>>
         /\ timeouts < MaxTimeouts /\ timeouts' = timeouts + 1
  BY DEF ReturnFalse, Timeout, Arrived
<1>4. /\ todo'[c] = Tail(todo[c])
      /\ todo'[c] \in Seq(Calls) /\ AllFit(todo'[c], numReg[c]) /\ Linked(todo'[c])
  <2>1. todo[c] \in Seq(Calls) /\ AllFit(todo[c], numReg[c]) /\ Linked(todo[c])
    BY BaseTypes DEF BaseInv, Own
  <2>2. todo'[c] = Tail(todo[c])
    BY <1>2, BaseTypes
  <2>. QED  BY <1>2, <2>1, <2>2, TailOf, TailKeeps
<1>5. TypeOK'
  <2>1. todo' \in [Conns -> Seq(Calls)]
    BY <1>2, <1>4, BaseTypes
  <2>2. waiting' \in [Conns -> Nat] /\ clean' \in [Conns -> BOOLEAN]
    BY <1>2, BaseTypes
  <2>3. taken' \in [Conns -> Nat] /\ timeouts' \in 0 .. MaxTimeouts
    <3>1. taken' \in [Conns -> Nat]
      <4>1. taken' = [taken EXCEPT ![c] = @ + 1] \/ taken' = taken
        BY <1>3
      <4>2. taken \in [Conns -> Nat] /\ [taken EXCEPT ![c] = @ + 1] \in [Conns -> Nat]
        BY BaseTypes
      <4>. QED  BY <4>1, <4>2
    <3>2. timeouts \in Nat /\ timeouts <= MaxTimeouts /\ MaxTimeouts \in Nat
      BY BaseTypes, BoundsAssumption
    <3>3. timeouts' = timeouts \/ (timeouts < MaxTimeouts /\ timeouts' = timeouts + 1)
      BY <1>3
    <3>4. timeouts' \in 0 .. MaxTimeouts
      BY <3>2, <3>3
    <3>. QED  BY <3>1, <3>4
  <2>4. \A d \in Conns : waiting'[d] # 0 => todo'[d] # << >> /\ waiting'[d] = sent'[d]
    BY <1>2, BaseTypes
  <2>. QED  BY <1>2, <2>1, <2>2, <2>3, <2>4, BaseTypes DEF TypeOK, Position, Counts
<1>6. outbox' \in [Conns -> Seq(Replies)]
  <2>1. outbox[c] # << >> => Tail(outbox[c]) \in Seq(Replies)
    BY TailOf, BaseTypes
  <2>2. \/ outbox[c] # << >> /\ outbox' = [outbox EXCEPT ![c] = Tail(@)]
        \/ outbox' = outbox
    BY <1>3
  <2>. QED  BY <2>1, <2>2, BaseTypes
<1>7. ServerTypes(Sendable)' /\ Unopened' /\ Analysed'
  <2>1. ServerTypes(Sendable)'
    BY <1>2, <1>6 DEF BaseInv, ServerTypes
  <2>2. Unopened'
    BY <1>2, <1>3, BaseTypes DEF BaseInv, Unopened
  <2>. QED  BY <1>2, <2>1, <2>2 DEF BaseInv, Analysed
<1>8. Own(c)'
  <2>1. Own(c) /\ ServerTypes(Sendable) /\ InOrder(c, n, m)
    BY <1>1, <1>2 DEF BaseInv, Own
  <2>2. waiting'[c] = 0 /\ sent'[c] = m
    BY <1>1, <1>2, BaseTypes
  <2>3. InOrder(c, taken[c], sent[c])'
    <3>1. CASE outbox[c] # << >> /\ outbox' = [outbox EXCEPT ![c] = Tail(@)]
               /\ taken' = [taken EXCEPT ![c] = @ + 1]
      <4>1. InOrder(c, n + 1, m)'
        BY <1>2, <2>1, <3>1, InOrderTake
      <4>2. taken'[c] = n + 1
        BY <1>1, <3>1, BaseTypes
      <4>. QED  BY <2>2, <4>1, <4>2 DEF InOrder
    <3>2. CASE UNCHANGED <<outbox, taken>>
      BY <1>1, <1>2, <2>1, <3>2 DEF InOrder, Hand
    <3>. QED  BY <1>3, <3>1, <3>2
  <2>4. AllFit(todo[c], numReg[c])' /\ Linked(todo[c])'
    BY <1>2, <1>4 DEF AllFit, Linked
  <2>. QED  BY <1>2, <2>2, <2>3, <2>4, OwnFree
<1>9. ASSUME NEW d \in Conns, d # c PROVE Own(d)'
  <2>1. Own(d) /\ outbox'[d] = outbox[d] /\ todo'[d] = todo[d]
        /\ waiting'[d] = waiting[d] /\ taken'[d] = taken[d]
    BY <1>2, <1>3, <1>9, BaseTypes DEF BaseInv
  <2>. QED  BY <1>2, <2>1, OwnKept
<1>. QED  BY <1>5, <1>7, <1>8, <1>9 DEF BaseInv

LEMMA QuitKeeps ==
  ASSUME BaseInv, NEW c \in Conns, Quit(c)
  PROVE  BaseInv'
<1>1. /\ conn[c] = "open" /\ conn' = [conn EXCEPT ![c] = "closed"]
      /\ outbox' = [outbox EXCEPT ![c] = << >>]
      /\ UNCHANGED <<todo, waiting, position, numReg, sent, taken, options,
                     timeouts, clean, overran>>
      /\ UNCHANGED <<pc, query, session, op, regs, inbox, backlog>>
      /\ UNCHANGED <<action, line, shift, nClient, arm, serialOpen, written>>
  BY DEF Quit, mainVars, modbusVars, armVars, clientVars, callVars, countVars
<1>2. TypeOK'
  BY <1>1 DEF BaseInv, TypeOK
<1>3. ServerTypes(Sendable)' /\ Unopened' /\ Analysed'
  <2>1. outbox' \in [Conns -> Seq(Replies)] /\ conn' \in [Conns -> {"new", "open", "closed"}]
    BY <1>1, BaseTypes
  <2>2. ServerTypes(Sendable)'
    BY <1>1, <2>1 DEF BaseInv, ServerTypes
  <2>3. Unopened'
    <3>1. \A d \in Conns : conn'[d] = "new" => d # c /\ conn[d] = "new"
      BY <1>1, BaseTypes
    <3>2. \A i \in 1 .. Len(backlog) : backlog[i] \in Conns
      BY BaseTypes
    <3>. QED  BY <1>1, <3>1, <3>2, BaseTypes DEF BaseInv, Unopened
  <2>. QED  BY <1>1, <2>2, <2>3 DEF BaseInv, Analysed
<1>4. Own(c)'
  BY <1>1, BaseTypes DEF BaseInv, Own, AllFit, Linked, Asked, Answered, Under
<1>5. ASSUME NEW d \in Conns, d # c PROVE Own(d)'
  <2>1. Own(d) /\ outbox'[d] = outbox[d] /\ conn'[d] = conn[d]
    BY <1>1, <1>5, BaseTypes DEF BaseInv
  <2>. QED  BY <1>1, <2>1, OwnKept
<1>. QED  BY <1>2, <1>3, <1>4, <1>5 DEF BaseInv

LEMMA BaseInit == Init => BaseInv
<1>. SUFFICES ASSUME Init PROVE BaseInv
  OBVIOUS
<1>1. TypeOK
  <2>1. 0 \in Word
    BY DEF Word
  <2>2. position \in [Conns -> [0 .. 6 -> Word]]
    BY StackAssumption DEF Init
  <2>3. numReg \in [Conns -> StackInts \cup {7, NUM_REG}]
    BY DEF Init
  <2>4. /\ todo = [c \in Conns |-> << >>] /\ waiting = [c \in Conns |-> 0]
        /\ options = 0 /\ timeouts = 0
        /\ sent = [c \in Conns |-> 0] /\ taken = [c \in Conns |-> 0]
        /\ clean = [c \in Conns |-> TRUE]
    BY DEF Init
  <2>5. overran \in BOOLEAN
    BY Zenon DEF Init
  <2>6. options \in 0 .. MaxOptions /\ timeouts \in 0 .. MaxTimeouts
    BY <2>4, BoundsAssumption
  <2>. QED  BY <2>2, <2>3, <2>4, <2>5, <2>6 DEF TypeOK
<1>2. ServerTypes(Sendable)
  BY ServerTypeInit DEF Init
<1>3. Unopened /\ Analysed
  BY ConnsAssumption DEF Init, ServerInit, Unopened, Analysed
<1>4. ASSUME NEW c \in Conns PROVE Own(c)
  BY DEF Init, ServerInit, Own, AllFit, Linked, Idle, Asked, Answered, Under
<1>. QED  BY <1>1, <1>2, <1>3, <1>4 DEF BaseInv

LEMMA BaseStep == BaseInv /\ [Next]_vars => BaseInv'
<1>. SUFFICES ASSUME BaseInv, [Next]_vars PROVE BaseInv'
  OBVIOUS
<1>1. CASE UNCHANGED vars
  <2>. USE <1>1 DEF vars, serverVars, mainVars, modbusVars, netVars, armVars,
                    clientVars, callVars, countVars
  <2>1. TypeOK' /\ ServerTypes(Sendable)'
    BY DEF BaseInv, TypeOK, ServerTypes
  <2>2. Unopened' /\ Analysed'
    BY DEF BaseInv, Unopened, Analysed
  <2>3. ASSUME NEW d \in Conns PROVE Own(d)'
    BY OwnKept DEF BaseInv
  <2>. QED  BY <2>1, <2>2, <2>3 DEF BaseInv
<1>2. CASE Next
  BY <1>2, ServerKeeps, ConnectKeeps, ChooseKeeps, CallKeeps, ReturnTrueKeeps,
     GiveUpKeeps, QuitKeeps DEF Next, ClientStep
<1>. QED  BY <1>1, <1>2

LEMMA BaseAlways == Spec => []BaseInv
BY BaseInit, BaseStep, PTL DEF Spec

(* Every variable of the client program stays in its type: the calls still *)
(* to return are calls of the menu, the array position and the word after  *)
(* it hold words whatever the user typed and whatever was read into them,  *)
(* and the call under way is the last one sent.                            *)
THEOREM TypeCorrect == Spec => []TypeOK
<1>1. BaseInv => TypeOK
  BY DEF BaseInv
<1>. QED  BY <1>1, BaseAlways, PTL

-----------------------------------------------------------------------------
(* The client program as one of the masters of RxMasters.  The requests a  *)
(* run has sent and has still to send are bounded by the options chosen: a *)
(* call is followed by at most one more, which is followed by none.        *)
Short(c) == todo[c] # << >> /\ Head(todo[c]).do \in {"command", "message"}
Spare(c) == (IF waiting[c] = 0 THEN 0 ELSE 1) + (IF Short(c) THEN 1 ELSE 0)
Bounded(c) == sent[c] + 2 * Len(todo[c]) <= 22 * options + Spare(c)

LEMMA BoundInit == ASSUME Init, NEW c \in Conns PROVE Bounded(c)
<1>1. todo[c] = << >> /\ waiting[c] = 0 /\ sent[c] = 0 /\ options = 0
  BY DEF Init
<1>. QED  BY <1>1 DEF Bounded, Spare, Short

(* What is left after a call that returned. *)
LEMMA OnwardLength ==
  ASSUME NEW s \in Seq(Calls), s # << >>, NEW vals
  PROVE  LET t == Continuation(Head(s), vals) \o Tail(s)
         IN  \/ Len(t) = Len(s) - 1
             \/ /\ Len(t) = Len(s) /\ t # << >>
                /\ Head(t).do \in {"command", "message"}
                /\ Head(s).do \notin {"command", "message"}
<1>. DEFINE t == Continuation(Head(s), vals) \o Tail(s)
<1>1. PICK h \in Calls, u \in Seq(Calls) : h = Head(s) /\ u = Tail(s)
  BY TailOf
<1>2. Len(u) \in Nat /\ Len(s) = Len(u) + 1
  BY <1>1, TailOf
<1>3. ASSUME NEW x \in Calls, x.do \in {"command", "message"},
             Continuation(h, vals) = <<x>>, h.do \notin {"command", "message"}
      PROVE  /\ Len(t) = Len(s) /\ t # << >>
             /\ Head(t).do \in {"command", "message"}
             /\ Head(s).do \notin {"command", "message"}
  <2>1. t = <<x>> \o u
    BY <1>1, <1>3
  <2>2. Len(t) = Len(u) + 1 /\ Head(t) = x /\ t # << >>
    BY <2>1, ConsOf
  <2>. QED  BY <1>1, <1>2, <1>3, <2>2
<1>4. CASE h.do = "toggle"
  <2>1. Continuation(h, vals) = <<Message>>
    BY <1>4 DEF Continuation
  <2>. QED  BY <1>3, <1>4, <2>1, CallTypes, CallFields
<1>5. CASE h.do = "catchIf" /\ vals[1] = h.state
  <2>1. Continuation(h, vals) = <<Command(ROBOT_CATCH)>>
    BY <1>5 DEF Continuation
  <2>2. PICK x \in Calls : x = Command(ROBOT_CATCH)
    BY CallTypes
  <2>3. x.do = "command"
    BY <2>2, CallFields
  <2>. QED  BY <1>3, <1>5, <2>1, <2>2, <2>3
<1>6. CASE h.do # "toggle" /\ ~ (h.do = "catchIf" /\ vals[1] = h.state)
  <2>1. Continuation(h, vals) = << >>
    BY <1>6 DEF Continuation
  <2>2. t = u
    BY <1>1, <2>1, EmptyConcat
  <2>. QED  BY <1>2, <2>2
<1>. QED  BY <1>4, <1>5, <1>6

LEMMA BoundKept ==
  ASSUME NEW d \in Conns, Bounded(d), options' = options, todo'[d] = todo[d],
         waiting'[d] = waiting[d], sent'[d] = sent[d]
  PROVE  Bounded(d)'
BY DEF Bounded, Spare, Short

LEMMA BoundStep ==
  ASSUME BaseInv, [Next]_vars, NEW d \in Conns, Bounded(d)
  PROVE  Bounded(d)'
<1>0. PICK m \in Nat, l \in Nat, o \in Nat :
        m = sent[d] /\ l = Len(todo[d]) /\ o = options
  BY BaseTypes, BoundsAssumption
<1>1. /\ (IF Short(d) THEN 1 ELSE 0) \in {0, 1}
      /\ (IF Short(d)' THEN 1 ELSE 0) \in {0, 1}
  OBVIOUS
<1>2. CASE UNCHANGED vars \/ (ServerStep /\ UNCHANGED clientVars)
  BY <1>2, BoundKept DEF vars, clientVars, callVars, countVars
<1>3. ASSUME NEW c \in Conns, Connect(c) \/ Quit(c) PROVE Bounded(d)'
  BY <1>3, BoundKept DEF Connect, Quit, clientVars, callVars, countVars
<1>4. ASSUME NEW c \in Conns, Option(c) PROVE Bounded(d)'
  <2>1. PICK s, p, n : Choose(c, s, p, n) /\ Chosen(s, n)
    BY <1>4, BaseTypes, OptionCalls
  <2>2. /\ todo' = [todo EXCEPT ![c] = s] /\ options' = o + 1
        /\ todo[c] = << >> /\ UNCHANGED <<waiting, sent>>
        /\ s \in Seq(Calls) /\ Len(s) <= 11
    BY <1>0, <2>1 DEF Choose, Chosen
  <2>3. CASE d = c
    <3>1. waiting[d] = 0 /\ l = 0 /\ ~ Short(d)
      BY <1>0, <2>2, <2>3, BaseTypes DEF Short
    <3>2. m <= 22 * o
      BY <1>0, <3>1 DEF Bounded, Spare
    <3>3. PICK k \in Nat : k = Len(todo'[d]) /\ k <= 11
      BY <2>2, <2>3, BaseTypes
    <3>4. m + 2 * k <= 22 * (o + 1) + 0 + (IF Short(d)' THEN 1 ELSE 0)
      BY <1>1, <3>2, <3>3
    <3>. QED  BY <1>0, <2>2, <3>1, <3>3, <3>4 DEF Bounded, Spare
  <2>4. CASE d # c
    <3>1. todo'[d] = todo[d]
      BY <2>2, <2>4, BaseTypes
    <3>2. PICK z \in Nat : z = Spare(d) /\ z = Spare(d)'
      BY <2>2, <3>1 DEF Spare, Short
    <3>3. m + 2 * l <= 22 * o + z
      BY <1>0, <3>2 DEF Bounded
    <3>4. m + 2 * l <= 22 * (o + 1) + z
      BY <3>3
    <3>. QED  BY <1>0, <2>2, <3>1, <3>2, <3>4 DEF Bounded
  <2>. QED  BY <2>3, <2>4
<1>5. ASSUME NEW c \in Conns, Call(c) PROVE Bounded(d)'
  <2>1. /\ waiting[c] = 0 /\ sent' = [sent EXCEPT ![c] = @ + 1]
        /\ waiting' = [waiting EXCEPT ![c] = sent'[c]]
        /\ UNCHANGED <<todo, options>>
    BY <1>5 DEF Call, countVars
  <2>2. CASE d = c
    <3>1. waiting[d] = 0 /\ sent'[d] = m + 1 /\ waiting'[d] = m + 1
      BY <1>0, <2>1, <2>2, BaseTypes
    <3>2. PICK z \in Nat : z = (IF Short(d) THEN 1 ELSE 0)
                        /\ z = (IF Short(d)' THEN 1 ELSE 0)
      BY <2>1 DEF Short
    <3>3. m + 2 * l <= 22 * o + (0 + z)
      BY <1>0, <3>1, <3>2 DEF Bounded, Spare
    <3>4. (m + 1) + 2 * l <= 22 * o + (1 + z) /\ m + 1 # 0
      BY <3>3
    <3>. QED  BY <1>0, <2>1, <3>1, <3>2, <3>4 DEF Bounded, Spare
  <2>3. CASE d # c
    BY <2>1, <2>3, BaseTypes, BoundKept, SMTT(40)
  <2>. QED  BY <2>2, <2>3
<1>6. ASSUME NEW c \in Conns, ReturnTrue(c) \/ ReturnFalse(c) \/ Timeout(c)
      PROVE  Bounded(d)'
  <2>1. /\ waiting[c] # 0 /\ todo[c] # << >> /\ todo[c] \in Seq(Calls)
        /\ waiting' = [waiting EXCEPT ![c] = 0] /\ UNCHANGED <<sent, options>>
    BY <1>6, BaseTypes DEF ReturnTrue, ReturnFalse, Timeout, GiveUp, Arrived, countVars
  <2>2. PICK t : /\ todo' = [todo EXCEPT ![c] = t]
                 /\ \/ Len(t) = Len(todo[c]) - 1
                    \/ /\ Len(t) = Len(todo[c]) /\ t # << >>
                       /\ Head(t).do \in {"command", "message"}
                       /\ Head(todo[c]).do \notin {"command", "message"}
    <3>1. CASE ReturnTrue(c)
      <4>1. PICK t : /\ t = Continuation(Head(todo[c]), Head(outbox[c]).rep.vals)
                            \o Tail(todo[c])
                     /\ todo' = [todo EXCEPT ![c] = t]
        BY <3>1 DEF ReturnTrue
      <4>2. \/ Len(t) = Len(todo[c]) - 1
            \/ /\ Len(t) = Len(todo[c]) /\ t # << >>
               /\ Head(t).do \in {"command", "message"}
               /\ Head(todo[c]).do \notin {"command", "message"}
        BY <2>1, <4>1, OnwardLength
      <4>. QED  BY <4>1, <4>2
    <3>2. CASE ReturnFalse(c) \/ Timeout(c)
      <4>1. PICK t : t = Tail(todo[c]) /\ todo' = [todo EXCEPT ![c] = t]
        BY <3>2 DEF ReturnFalse, Timeout, GiveUp
      <4>2. Len(t) \in Nat /\ Len(todo[c]) = Len(t) + 1
        BY <2>1, <4>1, TailOf
      <4>3. Len(t) = Len(todo[c]) - 1
        BY <4>2
      <4>. QED  BY <4>1, <4>3
    <3>. QED  BY <1>6, <3>1, <3>2
  <2>3. CASE d = c
    <3>1. todo'[d] = t /\ waiting'[d] = 0 /\ sent'[d] = m /\ options' = o
      BY <1>0, <2>1, <2>2, <2>3, BaseTypes
    <3>2. m + 2 * l <= 22 * o + (1 + (IF Short(d) THEN 1 ELSE 0))
      BY <1>0, <2>1, <2>3 DEF Bounded, Spare
    <3>3. CASE Len(t) = Len(todo[c]) - 1
      <4>1. Len(t) = l - 1
        BY <1>0, <2>3, <3>3
      <4>2. m + 2 * (l - 1) <= 22 * o + (0 + (IF Short(d)' THEN 1 ELSE 0))
        BY <1>1, <3>2
      <4>. QED  BY <3>1, <4>1, <4>2 DEF Bounded, Spare
    <3>4. CASE /\ Len(t) = Len(todo[c]) /\ t # << >>
               /\ Head(t).do \in {"command", "message"}
               /\ Head(todo[c]).do \notin {"command", "message"}
      <4>1. Len(t) = l /\ ~ Short(d) /\ Short(d)'
        BY <1>0, <2>3, <3>1, <3>4 DEF Short
      <4>2. m + 2 * l <= 22 * o + (0 + 1)
        BY <3>2, <4>1
      <4>. QED  BY <3>1, <4>1, <4>2 DEF Bounded, Spare
    <3>. QED  BY <2>2, <3>3, <3>4
  <2>4. CASE d # c
    <3>1. todo'[d] = todo[d] /\ waiting'[d] = waiting[d]
      BY <2>1, <2>2, <2>4, BaseTypes
    <3>. QED  BY <2>1, <3>1, BoundKept
  <2>. QED  BY <2>3, <2>4
<1>. QED  BY <1>2, <1>3, <1>4, <1>5, <1>6 DEF Next, ClientStep

(* So a call is made only while the bound of RxMasters allows a request. *)
LEMMA MayCall ==
  ASSUME BaseInv, NEW c \in Conns, Call(c), Bounded(c)
  PROVE  sent[c] < MaxCalls
<1>1. PICK m \in Nat, l \in Nat, o \in Nat, b \in Nat :
        m = sent[c] /\ l = Len(todo[c]) /\ o = options /\ b = MaxOptions /\ o <= b
  BY BaseTypes, BoundsAssumption
<1>2. waiting[c] = 0 /\ todo[c] # << >> /\ todo[c] \in Seq(Calls)
  BY BaseTypes DEF Call
<1>3. l > 0
  BY <1>1, <1>2
<1>4. m + 2 * l <= 22 * o + (0 + (IF Short(c) THEN 1 ELSE 0))
  BY <1>1, <1>2 DEF Bounded, Spare
<1>5. m + 2 * l <= 22 * o + 1
  BY <1>4
<1>6. m < 22 * b
  BY <1>1, <1>3, <1>5
<1>. QED  BY <1>1, <1>6 DEF MaxCalls

(* The server of RxMasters is the server. *)
LEMMA SameServer == ServerStep => Masters!ServerStep
<1>1. SendCommand <=> Masters!SendCommand
  BY Zenon DEF SendCommand, Masters!SendCommand, Script, Masters!Script,
         Obey, Masters!Obey, Actions, Masters!Actions, Jogs,
         Masters!Jogs, Plus, Masters!Plus, Home, Masters!Home,
         NoPoint, Masters!NoPoint, modbusVars, Masters!modbusVars,
         netVars, Masters!netVars
<1>2. Returned <=> Masters!Returned
  BY Zenon DEF Returned, Masters!Returned, Script, Masters!Script,
         Actions, Masters!Actions, Jogs, Masters!Jogs, netVars,
         Masters!netVars, armVars, Masters!armVars,
         Masters!ADDR_RX90_STATE, Masters!STATE_POWERINGON,
         Masters!ADDR_PINZA, Masters!CLOSE_PINCERS,
         Masters!OPEN_PINCERS
<1>3. WaitClient <=> Masters!WaitClient
  <2>1. ToWord(nClient + 1) = Masters!ToWord(nClient + 1)
    BY DEF ToWord, Masters!ToWord
  <2>. QED
    BY <2>1 DEF WaitClient, Masters!WaitClient, MarkSession,
         Masters!MarkSession, armVars, Masters!armVars,
         Masters!ADDR_CLIENT, Masters!COMMAND_START, Masters!NCLIENT
<1>4. Receive <=> Masters!Receive
  BY Zenon DEF Receive, Masters!Receive, ClientOperation,
         Masters!ClientOperation, RequestTypes,
         Masters!RequestTypes, Forbidden, Masters!Forbidden,
         armVars, Masters!armVars, Masters!WRITE_ONLY_REGISTER,
         Masters!WRITE_MASK_REGISTER,
         Masters!WRITE_MULTIPLE_REGISTERS,
         Masters!READ_WRITE_REGISTERS, Masters!READ_REGISTERS,
         Masters!READ_FIFO, Masters!ADDR_CLIENT,
         Masters!ADDR_FIN_POSITION
<1>5. Answer <=> Masters!Answer
  BY Zenon DEF Answer, Masters!Answer, armVars, Masters!armVars,
         Reading, Masters!Reading, Writing, Masters!Writing, Fits,
         Masters!Fits, Served, Masters!Served, Written,
         Masters!Written, AfterWrite, Masters!AfterWrite,
         ReadBack, Masters!ReadBack, Reply, Masters!Reply,
         Deliver, Masters!Deliver, NoRequest, Masters!NoRequest,
         NoQuery, Masters!NoQuery, Addrs, Masters!Addrs, Confirm,
         Masters!Confirm, IsRx90Command, Masters!IsRx90Command,
         Masters!NUM_REG, Masters!READ_REGISTERS,
         Masters!WRITE_ONLY_REGISTER,
         Masters!WRITE_MULTIPLE_REGISTERS,
         Masters!READ_WRITE_REGISTERS, Masters!ADDR_CLIENT
<1>6. Refuse <=> Masters!Refuse
  BY Zenon DEF Refuse, Masters!Refuse, Exception, Masters!Exception,
         Deliver, Masters!Deliver, NoRequest, Masters!NoRequest,
         NoQuery, Masters!NoQuery, armVars, Masters!armVars
<1>7. ConfirmCommand <=> Masters!ConfirmCommand
  BY Zenon DEF ConfirmCommand, Masters!ConfirmCommand, armVars,
         Masters!armVars, Reading, Masters!Reading, Writing,
         Masters!Writing, Fits, Masters!Fits, Served,
         Masters!Served, Written, Masters!Written, AfterWrite,
         Masters!AfterWrite, ReadBack, Masters!ReadBack, Reply,
         Masters!Reply, Deliver, Masters!Deliver, NoRequest,
         Masters!NoRequest, NoQuery, Masters!NoQuery, Addrs,
         Masters!Addrs, Confirm, Masters!Confirm, IsRx90Command,
         Masters!IsRx90Command, Masters!NUM_REG,
         Masters!READ_REGISTERS, Masters!WRITE_ONLY_REGISTER,
         Masters!WRITE_MULTIPLE_REGISTERS,
         Masters!READ_WRITE_REGISTERS, Masters!ADDR_CLIENT
<1>8. Pincers <=> Masters!Pincers
  BY Zenon DEF Pincers, Masters!Pincers, Start, Masters!Start, reg,
         Masters!reg, modbusVars, Masters!modbusVars, netVars,
         Masters!netVars, armVars, Masters!armVars,
         Masters!ADDR_CLIENT, Masters!ADDR_PINZA,
         Masters!ADDR_RX90_STATE, Masters!ROBOT_CATCH,
         Masters!OPEN_PINCERS, Masters!CLOSE_PINCERS
<1>9. Automove <=> Masters!Automove
  BY Zenon DEF Automove, Masters!Automove, Start, Masters!Start, reg,
         Masters!reg, netVars, Masters!netVars, armVars,
         Masters!armVars, Masters!ADDR_CLIENT,
         Masters!ADDR_RX90_STATE, Masters!ROBOT_AUTOMOVE
<1>10. NoAction <=> Masters!NoAction
  BY Zenon DEF NoAction, Masters!NoAction, reg, Masters!reg, Jogs,
         Masters!Jogs, modbusVars, Masters!modbusVars, netVars,
         Masters!netVars, armVars, Masters!armVars,
         Masters!ADDR_CLIENT, Masters!ADDR_PINZA,
         Masters!ROBOT_CATCH, Masters!ROBOT_AUTOMOVE,
         Masters!OPEN_PINCERS, Masters!CLOSE_PINCERS
<1>11. \A a : Jog(a) <=> Masters!Jog(a)
  BY Zenon DEF Jog, Masters!Jog, Start, Masters!Start, reg, Masters!reg,
         Jogs, Masters!Jogs, Delta, Masters!Delta, Plus,
         Masters!Plus, netVars, Masters!netVars, armVars,
         Masters!armVars, Masters!ADDR_CLIENT,
         Masters!ADDR_RX90_STATE
<1>12. Disconnect <=> Masters!Disconnect
  BY Zenon DEF Disconnect, Masters!Disconnect, MarkSession,
         Masters!MarkSession, netVars, Masters!netVars, armVars,
         Masters!armVars, Masters!ADDR_CLIENT,
         Masters!COMMAND_FINISH
<1>. QED
  BY <1>1, <1>2, <1>3, <1>4, <1>5, <1>6, <1>7, <1>8, <1>9, <1>10, <1>11, <1>12
     DEF ServerStep, Masters!ServerStep, RunCommand, Masters!RunCommand, Jogs, Masters!Jogs

LEMMA InitMaps == Init => Masters!Init
<1>. SUFFICES ASSUME Init PROVE Masters!Init
  OBVIOUS
<1>1. ServerInit /\ sent = [c \in Conns |-> 0] /\ taken = [c \in Conns |-> 0]
  BY DEF Init
<1>2. /\ arm \in [origin : {Parked}, P : LeftP, at : {Parked},
                  gripper : {"open", "closed"}, own : {FALSE}]
      /\ serialOpen \in BOOLEAN
      /\ op \in [addr_write : StackWords, numReg_write : StackWords]
  BY <1>1, Zenon DEF ServerInit
<1>3. regs = [a \in Masters!Addrs |->
               IF a = ADDR_RX90_STATE THEN Masters!ToWord(DISCONNECT)
               ELSE IF a = ADDR_PINZA THEN OPEN_PINCERS ELSE NO_COMMAND]
  BY <1>1 DEF ServerInit, ToWord, Masters!ToWord, Addrs, Masters!Addrs,
              Masters!NUM_REG
<1>4. /\ pc = "drive" /\ action = "INIT" /\ line = 1 /\ shift = Masters!Home
      /\ nClient = 1 /\ session = NoConn /\ backlog = << >>
      /\ query = Masters!NoQuery
      /\ conn = [c \in Conns |-> "new"]
      /\ inbox = [c \in Conns |-> << >>] /\ outbox = [c \in Conns |-> << >>]
      /\ written = {}
  BY <1>1 DEF ServerInit, Home, Masters!Home, NoQuery, Masters!NoQuery,
              NoRequest, Masters!NoRequest
<1>. QED
  BY <1>1, <1>2, <1>3, <1>4, Zenon
     DEF Masters!Init, Masters!ServerInit, Masters!ADDR_RX90_STATE,
         Masters!DISCONNECT, Masters!ADDR_PINZA, Masters!OPEN_PINCERS,
         Masters!NO_COMMAND

LEMMA StepMaps ==
  ASSUME Vectors \subseteq Positions, BaseInv, \A c \in Conns : Bounded(c),
         [Next]_vars
  PROVE  [Masters!Next]_(Masters!vars)
<1>. USE DEF Masters!vars, Masters!serverVars, Masters!masterVars, Masters!mainVars,
             Masters!modbusVars, Masters!netVars, Masters!armVars, vars,
             serverVars, mainVars, modbusVars, netVars, armVars, clientVars, callVars
<1>1. CASE ServerStep /\ UNCHANGED clientVars
  <2>1. Masters!ServerStep
    BY <1>1, SameServer
  <2>. QED  BY <1>1, <2>1 DEF Masters!Next
<1>2. ASSUME NEW c \in Conns, Connect(c) PROVE Masters!Connect(c)
  BY <1>2 DEF Connect, Masters!Connect
<1>3. ASSUME NEW c \in Conns, Call(c) PROVE Masters!Send(c)
  <2>1. sent[c] < MaxCalls
    BY <1>3, MayCall
  <2>2. PICK r \in Sendable :
          inbox' = [inbox EXCEPT ![c] = Append(@, [id |-> sent[c] + 1, req |-> r])]
    BY <1>3, CallSends
  <2>3. r \in MasterRequests
    BY DEF Sendable, Reads, Orders, Targets, MasterRequests
  <2>. QED  BY <1>3, <2>1, <2>2, <2>3 DEF Call, Masters!Send
<1>4. ASSUME NEW c \in Conns, ReturnTrue(c) \/ ReturnFalse(c)
      PROVE  Masters!TakeReply(c)
  BY <1>4 DEF ReturnTrue, ReturnFalse, GiveUp, Arrived, Masters!TakeReply
<1>5. ASSUME NEW c \in Conns, Quit(c) PROVE Masters!Close(c)
  <2>1. inbox[c] \in Seq(Frames(Sendable)) /\ inbox \in [Conns -> Seq(Frames(Sendable))]
    BY BaseTypes
  <2>2. PICK s \in Seq(Frames(Sendable)) : s = inbox[c]
    BY <2>1
  <2>3. SubSeq(s, 1, Len(s)) = s /\ Len(s) \in 0 .. Len(s)
    OBVIOUS
  <2>4. inbox' = [inbox EXCEPT ![c] = SubSeq(@, 1, Len(s))]
    BY <1>5, <2>1, <2>2, <2>3 DEF Quit
  <2>. QED  BY <1>5, <2>2, <2>3, <2>4 DEF Quit, Masters!Close
<1>6. ASSUME NEW c \in Conns, Option(c) PROVE UNCHANGED Masters!vars
  <2>1. PICK s, p, n : Choose(c, s, p, n)
    BY <1>6, BaseTypes, OptionCalls
  <2>. QED  BY <2>1 DEF Choose
<1>7. ASSUME NEW c \in Conns, Timeout(c) PROVE UNCHANGED Masters!vars
  BY <1>7 DEF Timeout, GiveUp
<1>8. CASE UNCHANGED vars
  BY <1>8
<1>. QED
  BY <1>1, <1>2, <1>3, <1>4, <1>5, <1>6, <1>7, <1>8
     DEF Next, ClientStep, Masters!Next, Masters!MasterStep

(* Every behaviour of the client programs with the server is one of the    *)
(* server under the masters of RxMasters: each call sends one request of   *)
(* those a master may send and takes at most one reply, a timeout and a    *)
(* choice at the menu are no step of the connection, and ending the        *)
(* program is a close that loses no request already sent.  So what is      *)
(* proved of the server under any masters holds with this client, provided *)
(* Positions has every vector of words the program may write.              *)
THEOREM ClientRefinesMaster ==
  ASSUME Vectors \subseteq Positions
  PROVE  Spec => ClientIsMaster
<1>. DEFINE Inv == BaseInv /\ \A c \in Conns : Bounded(c)
<1>1. Init => Inv
  BY BaseInit, BoundInit
<1>2. Inv /\ [Next]_vars => Inv'
  BY BaseStep, BoundStep
<1>3. Inv /\ [Next]_vars => [Masters!Next]_(Masters!vars)
  BY StepMaps
<1>. QED  BY <1>1, <1>2, <1>3, InitMaps, PTL DEF Spec, ClientIsMaster, Masters!Spec

-----------------------------------------------------------------------------
(* The pincers.  An option i chosen while numReg holds 8 to 17 writes over *)
(* ADDR_PINZA (client.cpp:351), which overran records.  What follows holds *)
(* until that happens: so far every request on its way is gentle.          *)
Gentle == {r \in Sendable : ADDR_PINZA \notin Written(r)}

LEMMA GentleKeeps == KeepsPincers(Gentle) /\ Gentle \in SUBSET RequestSpace
BY SendableSpace DEF Gentle, KeepsPincers

(* Only what the stack left in numReg can overrun: after one of the        *)
(* options m, o, p and r it is 7 or 20.                                    *)
NoOverrun == StackInts \cap 8 .. 17 = {}

LEMMA SendableKeeps == ASSUME NoOverrun PROVE KeepsPincers(Sendable)
<1>. SUFFICES ASSUME NEW r \in Sendable, ADDR_PINZA \in Written(r) PROVE FALSE
  BY DEF KeepsPincers
<1>1. /\ Writing(r) /\ r.waddr + Len(r.vals) <= NUM_REG
      /\ ADDR_PINZA \in r.waddr .. r.waddr + Len(r.vals) - 1
  BY DEF Written, Served, Fits
<1>2. CASE r \in Reads
  BY <1>1, <1>2 DEF Reads, Writing
<1>3. CASE r \in Orders
  <2>1. r.waddr = 3 /\ Len(r.vals) = 1
    BY <1>3 DEF Orders
  <2>. QED  BY <1>1, <2>1
<1>4. CASE r \in Targets
  <2>1. PICK v \in Vectors : r.waddr = 3 /\ r.vals = v
    BY <1>4 DEF Targets
  <2>2. PICK k \in Nat : k = Len(v)
    BY DEF Vectors
  <2>3. 3 + k <= 20 /\ 10 <= 3 + k - 1
    BY <1>1, <2>1, <2>2
  <2>4. k \in 8 .. 17
    BY <2>3
  <2>5. k \in StackInts \cup {7, 20}
    BY <2>2, <2>4 DEF Vectors, Counts
  <2>6. k # 7 /\ k # 20
    BY <2>4
  <2>. QED  BY <2>4, <2>5, <2>6 DEF NoOverrun
<1>. QED  BY <1>2, <1>3, <1>4 DEF Sendable

(* The register of the pincers is 0 or 1, and while the server starts it   *)
(* has served nobody.                                                      *)
Starting == (pc = "drive" /\ action = "INIT") => session = NoConn

PincersKnown ==
  /\ PincersInv
  /\ regs[ADDR_PINZA] \in {OPEN_PINCERS, CLOSE_PINCERS}
  /\ ServerTypes(Gentle)
  /\ Starting

LEMMA KnownInit == Init => PincersKnown
<1>. SUFFICES ASSUME Init PROVE PincersKnown
  OBVIOUS
<1>1. PincersInv /\ ServerTypes(Gentle)
  BY PincersInit, ServerTypeInit, Zenon DEF Init
<1>2. regs[ADDR_PINZA] \in {OPEN_PINCERS, CLOSE_PINCERS} /\ Starting
  BY DEF Init, ServerInit, Starting, Addrs
<1>. QED  BY <1>1, <1>2 DEF PincersKnown

LEMMA KnownServer ==
  ASSUME BaseInv, PincersKnown, ServerStep
  PROVE  PincersKnown'
<1>. USE DEF mainVars, modbusVars, netVars, armVars
<1>0. /\ ServerTypes(Gentle) /\ KeepsPincers(Gentle)
      /\ regs \in [Addrs -> Word] /\ ADDR_PINZA \in Addrs /\ ADDR_CLIENT \in Addrs
      /\ ADDR_RX90_STATE \in Addrs /\ NCLIENT \in Addrs
  <2>1. ServerTypes(Gentle) /\ KeepsPincers(Gentle)
    BY GentleKeeps DEF PincersKnown
  <2>. QED  BY <2>1, SMTT(40) DEF ServerTypes, Addrs
<1>1. PincersInv' /\ ServerTypes(Gentle)'
  BY <1>0, GentleKeeps, PincersStep, ServerTypeStep DEF PincersKnown
<1>2. CASE SendCommand
  BY <1>1, <1>2 DEF SendCommand, PincersKnown, Starting
<1>3. CASE Returned
  <2>1. regs'[ADDR_PINZA] \in {OPEN_PINCERS, CLOSE_PINCERS}
    BY <1>0, <1>3 DEF Returned, PincersKnown
  <2>. QED  BY <1>1, <1>3, <2>1 DEF Returned, PincersKnown, Starting
<1>4. CASE WaitClient \/ Disconnect
  <2>1. regs'[ADDR_PINZA] = regs[ADDR_PINZA]
    BY <1>0, <1>4 DEF WaitClient, Disconnect, MarkSession
  <2>. QED
    BY <1>1, <1>4, <2>1 DEF WaitClient, Disconnect, PincersKnown, Starting
<1>5. CASE Receive \/ Refuse \/ NoAction
  BY <1>1, <1>5 DEF Receive, Refuse, NoAction, PincersKnown, Starting
<1>6. CASE Answer \/ ConfirmCommand
  <2>1. regs'[ADDR_PINZA] = regs[ADDR_PINZA]
    BY <1>0, <1>6, PinzaKept DEF Answer, ConfirmCommand, Confirm
  <2>. QED
    BY <1>1, <1>6, <2>1 DEF Answer, ConfirmCommand, PincersKnown, Starting
<1>7. ASSUME NEW a, a # "INIT", Start(a) PROVE PincersKnown'
  <2>1. regs'[ADDR_PINZA] = regs[ADDR_PINZA]
    BY <1>0, <1>7 DEF Start
  <2>. QED  BY <1>1, <1>7, <2>1 DEF Start, PincersKnown, Starting
<1>8. CASE Pincers \/ Automove
  BY <1>7, <1>8 DEF Pincers, Automove
<1>9. ASSUME NEW a \in DOMAIN Jogs, Jog(a) PROVE PincersKnown'
  <2>1. a # "INIT"
    BY DEF Jogs
  <2>. QED  BY <1>7, <1>9, <2>1 DEF Jog
<1>. QED  BY <1>2, <1>3, <1>4, <1>5, <1>6, <1>8, <1>9 DEF ServerStep, RunCommand

(* A call that does not overrun sends a gentle request. *)
LEMMA CallGentle ==
  ASSUME BaseInv, PincersKnown, NEW c \in Conns, Call(c), ~overran'
  PROVE  inbox' \in [Conns -> Seq(Frames(Gentle))]
<1>. DEFINE r == RequestOf(c, Head(todo[c]))
            x == [id |-> sent'[c], req |-> r]
<1>1. todo[c] # << >> /\ todo[c] \in Seq(Calls)
  BY BaseTypes DEF Call
<1>2. Head(todo[c]) \in Calls /\ Fit(Head(todo[c]), numReg[c])
  BY <1>1, TailOf, TailKeeps DEF BaseInv, Own
<1>3. r \in Sendable
  BY <1>2, BaseTypes, RequestIs
<1>4. ADDR_PINZA \notin Written(r)
  BY Zenon DEF Call
<1>5. sent'[c] \in Nat
  BY BaseTypes DEF Call
<1>6. inbox' = [inbox EXCEPT ![c] = Append(@, x)]
  BY DEF Call
<1>. HIDE DEF r
<1>7. r \in Gentle
  BY <1>3, <1>4 DEF Gentle, r
<1>8. x \in Frames(Gentle)
  BY <1>5, <1>7 DEF Frames
<1>9. inbox \in [Conns -> Seq(Frames(Gentle))]
  BY DEF PincersKnown, ServerTypes
<1>. HIDE DEF x
<1>10. Append(inbox[c], x) \in Seq(Frames(Gentle))
  BY <1>8, <1>9
<1>. QED  BY <1>6, <1>9, <1>10

LEMMA KnownStep ==
  ASSUME BaseInv, BaseInv', PincersKnown, [Next]_vars, ~overran'
  PROVE  PincersKnown'
<1>. USE DEF mainVars, modbusVars, netVars, armVars, serverVars, vars
<1>0. query \in Queries(Gentle) /\ inbox \in [Conns -> Seq(Frames(Gentle))]
  BY DEF PincersKnown, ServerTypes
<1>1. ASSUME UNCHANGED <<regs, pc, action, line, arm, serialOpen, session, query>>,
             inbox' \in [Conns -> Seq(Frames(Gentle))]
      PROVE  PincersKnown'
  <2>1. ServerTypes(Gentle)'
    <3>1. ServerTypes(Sendable)' /\ query' \in Queries(Gentle)
      BY <1>0, <1>1 DEF BaseInv
    <3>. QED  BY <1>1, <3>1 DEF ServerTypes
  <2>. QED  BY <1>1, <2>1 DEF PincersKnown, PincersInv, Agree, Starting
<1>2. CASE ServerStep
  BY <1>2, KnownServer
<1>3. CASE UNCHANGED vars
  BY <1>0, <1>1, <1>3
<1>4. ASSUME NEW c \in Conns, Connect(c) \/ Quit(c) PROVE PincersKnown'
  BY <1>0, <1>1, <1>4 DEF Connect, Quit
<1>5. ASSUME NEW c \in Conns, Option(c) PROVE PincersKnown'
  <2>1. PICK s, p, n : Choose(c, s, p, n)
    BY <1>5, BaseTypes, OptionCalls
  <2>. QED  BY <1>0, <1>1, <2>1, SMTT(40) DEF Choose
<1>6. ASSUME NEW c \in Conns, Call(c) PROVE PincersKnown'
  BY <1>1, <1>6, CallGentle DEF Call
<1>7. ASSUME NEW c \in Conns, ReturnTrue(c) \/ ReturnFalse(c) \/ Timeout(c)
      PROVE  PincersKnown'
  BY <1>0, <1>1, <1>7 DEF ReturnTrue, ReturnFalse, Timeout, GiveUp
<1>. QED  BY <1>2, <1>3, <1>4, <1>5, <1>6, <1>7 DEF Next, ClientStep

(* What has been overrun stays so. *)
LEMMA OverranStays ==
  ASSUME BaseInv, [Next]_vars, ~overran'
  PROVE  ~overran
<1>1. CASE UNCHANGED vars \/ UNCHANGED clientVars
  BY <1>1 DEF vars, clientVars
<1>2. ASSUME NEW c \in Conns, Connect(c) \/ Quit(c) PROVE ~overran
  BY <1>2 DEF Connect, Quit, clientVars
<1>3. ASSUME NEW c \in Conns, Option(c) PROVE ~overran
  <2>1. PICK s, p, n : Choose(c, s, p, n)
    BY <1>3, BaseTypes, OptionCalls
  <2>. QED  BY <2>1 DEF Choose
<1>4. ASSUME NEW c \in Conns, Call(c) PROVE ~overran
  BY <1>4, Zenon DEF Call
<1>5. ASSUME NEW c \in Conns, ReturnTrue(c) \/ ReturnFalse(c) \/ Timeout(c)
      PROVE  ~overran
  BY <1>5 DEF ReturnTrue, ReturnFalse, Timeout, GiveUp
<1>. QED  BY <1>1, <1>2, <1>3, <1>4, <1>5 DEF Next, ClientStep

(* A program overruns only if the stack left 8 to 17 in numReg.            *)
THEOREM OverrunsFromTheStack == ASSUME NoOverrun PROVE Spec => []~overran
<1>1. Init => ~overran
  BY DEF Init
<1>2. ASSUME BaseInv, ~overran, [Next]_vars PROVE ~overran'
  <2>1. CASE UNCHANGED vars \/ UNCHANGED clientVars
    BY <1>2, <2>1 DEF vars, clientVars
  <2>2. ASSUME NEW c \in Conns, Connect(c) \/ Quit(c) PROVE ~overran'
    BY <1>2, <2>2 DEF Connect, Quit, clientVars
  <2>3. ASSUME NEW c \in Conns, Option(c) PROVE ~overran'
    <3>1. PICK s, p, n : Choose(c, s, p, n)
      BY <1>2, <2>3, BaseTypes, OptionCalls
    <3>. QED  BY <1>2, <3>1 DEF Choose
  <2>4. ASSUME NEW c \in Conns, Call(c) PROVE ~overran'
    <3>1. todo[c] # << >> /\ todo[c] \in Seq(Calls)
      BY <1>2, <2>4, BaseTypes DEF Call
    <3>2. Head(todo[c]) \in Calls /\ Fit(Head(todo[c]), numReg[c])
      BY <1>2, <3>1, TailOf, TailKeeps DEF BaseInv, Own
    <3>3. RequestOf(c, Head(todo[c])) \in Sendable
      BY <1>2, <3>2, BaseTypes, RequestIs
    <3>4. ADDR_PINZA \notin Written(RequestOf(c, Head(todo[c])))
      BY <3>3, SendableKeeps DEF KeepsPincers
    <3>. QED  BY <1>2, <2>4, <3>4, Zenon DEF Call
  <2>5. ASSUME NEW c \in Conns, ReturnTrue(c) \/ ReturnFalse(c) \/ Timeout(c)
        PROVE  ~overran'
    BY <1>2, <2>5 DEF ReturnTrue, ReturnFalse, Timeout, GiveUp
  <2>. QED  BY <1>2, <2>1, <2>2, <2>3, <2>4, <2>5 DEF Next, ClientStep
<1>. QED  BY <1>1, <1>2, BaseInit, BaseStep, PTL DEF Spec

(* Key 5: when the program prints that the pincers were closed or opened,  *)
(* that is what they are now, however many of its earlier calls timed out  *)
(* and are still being answered: the reply it takes is the answer to the   *)
(* read it waits for, and since that read nothing has reached the server.  *)
(* This is so whatever numReg holds, until a request that writes over      *)
(* ADDR_PINZA has been sent.                                               *)
THEOREM MessageIsTrue == Spec => MessageTellsPincers
<1>. DEFINE Inv == BaseInv /\ (~overran => PincersKnown)
<1>1. Init => Inv
  BY BaseInit, KnownInit
<1>2. Inv /\ [Next]_vars => Inv'
  <2>. SUFFICES ASSUME Inv, [Next]_vars PROVE Inv'
    OBVIOUS
  <2>1. BaseInv'
    BY BaseStep
  <2>2. ASSUME ~overran' PROVE PincersKnown'
    BY <2>1, <2>2, OverranStays, KnownStep
  <2>. QED  BY <2>1, <2>2
<1>3. ASSUME Inv, ~overran, NEW c \in Conns, ReturnTrue(c), serialOpen,
             Head(todo[c]).do = "message"
      PROVE  Head(outbox[c]).rep.vals[1] = CLOSE_PINCERS <=> arm.gripper = "closed"
  <2>1. /\ Under(c) /\ outbox[c] # << >> /\ outbox[c] \in Seq(Replies)
        /\ Head(outbox[c]).id = waiting[c] /\ Head(outbox[c]).rep.kind = "confirm"
    BY <1>3, BaseTypes DEF ReturnTrue, Arrived, Matches, Under
  <2>2. 1 \in 1 .. Len(outbox[c]) /\ Head(outbox[c]) = outbox[c][1]
    BY <2>1
  <2>3. Answers(Head(todo[c]), outbox[c][1].rep, c)
    BY <1>3, <2>1, <2>2 DEF BaseInv, Own, Answered
  <2>4. pc = "receive" /\ Head(outbox[c]).rep.vals[1] = regs[ADDR_PINZA]
    BY <1>3, <2>1, <2>2, <2>3 DEF Answers
  <2>. QED  BY <1>3, <2>4 DEF PincersKnown, PincersInv, Agree
<1>4. Inv => \A c \in Conns :
               (ReturnTrue(c) /\ serialOpen /\ ~overran
                  /\ Head(todo[c]).do = "message") =>
                 (Head(outbox[c]).rep.vals[1] = CLOSE_PINCERS
                    <=> arm.gripper = "closed")
  BY <1>3
<1>. QED  BY <1>1, <1>2, <1>4, PTL DEF Spec, MessageTellsPincers

(* Option o.  What the pincers will be once the server has carried out     *)
(* what it has confirmed.                                                  *)
Pinza == Named(regs[ADDR_PINZA])
Outcome ==
  IF pc = "command" /\ reg = ROBOT_CATCH THEN Other(Pinza)
  ELSE IF pc = "drive" /\ action = "CATCH" THEN "closed"
  ELSE IF pc = "drive" /\ action = "DROP" THEN "open"
  ELSE Pinza

(* A connection that waits to be accepted, and one the server will read no *)
(* more though its program may not know; each waits once.                  *)
Waits(c) == \E i \in 1 .. Len(backlog) : backlog[i] = c
Lost(c) == IF c = session THEN pc = "accept" ELSE ~Waits(c)
Once == \A i \in 1 .. Len(backlog) :
          /\ backlog[i] # session
          /\ \A j \in 1 .. Len(backlog) : backlog[i] = backlog[j] => i = j

LEMMA OnceAccept ==
  ASSUME BaseInv, Once, WaitClient
  PROVE  /\ Once' /\ ~Waits(session) /\ session' # session
         /\ \A c \in Conns : Waits(c) <=> (c = session' \/ Waits(c)')
<1>1. /\ backlog # << >> /\ session' = Head(backlog) /\ backlog' = Tail(backlog)
      /\ backlog \in Seq(Conns)
  BY BaseTypes DEF WaitClient
<1>2. PICK n \in Nat : Len(backlog) = n + 1 /\ Len(backlog') = n
  BY <1>1, TailOf
<1>3. /\ session' = backlog[1]
      /\ \A i \in 1 .. n : backlog'[i] = backlog[i + 1]
  BY <1>1, <1>2, TailOf
<1>4. ASSUME NEW i \in 1 .. n
      PROVE  /\ backlog'[i] # session'
             /\ \A j \in 1 .. n : backlog'[i] = backlog'[j] => i = j
  <2>1. i + 1 \in 1 .. n + 1 /\ 1 \in 1 .. n + 1 /\ i + 1 # 1
    OBVIOUS
  <2>2. backlog[i + 1] # backlog[1]
    BY <1>2, <2>1 DEF Once
  <2>3. ASSUME NEW j \in 1 .. n, backlog'[i] = backlog'[j] PROVE i = j
    <3>1. j + 1 \in 1 .. n + 1 /\ backlog[i + 1] = backlog[j + 1]
      BY <1>3, <2>3
    <3>2. i + 1 = j + 1
      BY <1>2, <2>1, <3>1 DEF Once
    <3>. QED  BY <3>2
  <2>. QED  BY <1>3, <2>2, <2>3
<1>5. Once'
  BY <1>2, <1>4 DEF Once
<1>6. 1 \in 1 .. Len(backlog)
  BY <1>2
<1>7. ~Waits(session) /\ session' # session
  BY <1>3, <1>6 DEF Once, Waits
<1>8. ASSUME NEW c \in Conns PROVE Waits(c) <=> (c = session' \/ Waits(c)')
  <2>1. ASSUME Waits(c) PROVE c = session' \/ Waits(c)'
    <3>1. PICK i \in 1 .. n + 1 : backlog[i] = c
      BY <1>2, <2>1 DEF Waits
    <3>2. CASE i = 1
      BY <1>3, <3>1, <3>2
    <3>3. CASE i # 1
      <4>1. i - 1 \in 1 .. n /\ (i - 1) + 1 = i
        BY <3>3
      <4>2. backlog'[i - 1] = c
        BY <1>3, <3>1, <4>1
      <4>. QED  BY <1>2, <4>1, <4>2 DEF Waits
    <3>. QED  BY <3>2, <3>3
  <2>2. ASSUME Waits(c)' PROVE Waits(c)
    <3>1. PICK i \in 1 .. n : backlog'[i] = c
      BY <1>2, <2>2 DEF Waits
    <3>2. i + 1 \in 1 .. n + 1 /\ backlog[i + 1] = c
      BY <1>3, <3>1
    <3>. QED  BY <1>2, <3>2 DEF Waits
  <2>. QED  BY <1>3, <1>6, <2>1, <2>2 DEF Waits
<1>. QED  BY <1>5, <1>7, <1>8

LEMMA OnceConnect ==
  ASSUME BaseInv, Once, NEW c \in Conns, Connect(c)
  PROVE  Once' /\ c # session /\ \A d \in Conns : d # c => (Waits(d)' <=> Waits(d))
<1>1. /\ conn[c] = "new" /\ backlog' = Append(backlog, c) /\ session' = session
      /\ backlog \in Seq(Conns)
  BY BaseTypes DEF Connect
<1>2. c # session /\ \A i \in 1 .. Len(backlog) : backlog[i] # c
  BY <1>1 DEF BaseInv, Unopened
<1>3. PICK n \in Nat :
        /\ Len(backlog) = n /\ Len(backlog') = n + 1
        /\ backlog'[n + 1] = c /\ \A i \in 1 .. n : backlog'[i] = backlog[i]
  BY <1>1, AppendProperties
<1>4. \A i \in 1 .. n + 1 : i \in 1 .. n \/ i = n + 1
  OBVIOUS
<1>5. Once'
  BY <1>1, <1>2, <1>3, <1>4, SMTT(40) DEF Once
<1>6. \A d \in Conns : d # c => (Waits(d)' <=> Waits(d))
  <2>1. 1 .. n \subseteq 1 .. n + 1
    OBVIOUS
  <2>. QED  BY <1>3, <1>4, <2>1 DEF Waits
<1>. QED  BY <1>2, <1>5, <1>6

LEMMA BacklogKept ==
  ASSUME ServerStep, ~WaitClient
  PROVE  session' = session /\ backlog' = backlog /\ pc # "accept"
BY DEF ServerStep, SendCommand, Returned, WaitClient, Receive, Answer, Refuse,
   ConfirmCommand, Disconnect, RunCommand, Pincers, Automove, NoAction, Jog,
   Start, Confirm, mainVars, modbusVars, netVars, armVars

LEMMA OnceStep ==
  ASSUME BaseInv, Once, [Next]_vars
  PROVE  Once'
<1>1. ASSUME UNCHANGED <<session, backlog>> PROVE Once'
  BY <1>1 DEF Once
<1>2. CASE UNCHANGED vars
  BY <1>1, <1>2 DEF vars, serverVars, netVars
<1>3. CASE ServerStep
  BY <1>1, <1>3, OnceAccept, BacklogKept
<1>4. ASSUME NEW c \in Conns, Connect(c) PROVE Once'
  BY <1>4, OnceConnect
<1>5. ASSUME NEW c \in Conns, Option(c) PROVE Once'
  <2>1. PICK s, p, n : Choose(c, s, p, n)
    BY <1>5, BaseTypes, OptionCalls
  <2>. QED  BY <1>1, <2>1 DEF Choose, serverVars, netVars
<1>6. ASSUME NEW c \in Conns,
             Call(c) \/ ReturnTrue(c) \/ ReturnFalse(c) \/ Timeout(c) \/ Quit(c)
      PROVE  Once'
  <2>1. UNCHANGED <<session, backlog>>
    BY <1>6, Zenon DEF Call, ReturnTrue, ReturnFalse, Timeout, GiveUp, Quit
  <2>. QED  BY <1>1, <2>1
<1>. QED  BY <1>2, <1>3, <1>4, <1>5, <1>6 DEF Next, ClientStep

(* No request but that of the call under way is on its way.  So a call     *)
(* that needs the pincers in some state finds them so, and a catch that is *)
(* to bring them into it finds them in the other one until it is carried   *)
(* out, as its confirmation says.                                          *)
Current(c) == sent[c] = taken[c] + (IF waiting[c] = 0 THEN 0 ELSE 1)

Ready(c, state) == session = c /\ Current(c) /\ Outcome = state
Ordered(c, state) ==
  /\ session = c /\ Current(c)
  /\ IF outbox[c] # << >> THEN Outcome = state
     ELSE pc \in {"receive", "analysed"} /\ Pinza = Other(state)

Second(s) == Head(Tail(s))
Need(c) ==
  (conn[c] = "open" /\ clean[c] /\ todo[c] # << >> /\ ~Lost(c)) =>
    /\ Head(todo[c]).needs # "any" => Ready(c, Head(todo[c]).needs)
    /\ (/\ Head(todo[c]).do = "command" /\ Tail(todo[c]) # << >>
        /\ Second(todo[c]).needs # "any") => Ordered(c, Second(todo[c]).needs)

LEMMA CurrentPipe ==
  ASSUME BaseInv, NEW c \in Conns, conn[c] = "open", Current(c)
  PROVE  /\ outbox[c] # << >> => waiting[c] # 0 /\ Hand(c) = 0
         /\ Hand(c) = 1 => waiting[c] # 0 /\ query.id = waiting[c]
         /\ outbox[c] # << >> => Len(outbox[c]) = 1
<1>1. PICK n \in Nat, m \in Nat : n = taken[c] /\ m = sent[c]
  BY BaseTypes
<1>2. outbox[c] \in Seq(Replies) /\ inbox[c] \in Seq(Frames(Sendable))
  BY BaseTypes
<1>3. PICK k \in Nat, l \in Nat, h \in {0, 1} :
        k = Len(outbox[c]) /\ l = Len(inbox[c]) /\ h = Hand(c)
  BY <1>2 DEF Hand
<1>4. m = n + k + h + l /\ (h = 1 => query.id = n + k + 1)
  BY <1>1, <1>3 DEF BaseInv, Own, InOrder
<1>5. outbox[c] # << >> => k > 0
  BY <1>2, <1>3
<1>6. CASE waiting[c] = 0
  <2>1. m = n + 0
    BY <1>1, <1>6 DEF Current
  <2>2. k = 0 /\ h = 0
    BY <1>3, <1>4, <2>1
  <2>. QED  BY <1>3, <1>5, <2>2
<1>7. CASE waiting[c] # 0
  <2>1. m = n + 1 /\ waiting[c] = m
    BY <1>1, <1>7, BaseTypes DEF Current
  <2>2. k > 0 => k = 1 /\ h = 0
    <3>1. n + k + h + l = n + 1 /\ (h = 0 \/ h = 1)
      BY <1>4, <2>1
    <3>. QED  BY <3>1
  <2>3. h = 1 => k = 0
    BY <2>2
  <2>4. h = 1 => query.id = m
    BY <1>4, <2>1, <2>3
  <2>. QED  BY <1>3, <1>5, <1>7, <2>1, <2>2, <2>4
<1>. QED  BY <1>6, <1>7

(* Of the server's steps only a confirmation changes what the pincers will *)
(* be, while the client served is there.                                   *)
LEMMA OutcomeKept ==
  ASSUME BaseInv, PincersKnown, ServerStep, ~ ConfirmCommand, ~ Disconnect,
         session \in Conns, pc # "accept"
  PROVE  Outcome' = Outcome /\ session' = session
<1>. USE DEF mainVars, modbusVars, netVars, armVars
<1>0. /\ regs \in [Addrs -> Word] /\ ADDR_PINZA \in Addrs /\ ADDR_CLIENT \in Addrs
      /\ ADDR_RX90_STATE \in Addrs
      /\ session # NoConn
  BY ConnsAssumption DEF BaseInv, ServerTypes, Addrs
<1>1. CASE SendCommand
  BY <1>1 DEF SendCommand, Outcome, Pinza
<1>2. CASE Returned
  <2>1. action # "INIT"
    BY <1>0, <1>2 DEF Returned, PincersKnown, Starting
  <2>2. /\ pc = "drive" /\ pc' = "receive" /\ session' = session
        /\ regs'[ADDR_PINZA] = IF action = "CATCH" THEN 1
                               ELSE IF action = "DROP" THEN 0 ELSE regs[ADDR_PINZA]
    BY <1>0, <1>2, <2>1 DEF Returned
  <2>3. Outcome' = Pinza'
    BY <2>2 DEF Outcome
  <2>4. CASE action = "CATCH"
    BY <2>2, <2>3, <2>4 DEF Outcome, Pinza, Named
  <2>5. CASE action = "DROP"
    BY <2>2, <2>3, <2>5 DEF Outcome, Pinza, Named
  <2>6. CASE action \notin {"CATCH", "DROP"}
    BY <2>2, <2>3, <2>6 DEF Outcome, Pinza
  <2>. QED  BY <2>2, <2>4, <2>5, <2>6
<1>3. ~WaitClient
  BY DEF WaitClient
<1>4. CASE Receive \/ Refuse
  BY <1>4 DEF Receive, Refuse, Outcome, Pinza
<1>5. CASE Answer
  <2>1. regs'[ADDR_PINZA] = regs[ADDR_PINZA]
    BY <1>5, PinzaKept, GentleKeeps DEF Answer, Confirm, PincersKnown
  <2>. QED  BY <1>5, <2>1 DEF Answer, Outcome, Pinza
<1>6. ASSUME NEW a, Start(a), pc = "command"
      PROVE  /\ regs'[ADDR_PINZA] = regs[ADDR_PINZA] /\ session' = session
             /\ pc' = "drive" /\ action' = a
  BY <1>0, <1>6 DEF Start
<1>7. CASE Pincers
  <2>1. /\ pc = "command" /\ reg = ROBOT_CATCH
        /\ \/ regs[ADDR_PINZA] = 0 /\ Start("CATCH")
           \/ regs[ADDR_PINZA] = 1 /\ Start("DROP")
    BY <1>7 DEF Pincers
  <2>2. CASE regs[ADDR_PINZA] = 0 /\ Start("CATCH")
    BY <1>6, <2>1, <2>2 DEF Outcome, Pinza, Named, Other
  <2>3. CASE regs[ADDR_PINZA] = 1 /\ Start("DROP")
    BY <1>6, <2>1, <2>3 DEF Outcome, Pinza, Named, Other
  <2>. QED  BY <2>1, <2>2, <2>3
<1>8. ASSUME NEW a, Start(a), pc = "command", reg # ROBOT_CATCH,
             a \notin {"CATCH", "DROP"}
      PROVE  Outcome' = Outcome /\ session' = session
  <2>1. /\ regs'[ADDR_PINZA] = regs[ADDR_PINZA] /\ session' = session
        /\ pc' = "drive" /\ action' = a
    BY <1>6, <1>8
  <2>. QED  BY <1>8, <2>1 DEF Outcome, Pinza
<1>9. CASE Automove
  BY <1>8, <1>9 DEF Automove
<1>10. ASSUME NEW a \in DOMAIN Jogs, Jog(a)
       PROVE  Outcome' = Outcome /\ session' = session
  <2>1. a \notin {"CATCH", "DROP"} /\ Jogs[a] # ROBOT_CATCH
    BY DEF Jogs
  <2>. QED  BY <1>8, <1>10, <2>1 DEF Jog
<1>11. CASE NoAction
  <2>1. pc = "command" /\ reg # ROBOT_CATCH
    BY <1>11 DEF NoAction, PincersKnown
  <2>. QED  BY <1>11, <2>1 DEF NoAction, Outcome, Pinza
<1>. QED  BY <1>1, <1>2, <1>3, <1>4, <1>5, <1>7, <1>9, <1>10, <1>11
          DEF ServerStep, RunCommand

(* A confirmation is of the call under way. *)
LEMMA ConfirmIs ==
  ASSUME BaseInv, PincersKnown, ConfirmCommand, NEW c \in Conns, session = c,
         conn[c] = "open", Current(c)
  PROVE  /\ Asks(Head(todo[c]), numReg[c], query.req)
         /\ todo[c] # << >> /\ outbox[c] = << >> /\ outbox'[c] # << >>
         /\ pc' = "command" /\ session' = c /\ Pinza' = Pinza
         /\ reg' = AfterWrite(query.req)[ADDR_CLIENT]
         /\ query.req.fun # READ_REGISTERS
<1>1. pc = "analysed" /\ Hand(c) = 1 /\ Under(c) /\ query.id = waiting[c]
  BY CurrentPipe DEF ConfirmCommand, Hand, Under
<1>2. Asks(Head(todo[c]), numReg[c], query.req)
  BY <1>1 DEF BaseInv, Own, Asked
<1>3. todo[c] # << >> /\ outbox[c] = << >>
  BY <1>1, CurrentPipe, BaseTypes DEF Under
<1>4. outbox'[c] # << >>
  <2>. DEFINE x == [id |-> query.id, rep |-> Reply(query.req)]
  <2>1. outbox' = [outbox EXCEPT ![c] = Append(@, x)]
    BY DEF ConfirmCommand, Confirm, Deliver
  <2>. HIDE DEF x
  <2>2. outbox'[c] = Append(<< >>, x)
    BY <1>3, <2>1, BaseTypes
  <2>3. Append(<< >>, x) # << >>
    OBVIOUS
  <2>. QED  BY <2>2, <2>3
<1>5. regs' = AfterWrite(query.req) /\ pc' = "command" /\ session' = c
  BY DEF ConfirmCommand, Confirm
<1>6. regs'[ADDR_PINZA] = regs[ADDR_PINZA]
  BY <1>5, PinzaKept, GentleKeeps DEF PincersKnown
<1>7. query.req.fun # READ_REGISTERS
  BY <1>1 DEF BaseInv, Analysed, ConfirmCommand, IsRx90Command
<1>. QED  BY <1>2, <1>3, <1>4, <1>5, <1>6, <1>7 DEF Pinza, reg

LEMMA WriteLands ==
  ASSUME NEW r \in RequestSpace, r.waddr = ADDR_CLIENT, Len(r.vals) \in {1, 7},
         r.fun \in {WRITE_ONLY_REGISTER, WRITE_MULTIPLE_REGISTERS}
  PROVE  AfterWrite(r)[ADDR_CLIENT] = r.vals[1]
<1>1. PICK k \in {1, 7} : k = Len(r.vals)
  OBVIOUS
<1>2. Writing(r) /\ ~ Reading(r)
  BY DEF Writing, Reading
<1>3. 3 + k <= 20 /\ 3 \in 3 .. 3 + k - 1 /\ 3 \in Addrs
  BY DEF Addrs
<1>4. Served(r)
  BY <1>1, <1>2, <1>3 DEF Served, Fits
<1>5. Written(r) = 3 .. 3 + k - 1
  BY <1>1, <1>2, <1>4 DEF Written
<1>6. AfterWrite(r)[3] = r.vals[3 - r.waddr + 1]
  BY <1>3, <1>5 DEF AfterWrite
<1>7. 3 - r.waddr + 1 = 1
  OBVIOUS
<1>. QED  BY <1>6, <1>7

(* The server loses a connection and finds it no more. *)
LEMMA LostStays ==
  ASSUME BaseInv, Once, ServerStep, NEW c \in Conns, ~Lost(c)'
  PROVE  /\ ~Lost(c)
         /\ session = c => pc # "accept" /\ ~Disconnect
<1>1. CASE WaitClient
  <2>1. pc = "accept" /\ c # session
    BY <1>1, OnceAccept DEF WaitClient, Lost
  <2>2. Waits(c)
    BY <1>1, <2>1, OnceAccept DEF Lost
  <2>. QED  BY <2>1, <2>2 DEF Lost
<1>2. CASE ~WaitClient
  <2>1. session' = session /\ (Waits(c)' <=> Waits(c)) /\ pc # "accept"
    BY <1>2, BacklogKept DEF Waits
  <2>2. Disconnect => pc' = "accept"
    BY DEF Disconnect
  <2>. QED  BY <2>1, <2>2 DEF Lost
<1>. QED  BY <1>1, <1>2

LEMMA NeedServer ==
  ASSUME BaseInv, PincersKnown, Once, ServerStep, UNCHANGED clientVars,
         NEW c \in Conns, Need(c)
  PROVE  Need(c)'
<1>0. /\ conn' = conn
      /\ UNCHANGED <<todo, waiting, position, numReg, sent, taken, clean>>
  BY ConnKept DEF clientVars, callVars
<1>. SUFFICES ASSUME conn[c] = "open", clean[c], todo[c] # << >>, ~Lost(c)'
              PROVE  Need(c)'
  BY <1>0, Zenon DEF Need
<1>a. ~Lost(c) /\ (session = c => pc # "accept" /\ ~Disconnect)
  BY LostStays
<1>1. PICK h \in Calls : h = Head(todo[c]) /\ Fit(h, numReg[c])
  <2>1. todo[c] \in Seq(Calls) /\ AllFit(todo[c], numReg[c])
    BY BaseTypes DEF BaseInv, Own
  <2>2. Head(todo[c]) \in Calls /\ Fit(Head(todo[c]), numReg[c])
    BY <2>1, TailOf, TailKeeps
  <2>. QED  BY <2>2
<1>2. Current(c)' <=> Current(c)
  BY <1>0 DEF Current
<1>3. query.req \in RequestSpace
  BY QueryRequest, SendableSpace DEF BaseInv
<1>4. ASSUME h.needs # "any" PROVE Ready(c, h.needs)'
  <2>1. session = c /\ Current(c) /\ Outcome = h.needs
    BY <1>1, <1>4, <1>a DEF Need, Ready
  <2>2. CASE ~ ConfirmCommand
    BY <1>2, <1>a, <2>1, <2>2, OutcomeKept DEF Ready
  <2>3. CASE ConfirmCommand
    <3>1. /\ Asks(h, numReg[c], query.req) /\ query.req.fun # READ_REGISTERS
          /\ pc' = "command" /\ session' = c /\ Pinza' = Pinza
          /\ reg' = AfterWrite(query.req)[ADDR_CLIENT] /\ pc = "analysed"
      BY <1>1, <2>1, <2>3, ConfirmIs DEF ConfirmCommand
    <3>2. h.do \in {"move", "readPosition"} /\ numReg[c] = 7
      BY <1>1, <1>4, CallKinds DEF Fit
    <3>3. h.do = "move"
      BY <3>1, <3>2 DEF Asks, ReadRequest
    <3>4. /\ query.req.fun = WRITE_MULTIPLE_REGISTERS
          /\ query.req.waddr = ADDR_CLIENT /\ Len(query.req.vals) = 7
          /\ query.req.vals[1] = ROBOT_AUTOMOVE
      BY <3>1, <3>2, <3>3 DEF Asks
    <3>5. reg' = ROBOT_AUTOMOVE
      BY <1>3, <3>1, <3>4, WriteLands
    <3>6. Outcome' = Pinza' /\ Outcome = Pinza
      BY <3>1, <3>5 DEF Outcome
    <3>. QED  BY <1>2, <2>1, <3>1, <3>6 DEF Ready
  <2>. QED  BY <2>2, <2>3
<1>5. ASSUME h.do = "command", Tail(todo[c]) # << >>,
             Second(todo[c]).needs # "any"
      PROVE  Ordered(c, Second(todo[c]).needs)'
  <2>0. PICK state : state = Second(todo[c]).needs /\ state \in {"open", "closed"}
    <3>1. Tail(todo[c]) \in Seq(Calls)
      BY BaseTypes, TailOf
    <3>2. Second(todo[c]) \in Calls
      BY <1>5, <3>1, TailOf DEF Second
    <3>. QED  BY <1>5, <3>2, CallKinds DEF Needs
  <2>1. Ordered(c, state)
    BY <1>1, <1>5, <1>a, <2>0 DEF Need
  <2>2. h = Command(ROBOT_CATCH)
    <3>1. Follow(h, Second(todo[c]))
      BY <1>1, <1>5, BaseTypes, TailKeeps DEF BaseInv, Own, Second
    <3>2. h.needs = "any"
      BY <1>5, CallKinds
    <3>. QED  BY <1>5, <3>1, <3>2 DEF Follow
  <2>3. session = c /\ Current(c)
    BY <2>1 DEF Ordered
  <2>4. CASE outbox[c] # << >>
    <3>1. Hand(c) = 0 /\ Outcome = state
      BY <2>1, <2>3, <2>4, CurrentPipe DEF Ordered
    <3>2. pc # "analysed"
      BY <2>3, <3>1 DEF Hand
    <3>3. outbox' = outbox /\ ~ ConfirmCommand
      BY <3>2 DEF ServerStep, SendCommand, Returned, WaitClient, Receive, Answer,
           Refuse, ConfirmCommand, Disconnect, RunCommand, Pincers, Automove,
           NoAction, Jog, Start, mainVars, modbusVars, netVars, armVars
    <3>4. Outcome' = Outcome /\ session' = session
      BY <1>a, <2>3, <3>3, OutcomeKept
    <3>. QED  BY <1>0, <1>2, <2>0, <2>3, <2>4, <3>1, <3>3, <3>4 DEF Ordered
  <2>5. CASE outbox[c] = << >> /\ ConfirmCommand
    <3>1. /\ Asks(h, numReg[c], query.req) /\ outbox'[c] # << >>
          /\ pc' = "command" /\ session' = c /\ Pinza' = Pinza
          /\ reg' = AfterWrite(query.req)[ADDR_CLIENT]
      BY <1>1, <2>3, <2>5, ConfirmIs
    <3>2. h.code = ROBOT_CATCH
      BY <2>2, CallFields
    <3>3. /\ query.req.fun = WRITE_ONLY_REGISTER /\ query.req.waddr = ADDR_CLIENT
          /\ Len(query.req.vals) = 1 /\ query.req.vals[1] = ROBOT_CATCH
      BY <1>5, <3>1, <3>2 DEF Asks, WriteRequest
    <3>4. reg' = ROBOT_CATCH
      BY <1>3, <3>1, <3>3, WriteLands
    <3>5. Pinza = Other(state)
      BY <2>1, <2>5 DEF Ordered
    <3>6. Outcome' = Other(Pinza')
      BY <3>1, <3>4 DEF Outcome
    <3>7. Outcome' = state
      BY <2>0, <3>1, <3>5, <3>6 DEF Other
    <3>. QED  BY <1>0, <1>2, <2>0, <2>3, <3>1, <3>7 DEF Ordered
  <2>6. CASE outbox[c] = << >> /\ ~ ConfirmCommand
    <3>1. pc \in {"receive", "analysed"} /\ Pinza = Other(state)
      BY <2>1, <2>6 DEF Ordered
    <3>2. pc = "receive"
      <4>1. SUFFICES ASSUME pc = "analysed" PROVE FALSE
        BY <3>1
      <4>2. Hand(c) = 1 /\ Under(c) /\ query.id = waiting[c]
        BY <2>3, <4>1, CurrentPipe DEF Hand, Under
      <4>3. Asks(h, numReg[c], query.req)
        BY <1>1, <4>2 DEF BaseInv, Own, Asked
      <4>4. query.req.fun # READ_REGISTERS
        BY <1>5, <4>3 DEF Asks, WriteRequest
      <4>5. query.type = "WRITE_ONLY" /\ op.addr_write = ADDR_CLIENT
        BY <4>1, <4>4 DEF BaseInv, Analysed
      <4>. QED
        BY <2>6, <4>1, <4>5 DEF ServerStep, SendCommand, Returned, WaitClient,
             Receive, Answer, Refuse, IsRx90Command, Disconnect, RunCommand,
             Pincers, Automove, NoAction, Jog
    <3>3. Receive
      BY <1>a, <2>3, <3>2 DEF ServerStep, SendCommand, Returned, WaitClient,
           Answer, Refuse, ConfirmCommand, Disconnect, RunCommand,
           Pincers, Automove, NoAction, Jog
    <3>4. pc' = "analysed" /\ Pinza' = Pinza /\ outbox' = outbox /\ session' = session
      BY <3>3 DEF Receive, Pinza
    <3>. QED  BY <1>0, <1>2, <2>0, <2>3, <2>6, <3>1, <3>4 DEF Ordered
  <2>. QED  BY <2>4, <2>5, <2>6
<1>. QED  BY <1>0, <1>1, <1>4, <1>5 DEF Need, Second

(* The steps of another connection, and its own that change nothing of it. *)
LEMMA NeedKept ==
  ASSUME NEW d \in Conns, Need(d), UNCHANGED <<pc, session, regs, action>>,
         Waits(d)' <=> Waits(d),
         conn'[d] = conn[d], outbox'[d] = outbox[d], todo'[d] = todo[d],
         waiting'[d] = waiting[d], sent'[d] = sent[d], taken'[d] = taken[d],
         clean'[d] = clean[d]
  PROVE  Need(d)'
<1>1. Outcome' = Outcome /\ Pinza' = Pinza
  BY DEF Outcome, Pinza, reg
<1>2. Current(d)' <=> Current(d)
  BY DEF Current
<1>3. \A s : (Ready(d, s)' <=> Ready(d, s)) /\ (Ordered(d, s)' <=> Ordered(d, s))
  BY <1>1, <1>2 DEF Ready, Ordered
<1>4. Lost(d)' <=> Lost(d)
  BY DEF Lost
<1>. QED  BY <1>3, <1>4, Zenon DEF Need, Second

LEMMA NeedConnect ==
  ASSUME BaseInv, Once, NEW c \in Conns, Connect(c), NEW d \in Conns, Need(d)
  PROVE  Need(d)'
<1>1. /\ conn[c] = "new" /\ conn' = [conn EXCEPT ![c] = "open"]
      /\ UNCHANGED <<pc, session, regs, action, outbox, todo, waiting, sent,
                     taken, clean>>
  BY DEF Connect, mainVars, modbusVars, armVars, clientVars, callVars
<1>2. CASE d = c
  BY <1>1, <1>2 DEF Need, BaseInv, Own, Idle
<1>3. CASE d # c
  <2>1. conn'[d] = conn[d] /\ (Waits(d)' <=> Waits(d))
    BY <1>1, <1>3, BaseTypes, OnceConnect
  <2>. QED  BY <1>1, <2>1, NeedKept
<1>. QED  BY <1>2, <1>3

LEMMA NeedChoose ==
  ASSUME BaseInv, NEW c \in Conns, Option(c), NEW d \in Conns, Need(d)
  PROVE  Need(d)'
<1>1. PICK s, p, n : Choose(c, s, p, n) /\ Chosen(s, n)
  BY BaseTypes, OptionCalls
<1>2. /\ todo' = [todo EXCEPT ![c] = s] /\ clean' = [clean EXCEPT ![c] = TRUE]
      /\ UNCHANGED <<pc, session, regs, action, outbox, conn, waiting, sent,
                     taken, backlog>>
  BY <1>1 DEF Choose, serverVars, mainVars, modbusVars, netVars, armVars
<1>3. CASE d = c
  <2>1. todo'[d] = s
    BY <1>2, <1>3, BaseTypes
  <2>2. ASSUME s # << >> PROVE Head(s).needs = "any"
    BY <1>1, <2>2 DEF Chosen
  <2>3. ASSUME s # << >>, Head(s).do = "command", Tail(s) # << >>,
               Second(s).needs # "any"
        PROVE  FALSE
    <3>1. s \in Seq(Calls) /\ Linked(s) /\ Head(s) # Command(ROBOT_CATCH)
      BY <1>1, <2>3 DEF Chosen
    <3>2. Follow(Head(s), Head(Tail(s)))
      BY <2>3, <3>1, TailKeeps
    <3>3. Second(s).needs # "any" => Head(s).needs = Second(s).needs
      BY <2>3, <3>1, <3>2 DEF Follow, Second
    <3>. QED  BY <2>2, <2>3, <3>3
  <2>. QED  BY <2>1, <2>2, <2>3 DEF Need, Second
<1>4. CASE d # c
  <2>1. todo'[d] = todo[d] /\ clean'[d] = clean[d] /\ (Waits(d)' <=> Waits(d))
    BY <1>2, <1>4, BaseTypes DEF Waits
  <2>. QED  BY <1>2, <2>1, NeedKept
<1>. QED  BY <1>3, <1>4

LEMMA NeedCall ==
  ASSUME BaseInv, NEW c \in Conns, Call(c), NEW d \in Conns, Need(d)
  PROVE  Need(d)'
<1>1. /\ waiting[c] = 0
      /\ sent' = [sent EXCEPT ![c] = @ + 1]
      /\ waiting' = [waiting EXCEPT ![c] = sent'[c]]
      /\ UNCHANGED <<pc, session, regs, action, outbox, conn, todo, taken, clean,
                     backlog>>
  BY DEF Call, mainVars, modbusVars, armVars
<1>2. CASE d = c
  <2>1. PICK n \in Nat, m \in Nat : n = taken[c] /\ m = sent[c]
    BY BaseTypes
  <2>2. sent'[c] = m + 1 /\ waiting'[c] = m + 1 /\ taken'[c] = n
    BY <1>1, <2>1, BaseTypes
  <2>3. Current(c) <=> m = n
    BY <1>1, <2>1 DEF Current
  <2>4. Current(c)' <=> m + 1 = n + 1
    BY <2>1, <2>2 DEF Current
  <2>5. Outcome' = Outcome /\ Pinza' = Pinza
    BY <1>1 DEF Outcome, Pinza, reg
  <2>6. \A s : /\ Ready(c, s) => Ready(c, s)'
               /\ Ordered(c, s) => Ordered(c, s)'
    BY <1>1, <2>3, <2>4, <2>5 DEF Ready, Ordered
  <2>7. Lost(c)' <=> Lost(c)
    BY <1>1 DEF Lost, Waits
  <2>. QED  BY <1>1, <1>2, <2>6, <2>7, Zenon DEF Need, Second
<1>3. CASE d # c
  <2>1. sent'[d] = sent[d] /\ waiting'[d] = waiting[d] /\ (Waits(d)' <=> Waits(d))
    BY <1>1, <1>3, BaseTypes DEF Waits
  <2>. QED  BY <1>1, <2>1, NeedKept
<1>. QED  BY <1>2, <1>3

LEMMA NeedGiveUp ==
  ASSUME BaseInv, NEW c \in Conns, ReturnFalse(c) \/ Timeout(c),
         NEW d \in Conns, Need(d)
  PROVE  Need(d)'
<1>1. /\ todo' = [todo EXCEPT ![c] = Tail(@)]
      /\ waiting' = [waiting EXCEPT ![c] = 0]
      /\ clean' = [clean EXCEPT ![c] = FALSE]
      /\ UNCHANGED <<pc, session, regs, action, conn, sent, backlog>>
  BY DEF ReturnFalse, Timeout, GiveUp, mainVars, modbusVars, armVars
<1>2. \/ /\ outbox' = [outbox EXCEPT ![c] = Tail(@)]
         /\ taken' = [taken EXCEPT ![c] = @ + 1]
      \/ UNCHANGED <<outbox, taken>>
  BY DEF ReturnFalse, Timeout
<1>3. CASE d = c
  <2>1. ~ clean'[d]
    BY <1>1, <1>3, BaseTypes, Zenon
  <2>. QED  BY <2>1, Zenon DEF Need
<1>4. CASE d # c
  <2>1. /\ todo'[d] = todo[d] /\ waiting'[d] = waiting[d] /\ clean'[d] = clean[d]
        /\ outbox'[d] = outbox[d] /\ taken'[d] = taken[d]
        /\ (Waits(d)' <=> Waits(d))
    BY <1>1, <1>2, <1>4, BaseTypes DEF Waits
  <2>. QED  BY <1>1, <2>1, NeedKept
<1>. QED  BY <1>3, <1>4

LEMMA NeedQuit ==
  ASSUME BaseInv, NEW c \in Conns, Quit(c), NEW d \in Conns, Need(d)
  PROVE  Need(d)'
<1>1. /\ conn' = [conn EXCEPT ![c] = "closed"]
      /\ outbox' = [outbox EXCEPT ![c] = << >>]
      /\ UNCHANGED <<pc, session, regs, action, todo, waiting, sent, taken, clean,
                     backlog>>
  BY DEF Quit, mainVars, modbusVars, armVars, clientVars, callVars
<1>2. CASE d = c
  <2>1. conn'[d] = "closed"
    BY <1>1, <1>2, BaseTypes
  <2>. QED  BY <2>1 DEF Need
<1>3. CASE d # c
  <2>1. conn'[d] = conn[d] /\ outbox'[d] = outbox[d] /\ (Waits(d)' <=> Waits(d))
    BY <1>1, <1>3, BaseTypes DEF Waits
  <2>. QED  BY <1>1, <2>1, NeedKept
<1>. QED  BY <1>2, <1>3

(* The answer to the call under way is the last thing on its way. *)
LEMMA LastAnswer ==
  ASSUME BaseInv, NEW c \in Conns, ReturnTrue(c)
  PROVE  /\ Current(c) /\ Current(c)' /\ outbox'[c] = << >>
         /\ Answers(Head(todo[c]), Head(outbox[c]).rep, c)
         /\ Head(outbox[c]).rep.kind = "confirm"
         /\ outbox[c] # << >> /\ todo[c] # << >> /\ conn[c] = "open"
<1>1. PICK n \in Nat, m \in Nat : n = taken[c] /\ m = sent[c]
  BY BaseTypes
<1>2. /\ Under(c) /\ conn[c] = "open" /\ waiting[c] # 0 /\ waiting[c] = m
      /\ outbox[c] # << >> /\ todo[c] # << >>
      /\ Head(outbox[c]).id = waiting[c] /\ Head(outbox[c]).rep.kind = "confirm"
      /\ waiting' = [waiting EXCEPT ![c] = 0]
      /\ outbox' = [outbox EXCEPT ![c] = Tail(@)]
      /\ taken' = [taken EXCEPT ![c] = @ + 1] /\ sent' = sent
  BY <1>1, BaseTypes DEF ReturnTrue, Arrived, Matches, Under
<1>3. outbox[c] \in Seq(Replies)
  BY BaseTypes
<1>4. 1 \in 1 .. Len(outbox[c]) /\ Head(outbox[c]) = outbox[c][1]
  BY <1>2, <1>3
<1>5. Answers(Head(todo[c]), Head(outbox[c]).rep, c)
  BY <1>2, <1>4 DEF BaseInv, Own, Answered
<1>6. outbox[c][1].id = n + 1
  BY <1>1, <1>2, <1>4 DEF BaseInv, Own, InOrder
<1>7. m = n + 1
  BY <1>2, <1>4, <1>6
<1>8. Current(c)
  BY <1>1, <1>2, <1>7 DEF Current
<1>9. taken'[c] = n + 1 /\ waiting'[c] = 0 /\ sent'[c] = m
  BY <1>1, <1>2, BaseTypes
<1>10. Current(c)'
  BY <1>7, <1>9 DEF Current
<1>11. Len(outbox[c]) = 1
  BY <1>2, <1>8, CurrentPipe
<1>12. Tail(outbox[c]) = << >>
  <2>1. PICK t \in Seq(Replies) : t = Tail(outbox[c])
    BY <1>2, <1>3, TailOf
  <2>2. Len(t) \in Nat /\ Len(outbox[c]) = Len(t) + 1
    BY <1>2, <1>3, <2>1, TailOf
  <2>3. Len(t) = 0
    <3>1. PICK k \in Nat : k = Len(t)
      BY <2>2
    <3>2. k + 1 = 1
      BY <1>11, <2>2, <3>1
    <3>. QED  BY <3>1, <3>2
  <2>. QED  BY <2>1, <2>3
<1>13. outbox'[c] = << >>
  BY <1>2, <1>12, BaseTypes
<1>. QED  BY <1>2, <1>5, <1>8, <1>10, <1>13

LEMMA NeedReturnTrue ==
  ASSUME BaseInv, PincersKnown, NEW c \in Conns, ReturnTrue(c), Need(c)
  PROVE  Need(c)'
<1>. DEFINE vals == Head(outbox[c]).rep.vals
<1>1. /\ todo' = [todo EXCEPT ![c] = Continuation(Head(@), vals) \o Tail(@)]
      /\ UNCHANGED <<pc, session, regs, action, clean, backlog>>
  BY DEF ReturnTrue, mainVars, modbusVars, armVars
<1>2. /\ Current(c)' /\ outbox'[c] = << >> /\ outbox[c] # << >> /\ todo[c] # << >>
      /\ conn[c] = "open"
  BY LastAnswer
<1>3. Head(todo[c]).do = "catchIf" =>
        session = c /\ pc = "receive" /\ vals[1] = regs[ADDR_PINZA]
  BY LastAnswer DEF Answers
<1>4. PICK h \in Calls, u \in Seq(Calls) : h = Head(todo[c]) /\ u = Tail(todo[c])
  BY <1>2, BaseTypes, TailOf
<1>5. Linked(u) /\ (u # << >> => Follow(h, Head(u)) /\ Head(u) \in Calls)
  <2>1. todo[c] \in Seq(Calls) /\ Linked(todo[c])
    BY BaseTypes DEF BaseInv, Own
  <2>2. Linked(u) /\ (u # << >> => Follow(h, Head(u)))
    BY <1>2, <1>4, <2>1, TailKeeps
  <2>3. u # << >> => Head(u) \in Calls
    BY TailOf
  <2>. QED  BY <2>2, <2>3
<1>6. todo'[c] = Continuation(h, vals) \o u
  BY <1>1, <1>4, BaseTypes
<1>a. Lost(c)' <=> Lost(c)
  BY <1>1 DEF Lost, Waits
<1>7. SUFFICES ASSUME clean[c], ~Lost(c) PROVE Need(c)'
  BY <1>1, <1>a, Zenon DEF Need
<1>8. Outcome' = Outcome /\ Pinza' = Pinza
  BY <1>1 DEF Outcome, Pinza, reg
<1>9. Pinza = Named(regs[ADDR_PINZA]) /\ regs[ADDR_PINZA] \in {0, 1}
  BY DEF Pinza, PincersKnown
<1>. HIDE DEF vals
<1>10. ASSUME u # << >>, Head(u).do = "command", Tail(u) # << >>
       PROVE  Second(u).needs = "any"
  <2>1. Follow(Head(u), Second(u)) /\ Second(u) \in Calls
    BY <1>5, <1>10, TailKeeps, TailOf DEF Second
  <2>2. Head(u) # Command(ROBOT_CATCH) /\ Head(u).needs = "any"
    BY <1>5, <1>10, CallKinds DEF Follow
  <2>. QED  BY <1>10, <2>1, <2>2 DEF Follow
<1>11. ASSUME todo'[c] = u,
              (u # << >> /\ Head(u).needs # "any") => Ready(c, Head(u).needs)'
       PROVE  Need(c)'
  BY <1>10, <1>11 DEF Need, Second
<1>12. ASSUME u # << >>, Head(u).needs # "any"
       PROVE  /\ Head(u).needs \in {"open", "closed"}
              /\ \/ h.needs = Head(u).needs
                 \/ h.do = "catchIf" /\ Named(h.state) = Other(Head(u).needs)
                 \/ h = Command(ROBOT_CATCH)
  BY <1>5, <1>12, CallKinds DEF Follow, Needs
<1>13. CASE h.do = "toggle"
  <2>1. Continuation(h, vals) = <<Message>>
    BY <1>13 DEF Continuation
  <2>2. Message \in Calls
    BY CallTypes
  <2>3. PICK x \in Calls : x = Message
    BY <2>2
  <2>4. Head(todo'[c]) = x /\ x.needs = "any" /\ x.do = "message"
    BY <1>6, <2>1, <2>3, ConsOf, CallFields
  <2>. QED  BY <2>4 DEF Need
<1>14. CASE h.do = "catchIf" /\ vals[1] = h.state
  <2>1. Continuation(h, vals) = <<Command(ROBOT_CATCH)>>
    BY <1>14 DEF Continuation
  <2>2. PICK x \in Calls : x = Command(ROBOT_CATCH) /\ x.needs = "any"
    BY CallTypes, CallFields
  <2>3. Head(todo'[c]) = x /\ Tail(todo'[c]) = u
    <3>1. Tail(<<x>> \o u) = u
      OBVIOUS
    <3>. QED  BY <1>6, <2>1, <2>2, <3>1, ConsOf
  <2>4. ASSUME u # << >>, Head(u).needs # "any" PROVE Ordered(c, Head(u).needs)'
    <3>1. h.needs = "any" /\ h # Command(ROBOT_CATCH)
      BY <1>14, CallKinds, CallFields
    <3>2. Named(h.state) = Other(Head(u).needs)
      BY <1>12, <2>4, <3>1
    <3>3. session = c /\ pc = "receive" /\ Pinza = Other(Head(u).needs)
      BY <1>3, <1>4, <1>9, <1>14, <3>2
    <3>4. PICK state : state = Head(u).needs
      OBVIOUS
    <3>5. Ordered(c, state)'
      BY <1>1, <1>2, <1>8, <3>3, <3>4 DEF Ordered
    <3>. QED  BY <3>4, <3>5
  <2>. QED  BY <2>2, <2>3, <2>4 DEF Need, Second
<1>15. CASE h.do # "toggle" /\ ~ (h.do = "catchIf" /\ vals[1] = h.state)
  <2>1. Continuation(h, vals) = << >>
    BY <1>15 DEF Continuation
  <2>2. todo'[c] = u
    BY <1>6, <2>1, EmptyConcat
  <2>3. ASSUME u # << >>, Head(u).needs # "any"
        PROVE  session = c /\ Outcome = Head(u).needs
    <3>1. CASE h.needs = Head(u).needs
      BY <1>2, <1>4, <1>7, <2>3, <3>1 DEF Need, Ready
    <3>2. CASE h.do = "catchIf" /\ Named(h.state) = Other(Head(u).needs)
      <4>1. session = c /\ pc = "receive" /\ vals[1] = regs[ADDR_PINZA]
            /\ vals[1] # h.state /\ h.state \in {0, 1}
        BY <1>3, <1>4, <1>15, <3>2, CallKinds
      <4>2. Named(regs[ADDR_PINZA]) = Head(u).needs
        BY <1>9, <1>12, <2>3, <3>2, <4>1 DEF Named, Other
      <4>. QED  BY <1>9, <4>1, <4>2 DEF Outcome
    <3>3. CASE h = Command(ROBOT_CATCH)
      <4>1. h.do = "command"
        BY <3>3, CallFields
      <4>2. Ordered(c, Head(u).needs)
        BY <1>2, <1>4, <1>7, <2>3, <4>1 DEF Need, Second
      <4>. QED  BY <1>2, <4>2 DEF Ordered
    <3>. QED  BY <1>12, <2>3, <3>1, <3>2, <3>3
  <2>4. ASSUME u # << >>, Head(u).needs # "any" PROVE Ready(c, Head(u).needs)'
    <3>1. PICK state : state = Head(u).needs
      OBVIOUS
    <3>2. Ready(c, state)'
      BY <1>1, <1>2, <1>8, <2>3, <2>4, <3>1 DEF Ready
    <3>. QED  BY <3>1, <3>2
  <2>. QED  BY <1>11, <2>2, <2>4
<1>. QED  BY <1>13, <1>14, <1>15

LEMMA NeedStep ==
  ASSUME BaseInv, PincersKnown, Once, [Next]_vars, NEW d \in Conns, Need(d)
  PROVE  Need(d)'
<1>1. CASE UNCHANGED vars
  BY <1>1, NeedKept DEF vars, serverVars, mainVars, modbusVars, netVars,
     armVars, clientVars, callVars, Waits
<1>2. CASE ServerStep /\ UNCHANGED clientVars
  BY <1>2, NeedServer
<1>3. ASSUME NEW c \in Conns, ReturnTrue(c) PROVE Need(d)'
  <2>1. CASE d = c
    BY <1>3, <2>1, NeedReturnTrue
  <2>2. CASE d # c
    <3>1. /\ UNCHANGED <<pc, session, regs, action, conn, sent, clean>>
          /\ (Waits(d)' <=> Waits(d))
      BY <1>3 DEF ReturnTrue, mainVars, modbusVars, armVars, Waits
    <3>2. /\ outbox'[d] = outbox[d] /\ todo'[d] = todo[d]
          /\ waiting'[d] = waiting[d] /\ taken'[d] = taken[d]
      BY <1>3, <2>2, BaseTypes DEF ReturnTrue
    <3>. QED  BY <3>1, <3>2, NeedKept
  <2>. QED  BY <2>1, <2>2
<1>. QED  BY <1>1, <1>2, <1>3, NeedConnect, NeedChoose, NeedCall, NeedGiveUp,
             NeedQuit DEF Next, ClientStep

(* Option o: unless one of its calls failed, the arm surrounds the object  *)
(* and draws back from it with open pincers, and displaces it with closed  *)
(* ones, however many programs share the server and whatever numReg holds, *)
(* until a request that writes over ADDR_PINZA has been sent.              *)
THEOREM MoveWithRightPincers == Spec => []PincersSuitMove
<1>. DEFINE Inv == BaseInv /\ Once
                     /\ (~overran => PincersKnown /\ \A c \in Conns : Need(c))
<1>1. Init => Inv
  <2>1. Init => Once /\ \A c \in Conns : Need(c)
    BY DEF Init, ServerInit, Need, Once
  <2>. QED  BY <2>1, BaseInit, KnownInit
<1>2. Inv /\ [Next]_vars => Inv'
  <2>. SUFFICES ASSUME Inv, [Next]_vars PROVE Inv'
    OBVIOUS
  <2>1. BaseInv' /\ Once'
    BY BaseStep, OnceStep
  <2>2. ASSUME ~overran' PROVE PincersKnown' /\ \A c \in Conns : Need(c)'
    <3>1. PincersKnown /\ \A c \in Conns : Need(c)
      BY <2>2, OverranStays
    <3>. QED  BY <2>1, <2>2, <3>1, KnownStep, NeedStep
  <2>. QED  BY <2>1, <2>2
<1>3. Inv => PincersSuitMove
  <2>. SUFFICES ASSUME Inv, serialOpen, ~overran, pc = "drive", action = "AUTOMOVE",
                       conn[session] = "open", todo[session] # << >>,
                       clean[session], Head(todo[session]).needs # "any"
                PROVE  Head(todo[session]).needs = arm.gripper
    BY DEF PincersSuitMove
  <2>1. session \in Conns
    BY DEF BaseInv, ServerTypes
  <2>2. Ready(session, Head(todo[session]).needs)
    BY <2>1 DEF Need, Lost
  <2>3. Head(todo[session]).needs = Pinza
    BY <2>2 DEF Ready, Outcome
  <2>4. todo[session] \in Seq(Calls)
    BY <2>1, BaseTypes
  <2>5. Agree /\ regs[ADDR_PINZA] \in {0, 1}
    BY DEF PincersKnown, PincersInv
  <2>6. arm.gripper \in {"open", "closed"}
    BY DEF BaseInv, ServerTypes
  <2>7. arm.gripper = Pinza
    BY <2>5, <2>6 DEF Agree, Pinza, Named
  <2>. QED  BY <2>3, <2>7
<1>. QED  BY <1>1, <1>2, <1>3, PTL DEF Spec
=============================================================================
