# A TLA+ model of the RX90 remote control

The repository teleoperates a Stäubli RX90 arm. Its core is a Modbus/TCP server
that owns the arm and a Modbus client with a text menu; around it are an earlier
version without Modbus, ROS nodes that drive the same arm from MoveIt and
Gazebo, plugins and nodes of a simulated arm, and robot descriptions. This
directory holds TLA+ modules of the Modbus system, of the serial dialogue all
programs have with the arm's controller, of the three keyboard programs, of the
Gazebo plugins, of the hand-over between two simulated arms, and of the
interactive robot of the tutorials; TLC configurations that check them; and
proofs checked by TLAPS.

## Inventory

| Component | State | Operations | Talks to |
|---|---|---|---|
| Server main loop, `server/server.cpp` | `action`, `reg`, `nClient` | start-up, one branch per robot command, reconnection | owns the next two |
| `serverModBUS`, `server/serverModBUS.cpp` | register table of 20 words, `query`, `clientOperation`, the served socket | `waitClient`, `receiveCommand` (with `analizeRequest`), `sendConfirmation`, `sendException`, register accessors | masters, through libmodbus |
| `Rx90`, `server/Rx90.cpp` | serial port, displacement `x, y, z` | `init`, `move`, `automove`, `sendCommand` | the V+ controller, one command and one answer at a time |
| Client program, `client/client.cpp`, `client/ClientModBUS.cpp` | `position`, `numReg`, option | menu options c, m, o, i, r, p, q, each a list of Modbus calls with a response timeout | the server |
| `sendCommand`, the same in all four copies of `Rx90.cpp` | characters on the line | write, await `?` and answer it, read up to `.` | the V+ monitor |
| `Server_Client/No_modbus` | displacement `x, y`, key | keyboard loop, `move`, `move_position` | the V+ controller |
| `rx90_serial` | displacement, joints, key | the same, with positions tried in Gazebo first | the V+ controller, Gazebo's joint controllers |
| `rx90_rviz_control` | displacement, joints, `mandar_accion`, `contador_contactos` | the same, with MoveIt, limits, `callb`, the gripper's services | the V+ controller, MoveIt, Gazebo (topics, services, a callback thread) |
| Plugins of `rx90_control`: `gripper_plugin`, `contact_plugin`, `rx90_publisher`, `rx90_pub` | `set_activation`, `corrector`, a counter | `OnUpdate`, the services `Set_activation`, `Set_position` | Gazebo's update thread, clients of the services |
| Nodes of `rx90_control`: `main_publisher`, `main_catch` | `end`, `alert`, `sem` | a script of commands, a second thread for the grippers, a loop | the controllers (topics), Gazebo's effort service |
| `InteractiveRobot` of the tutorials, with `visualizing_collisions` | the poses wanted, a one-shot timer, an average, `g_collision_points` | marker callbacks, timer callback | RViz, MoveIt |
| Descriptions, models, launch files, the other vendored tutorials | none | none | |

What is hard in the modelled part:

* **A command is confirmed before it is carried out** (`server.cpp:81`). What a
  reply lets a master conclude rests on the server serving one request at a time.
* **The register table is both mailbox and memory.** The command is read back
  from the table, not from the request (`server.cpp:82`), so what an earlier
  request or an earlier connection left there matters; the catch command toggles
  on `ADDR_PINZA` (`server.cpp:129`), a belief about the gripper.
* **Dead reckoning**: the arm is where `x, y, z` say only if every `MOVE P` follows
  the `SET P` of their present value (`Rx90.cpp:109-133`), and an automove sends the
  one without the other; the controller keeps `P` when the server is restarted.
* **Connections**: one is served, others wait in the listening queue; masters
  pipeline requests and close with requests and replies under way; an error of
  reception counts as a close (`serverModBUS.cpp:217-257`).
* **Timeouts**: a call that gave up leaves its request on the way
  (`ClientModBUS.cpp:63`), and its late reply meets a later call.
* **One prompt per command** (`Rx90.cpp:54-70`): a program that takes the wrong
  `.` for its prompt is ahead of the arm from then on.
* **Two threads, two globals** (`rx90_rviz_control/src/Rx90.cpp:579-597, 765-784`):
  the contact callback and `gazebo()` share the flag that blocks the arm and the
  counter that releases it, without a lock.
* **Sleeping instead of waiting** (`main_publisher.cpp:169`): one thread asks for
  something in a shared int and goes on after a pause, done or not.
* **A service's thread and the simulation's** share the gripper's flag
  (`gripper_plugin.cpp:73, 131`); the block is put back in every step, against a
  fall that is longer in every step (`gripper_plugin.cpp:87`).
* **A one-shot timer that is stopped and started** by every request and every
  callback (`interactive_robot.cpp:141-199`).
* **A failed input stream** leaves variables as they were, or uninitialised.
* **Undefined values**: `type` in `analizeRequest`, `clientOperation` before the
  first write, `numReg` and `position` in the client, `key` in the keyboard programs.

## Modules

| Module | Models |
|---|---|
| `RxRegisters` | `constant.h`, the 16-bit register, the conversions of angles |
| `RxServer` | the server program: main loop, `serverModBUS`, `Rx90`; libmodbus' reply and the V+ controller as external operators |
| `RxMasters` | `RxServer` with any masters: the specification, its invariants, action and liveness properties |
| `RxMastersMC` | small instances of `RxMasters` |
| `RxServerProofs` | what holds of `RxServer` under any masters: the lemmas the next proofs share |
| `RxMastersProofs` | theorems about `RxMasters` |
| `RxClient` | `RxServer` with runs of the client program, one per connection; refines `RxMasters` |
| `RxClientMC`, `RxClientProofs` | small instances of it, and theorems about it |
| `RxExchange` | abstract: commands carried out one at a time, each before its call returns |
| `RxDialog` | `sendCommand` and the V+ monitor, character by character as far as `.` and `?` matter; refines `RxExchange` |
| `RxDialogMC`, `RxDialogProofs` | small instances of it, and theorems about it |
| `RxTeleop` | `No_modbus`, `rx90_serial`, `rx90_rviz_control`: keyboard loop, positions, contact callback |
| `RxTeleopMC`, `RxTeleopProofs` | small instances of it, and theorems about it |
| `RxWorld` | the four plugins as Gazebo's update runs them, their services; Gazebo's physics as far as the block goes |
| `RxWorldMC`, `RxWorldProofs` | small instances of it, and theorems about it |
| `RxHandover` | `main_publisher`'s two threads, `main_catch`; the controllers' topics, the effort service and the clock |
| `RxHandoverMC`, `RxHandoverProofs` | the instance TLC checks, and theorems about it |
| `RxInteractive` | `InteractiveRobot` with the callback of `visualizing_collisions`; RViz, the inverse kinematics, the collision checker and the clock |
| `RxInteractiveMC`, `RxInteractiveProofs` | small instances of it, and theorems about it |

`RxServer` and `RxTeleop` send a command to the controller in one step. That is
what `RxExchange` allows and `RxDialog` implements under two conditions on the
commands, `NoPoints` and `QuestionsAwaited`. All commands of the server, and those
of `rx90_rviz_control`, meet them; the joints `rx90_serial` sends do not
(run `dialog_decimal`).

### How state and actions correspond to the code

`RxServer` has one process, the server's only thread. `pc` says where `main()`
is: `"drive"` (sending the V+ commands of an action), `"accept"` (in
`waitClient`), `"receive"` (in `modbus_receive`), `"analysed"` (a request has
been classified) and `"command"` (a robot command has been confirmed).

* `regs` is `mb_mapping->tab_registers`, `op` the fields of `clientOperation`
  the code reads, `query` the request in hand, `shift` is `Rx90::x, y, z`.
* `Receive` is `modbus_receive` with `analizeRequest`. The uninitialised `type`
  is a nondeterministic choice for a function code the switch does not know; the
  uninitialised `clientOperation` is any word of `StackWords`.
* `Answer`, `Refuse` and `ConfirmCommand` are the three ways `receiveCommand`
  and `main()` end a request; `Reply`, `AfterWrite` and `ReadBack` are
  `modbus_reply` (external: functions 3, 6, 16 and 23 are served when every
  address exists, everything else is an exception and changes nothing).
* `Jog`, `Pincers`, `Automove`, `NoAction` are the branches of the command chain.
  Each sets `action` and `ADDR_RX90_STATE`; the V+ commands of the action are its
  `Script`, sent one per `SendCommand`; `Returned` is what `main()` does after
  the last. `action = "INIT"` stands for the constructor of `Rx90`.
* `Obey` is the V+ controller (external): `HERE ORIGIN`, `SET P`, `MOVE P`,
  `OPENI`, `CLOSEI`. A point is a displacement from the place `init` moves to.
  The controller is not restarted with the server, so `P` begins with whatever an
  earlier run gave it (`LeftP`); the history field `own` of `arm` says whether this
  run has set it. An automove (`Rx90.cpp:121-133`) takes the arm to `P`, never to the
  angles it prints.
* A catch confirmed while `ADDR_PINZA` holds neither of its two values is dropped
  (`server.cpp:149-152`): that is in `NoAction`.
* `Disconnect` is every way `modbus_receive` may fail: the master has closed and its
  requests are read, or something goes wrong while one arrives. The connection is
  left open then and never read again.
* `conn`, `backlog`, `inbox`, `outbox` are the TCP connections as the two ends
  see them. TCP keeps order and loses only at a close: the masters of `RxMasters`
  may lose any suffix of the requests under way and all replies then.
* `written` is a history variable: the commands the present session wrote.

`RxClient` gives each connection one run of the client program. An option is the
list of Modbus calls it makes (`todo`); `Call` sends the request of the first,
`ReturnTrue`, `ReturnFalse` and `Timeout` are the ways it returns. The program
goes on with the next call when one has failed, as the code does. libmodbus
compares transaction ids (`Matches`, external), so a late reply makes a later
call fail. `position` has seven entries although the array has six: the code
writes the seventh past its end, and the model gives that word a place of its
own. `position` and `numReg` begin with what the stack holds. `clean` and `overran`
are history variables: no call of the present option has failed, and a request
that writes `ADDR_PINZA`, as option i may, has been sent.

`RxDialog` has the program's thread (`Write`, `Question`, `Prompt`: the three parts
of `sendCommand`) and the monitor (external). `lines` and `chars` are what is under
way on the serial line in either direction. A command is the number of decimal
points in its text, whether V+ asks a question about it, and whether the caller
passes `waitQuestionMark`.

`RxTeleop` has main()'s thread and the callback's. `program` says which of the
three programs runs. `pc` is where main() is: in a list of commands and service
calls (`"script"`, the rest of it in `todo`, the continuation in `next`), at the
key (`"menu"`), at the questions for the mode, the pose and the joints, at the
limits (`"check"`), asleep (`"wait"`), at the last question (`"ask"`), or on its way
out of `gazebo()` (`"refused"`, `"leave"`). The callback goes from `"idle"` through
its accesses to the two globals one at a time; the value it tests may be the one
in memory or the one it wrote, as the compiler likes. `Reads` is `std::cin >>`:
when the stream has failed, the variable keeps what it had, or anything when it
was never set, as `key` before its first reading. `target` is what the program
published for Gazebo's controllers, not what reached them: that a topic advertised
in the same call may have no subscriber yet is left out here, and is what
`RxHandover` is about. Joints are in tenths of a degree; `Truncate`, `ToGazebo` and
`ToReal` are the conversions of the code. A place is a vector of joints or a
displacement from the V+ location `POSE`, which no program sets; `poseSet` says
whether the operator has set it beforehand. `failed`, `touched` and `quiet` are
history variables.

`RxWorld` has Gazebo's update thread, which runs the plugins still `due` in any
order and then the physics of one step, and the services' threads, which come in
at any moment. `OnUpdate` of `gripper_plugin` is `ReadActivation` (the test of the
flag, its outcome in `branch`) and then `Hold`, `Miss` or `Release`. The block's
place is its height over the gripper (`gap`) and one truth value for the other
two axes (`beside`). The physics is external: to put an object somewhere does
not change its velocity, so what a held block falls in a step (`fall`) is longer
in every step until something stops it. Contacts are recorded only while someone
subscribes to them, so `contacts` may be false of a step that had some; what
`contact_plugin` makes of them is a line on the screen (`told`), about which there is
no property. `late` and `carried` are history variables: placements since the
release, and placements since the block was taken at rest.

`RxHandover` has `main()` at the `step` of its `Script`, each entry of which is what
it publishes, which shared int it sets and how long it sleeps then. The second
thread makes the calls in `todo`, and polls (`TestEnd`, `TestAlert`) in between; a call
is three steps, `CallService`, `Serve`, `CallReturns`. The compiler has to read `end` and
`alert` anew in every turn, as they are captured by reference and `sleep` is
opaque to it, so the race on them has no outcome but an earlier or a later
value. `Tick` is a second; it does not pass while something is due at once, which
is where the three assumptions on time are: a call takes `CallTime` at most, a
topic is linked within `LinkTime`, and the thread sees a change within the second
(`sleep(0.2)` is `sleep(0)`, it polls without rest). `main()` may be late by any
time. `fails` and `unheld` are history variables.

`RxInteractive` has the one thread of `ros::spin()`: `MovedRobotMarker` and
`MovedWorldMarker` are the callbacks of the markers, each with the whole of
`scheduleUpdate` (`RequestUpdate` is `setCallbackTimer(true)`), `UpdateCallback` is the
timer's, with `updateAll` and `setCallbackTimer(false)` (`Rearm`). `init_time` and
`last_callback_time` are ages, in ticks. The inverse kinematics may fail at every
update. What is published while RViz is not `connected` is lost. `asked`, `rest` and
`current` are history variables.

## Runs

| Run | Expect | Shows |
|---|---|---|
| `masters` | pass | `TypeOK`, `StateMatchesCommand`, `PincersTrackGripper`, `ArmWhereServerThinks`, `CommandOfThisSession`, `EachRequestAnsweredOnce` |
| `masters_live` | pass | `ConfirmedIsCarriedOut`, `ServedIsAnswered` |
| `client` | pass | `TypeOK`, `PincersSuitMove`, `MessageTellsPincers`, `ClientIsMaster` |
| `dialog` | pass | `DialogInv`, `Synchronised`, `IsExchange`, `CallsReturn` |
| `teleop` | pass | `TypeOK`, `BlockCanLift`, `SimulationFollowsGripper`, `GateSound`, `OnlySimulatedPoses`, `SimulatesPlan` |
| `world` | pass | `TypeOK`, `ReleaseObeyed`, `CarriedUntilTol`, `NearBlockIsTaken` |
| `handover` | pass | `TypeOK`, `CommandsArrive`, `BrieflyUnheld`, `ReleasedAtEnd`, `HandedOver`, `Terminates`, `CatchArrives` |
| `interactive` | pass | `TypeOK`, `TimerRunsWhenNeeded`, `RateLimited`, `MarkersMatch`, `LastDragShown` |
| `dialog_decimal` | violation | a decimal point ends `sendCommand` early |
| `teleop_contact` | violation | a contact after the flag was read does not stop the arm |
| `only_written` | violation | a refused write runs the previous command again |
| `world_held` | violation | a block held for long is dropped |

The two properties that read most like assignments say more than that.
`ConfirmedIsCarriedOut` begins where the registers call for an action (`CalledFor`)
and asks that the controller has answered the last command of that action, with
the gripper as it leaves it, before the server listens again; the run has catches
that call for none, which the server confirms and drops. `ArmWhereServerThinks` has
a case for each value of `own`: before this run has set `P`, an automove may have
taken the arm to an old `P` while `x, y, z` are zero.

Nine more places where the code does something else than its texts say came up
while modelling. The models show them, but no run asks for them:

* The first connection is not counted in `NCLIENT`: the write is commented out
  (`server.cpp:72`), while `constant.h:14` calls it the number of connections.
* A call that returned false after its timeout is carried out when the server
  comes to it (`ClientModBUS.cpp:57-63`).
* Option i after option r writes 20 registers from address 3 and is refused
  (`client.cpp:351`): `numReg` is what the last option left. When none
  has set it and the stack holds 8 to 17, it writes over `ADDR_PINZA`: with
  `StackInts = {10}`, `MaxOptions = 3` and one connection the configuration `client.cfg`
  has TLC close the pincers by key 5, have option i put 0 in their register, and
  option o move without opening them. `PincersSuitMove` and `MessageTellsPincers` speak
  of the time until then (`overran`); without that clause TLC finds the first violated.
* A direction key of the keyboard programs takes the arm near the location
  `POSE`, wherever it stood (`rx90_rviz_control/src/Rx90.cpp:211`).
* Every other key but `p` repeats that move, so that after a position it moves
  the arm too (the same line).
* The check of the registers a master may write (`serverModBUS.cpp:381`) asks for
  a register below one bound and above a larger one: it refuses nothing, although
  the comment there says it does.
* An automove sends `MOVE P` without the `SET P` to the position of the registers,
  which is commented out (`server/Rx90.cpp:131`): the arm goes to where the last
  jog, catch or drop took `P`, or to the `P` of an earlier run.
* The tests for the keys 2, 4, 6 and 7 stand inside the branch of key 8
  (`client.cpp:90`): those keys do nothing, and key 8 jogs twice.
* When a joint typed in `rx90_serial` was no number, the stream has failed, the
  question whether to send the position is not answered, and the `y` its variable
  begins with sends it (`rx90_serial/src/Rx90.cpp:185, 263`).

Bounds. `masters`: two connections with two requests each, from six: a jog, the
catch command, an automove, a write longer than the table, an unsupported
function and a read/write. Two requests per connection let one be pipelined
behind another and a session begin with a request of the other connection still
queued; two connections make every reconnection hazard happen once, and the
server keeps nothing of a connection but what the invariants mention, so a third
adds no new situation. An earlier run left no `P`, or one away from where the arm
stands. `masters_live` has three requests, a catch, an unsupported function and one
that puts the pincers register in neither of its two states; the other actions go
the same way through `Start`, `SendCommand` and `Returned` as a catch and a drop do.
`client`: two runs of the program
that together choose two options and suffer up to one timeout, so that an option
follows another in the same run, a run follows another with a command still being
executed, and a late reply meets a later call. The stack holds 10 where `numReg` is,
so that an option i writes over the pincers' register. `MaxCalls` is no bound of a run: it is
what `RxMasters` is given for the client, and 22 requests for each option suffice,
since an option has at most eleven calls, each followed by at most one more. The
violation runs use one connection. `dialog`: a command without and one with a question, twelve calls in
any order; a call starts from the same state every time (`DialogInv`), so more
add nothing. `teleop`: two keys, three vectors of joints (one within the limits,
one that leaves them when it is truncated, one with tenths) and twelve contact
messages per call of `gazebo()`. Two keys let a position follow a position, with
what the first left in the flag and the counter, and any other key follow or
precede one. A contact and ten messages without one release the flag; twelve
allow the counter to pass ten as well. The input may fail at every read. Symmetry is used on connections in the safety runs only.
`world`, `world_held`: a tolerance of 7, a corrector that gains 3 in each update and a
fall that gains 2, so that the corrector has 1 more per update than the fall, as
the code's has (0.01 mm against 0.0098 mm in a step of 1 ms, with a tolerance of
half a metre), only much faster. The bound of the corrector, 24, lets a block
be carried through eight updates, to where it is too far and is dropped, which is
the second half of `CarriedUntilTol`; one whose fall is stopped is lost after three.
The theorem has no bound. Requests of 0, 1 and 2, a pose with
fractions on either side of zero, one of the two publishers, whose counter stops
at two (the code's float stops counting at 2^24). `handover`: a call takes a second
at most, the links three, and up to three calls fail, which is what a gripper's
last calls can make up for; the script is the code's, in the code's seconds.
`interactive`: the delays keep the order of the code's (10 ms, 1 s, 8 s), in ticks of
half the smallest, with callbacks up to twice the smallest delay so that the
average rises above it; two poses of the arm and three of the cube, without a
contact, with contacts that the arm's pose changes in part, and with a collision
that has no points.

`masters`, `masters_live`, `client`, `dialog`, `teleop` and their violation runs set
`CHECK_DEADLOCK FALSE`: the bounded masters stop sending and the server then waits
for requests for ever, as it should, and so do the programs at the keyboard. The
other three may not stop and are checked for it.

Fairness. `FairSpec` asks weak fairness of the server's steps as a whole. It is
what the code's scheduling gives: the server is one thread with no other blocking
point than the network, whose waits are guards, and the controller's answer.
That the controller answers every command is an assumption about the external
controller (`Rx90.cpp:67` waits without a timeout). Masters are not fair. `RxDialog`'s `FairSpec` asks
the same of the thread in `sendCommand` and of the monitor. `RxTeleop` states
safety only: its loop waits for an operator. `RxWorld` has Gazebo's update go on,
and no service called. `RxHandover`'s `FairSpec` asks it of each thread, the loop of
`main_catch`, the clock and each link: `main()` sleeps and sends, the second thread
polls or is in a call, which Gazebo answers. `RxInteractive` asks that `ros::spin()`
runs a callback that is due, that RViz starts and that time passes; the user is
not fair, and `LastDragShown` is about runs in which the drags end.

## Proofs

All invariants and action properties of the passing runs are theorems, and so are
the refinements `IsExchange` and `ClientIsMaster`.

`RxServerProofs` has what the next two modules share: the types the server's steps
keep for any requests (`ServerTypes`), the order in which a connection's requests
go through it (`InOrder`), and `AnglesSurvive`, which angles come out of a register
as they went in.

`RxMastersProofs` proves, for any set of connections, any requests that are Modbus
requests, any bounds and any contents of uninitialised words:

| Theorem | Property | Assuming |
|---|---|---|
| `TypeCorrect` | `TypeOK` | |
| `StateAgrees` | `StateMatchesCommand` | |
| `NoCommandSurvives` | `CommandOfThisSession` | |
| `DeadReckoning` | `ArmWhereServerThinks` | |
| `PincersAgree` | `PincersTrackGripper` | `OnlyClientRegisters` |
| `AnsweredInOrder` | `EachRequestAnsweredOnce` | |

`TypeOK` is inductive. The others rest on four strengthenings, each inductive
relative to `TypeOK`:

* `SessionInv`: in a session `ADDR_CLIENT` holds a word the session wrote or one
  of the two session marks. The marks are no commands (`MarksAreNoCommands`), so
  a branch of the chain can start only on a written word. It also carries the
  agreement of state and command while an action runs.
* `ArmInv`: outside an action the controller's `P`, once this run has set it (`own`),
  is the displacement (`Settled`), and so is the arm; within an action it says which
  of the two lags behind at each line of the script. Before that the displacement
  is zero, and the arm at its initial place or at the old `P`.
* `PincersInv`: `ADDR_PINZA` is one of its two values and agrees with the gripper
  when no catch or drop is half done. It needs masters that leave `ADDR_PINZA`
  alone, since the server does not refuse such a write (`serverModBUS.cpp:381`).
* `InOrder`: the replies on their way, the request in hand and the requests queued
  have consecutive numbers, in that order. A request is in hand while `pc` is
  `"analysed"`; each step moves one from the queue to the hand or from the hand to
  the replies, and the property is what is left when the three are put together.

`RxClientProofs`, for any number of programs, options and timeouts, whatever is
typed and whatever the stack holds:

| Theorem | Property | Assuming |
|---|---|---|
| `TypeCorrect` | `TypeOK` | |
| `ClientRefinesMaster` | `ClientIsMaster` | `Positions` has every vector the program may write |
| `MessageIsTrue` | `MessageTellsPincers` | |
| `MoveWithRightPincers` | `PincersSuitMove` | |
| `OverrunsFromTheStack` | | `NoOverrun`: the stack leaves no 8 to 17 in `numReg` |

The two properties hold of any `numReg` and end with the first request that writes
over `ADDR_PINZA` (`overran`). `OverrunsFromTheStack` says that there is none when the
uninitialised `numReg` is not between 8 and 17: the options themselves leave no such
value. The proofs go from the wire to the options:

* `BaseInv`: besides the types, every call of an option comes with the number of
  registers it is for (`AllFit`) and after what sees to its need of the pincers
  (`Linked`); the request under way is the one its call makes (`Asked`), the server
  classifies it so (`Analysed`), and a reply to a read of the pincers finds the
  server idle with nothing else queued (`Answered`, from `InOrder`), so that nothing
  can make it out of date.
* `PincersKnown`: `PincersInv` of the server, and until `overran` no request on its
  way writes the pincers' register (`Gentle`). `MessageIsTrue` follows.
* `Bounded`: requests sent and calls to come are at most 22 for each option chosen,
  so that the client never asks for more than the bounded masters may send.
* `Need`: a call that needs the pincers in some state is reached only with nothing
  else on its way (`Current`) and with `Outcome`, what the pincers will be once the
  server has carried out what it has confirmed, in that state; a catch that is to
  bring them there has found them in the other until it is confirmed (`Ordered`).
  A failed call ends it, which is what `clean` records, and so does an error of
  reception: the server has then turned away from the connection for good (`Lost`,
  which rests on no connection being queued twice, `Once`). When the server carries out
  the move no catch is half done, so `Outcome` is what the pincers are.

`RxDialogProofs`, for any commands with `NoPoints` and `QuestionsAwaited`:

| Theorem | Property |
|---|---|
| `DialogStaged` | `DialogInv` |
| `DialogSynchronised` | `Synchronised` |
| `DialogIsExchange` | `IsExchange`: `RxDialog` implements `RxExchange` |

`Synchronised` speaks of returned calls only. `DialogInv` says in which of six
stages a call is, down to the characters under way; each action takes one stage
to the next, and the refinement follows stage by stage.

`RxTeleopProofs`, for any of the programs, any joints, any number of keys and
messages, and with an input that fails or not:

| Theorem | Property |
|---|---|
| `TypeCorrect` | `TypeOK` |
| `BlockLifts` | `BlockCanLift` |
| `GateIsSound` | `GateSound` |
| `PlanSimulated` | `SimulatesPlan` |
| `OnlySimulated` | `OnlySimulatedPoses` |
| `SimulationFollows` | `SimulationFollowsGripper` |

* `ContactInv` bounds the counter, and the value the callback is about to write,
  at each of the callback's steps: by ten while the arm is blocked, by the messages
  without a contact once there was one. The gate and the release both follow.
* `PlanInv` ties `joints` to the plan until they are published; `TruncatedPlan` is
  the arithmetic.
* `PoseInv` ties Gazebo's target and the controller's `#POSE` to `joints` from the
  publication to the end of the move, command by command of `move_position`;
  `ThereAndBack` says that the two conversions are inverse.
* `GripInv`: unless a call of the last catch or open failed there is one state of
  the grip that the arm's gripper, each finger and the block are in already or are
  still to be told by what is left of the script, which says nothing else.

`RxWorldProofs`, for any requests, poses and publishers, and any lengths and bounds:

| Theorem | Property |
|---|---|
| `TypeCorrect` | `TypeOK` |
| `Obeyed` | `ReleaseObeyed` |
| `CarriedAsLong` | `CarriedUntilTol` |

`ReleaseObeyed` needs to know that an update that has read the flag since the
release is on its way to `Release`, and that the one that had read it before can
place the block once. `CarriedUntilTol` needs the exact places (`CarryInv`): after k
placements of a block taken at rest the corrector is what it began with, at most a
step, and k steps, the fall k times gravity, and the gap what is left of the two
and of the gripper's rise. Neither the tolerance nor a bound enters it: the theorem
says how long the block is carried as well as that it is lost then.

`RxHandoverProofs`, for any number of failed calls:

| Theorem | Property | Assuming |
|---|---|---|
| `TypeCorrect` | `TypeOK` | |
| `CommandsNeverLost` | `CommandsArrive` | `LinkTime` is shorter than the first pause |
| `GrippedBeforeDrawBack` | `HandedOver` | two calls take less than the pause after the alert |
| `HeldAgainSoon` | `BrieflyUnheld` | four calls take less than the pauses from the alert to the end |
| `BothOpenAtEnd` | `ReleasedAtEnd` | the same |

For `CommandsNeverLost` the invariant says that before the first pause only zeros
have been sent, that in it the time passed and the time left make up the pause, and
that after it every topic is linked; its one fact about the code is the first line of
the script (`FirstPlay`). The last three follow the second thread through the ten
calls it makes (`HandInv`): which are behind it (`Where`), what those have left at the
grippers (`Efforts`), and that the time the calls of a round may still take is less
than `main()` still sleeps (`Ahead`). Without that bound the thread is still in one
round when `main()` asks for the next: the assumptions on `CallTime` are what a
program that sleeps instead of waiting rests on. They are sharp for the
invariant: with calls of five seconds, 20 where 19 are slept, TLC finds it violated.

`RxInteractiveProofs`, for any delays with `DelaysAssumption`, any poses and contacts:

| Theorem | Property |
|---|---|
| `TypeCorrect` | `TypeOK` |
| `TimerRuns` | `TimerRunsWhenNeeded` |
| `RateKept` | `RateLimited` |
| `MarkersRight` | `MarkersMatch` |

`RateLimited` needs that what is left of the timer and the true age of the last
callback make up the delay, although `last_callback_time` may say that it is
younger than it is. `MarkersMatch` needs that what RViz shows is in
`g_collision_points`, which is why deleting the old list leaves nothing behind.

Model-checked only: everything about liveness (`ConfirmedIsCarriedOut`,
`ServedIsAnswered`, `CallsReturn`, `NearBlockIsTaken`, `Terminates`, `CatchArrives`,
`LastDragShown`), which needs fairness and `ENABLED` and is out of the provers'
reach.

## Not modelled

* Of the serial dialogue, every character but `.` and `?`.
* Of `rviz()`, the arithmetic of poses and MoveIt's planning: the model has the
  joints they come to. Gazebo's physics: the model has what it is sent and the
  contacts it reports.
* How many joints a failed read leaves as typed: the model lets it leave any vector.
* libmodbus 3.0 does not know functions 0x16 and 0x18 and may lose the framing of
  the stream after such a request; the model has it answer with an exception.
* The stack effects of `scanf("%s", &option)` and of `position[6]`.
* What a collision without contacts shows (`visualizing_collisions_tutorial.cpp:134`) is
  modelled, but outside `MarkersMatch`, as is an update without a solution.
* What the printout of `contact_plugin` says of the world: nothing acts on it.
* `numReg` values for which libmodbus refuses the call before sending it.
* An open port with a controller that does not answer; a port that closes later.
* Gazebo adds the efforts of its service up, which `RxHandover` has and `RxTeleop` has
  not: `RxTeleop` says what a finger was told last.
* The numbers the clients of `rx90_control`'s services accept: any request may come.
* `InteractiveRobot::setGroup`, which has no caller; the branch that runs a
  callback at once (`interactive_robot.cpp:154`), which needs a
  `schedule_request_count_` that nothing ever makes one: the model keeps the count
  and its branch, and no state reaches it. Drags that never pause for the smallest
  delay put the update off for ever; `LastDragShown` does not speak of them.
* What the inverse kinematics and the collision checker compute.
* Descriptions and models, which have no behaviour. The other tutorials are
  straight lists of calls of MoveIt's library, without a loop over events, a
  thread or a retry; a model of them would be a model of MoveIt.

## Plan

1. Done: `RxRegisters`, `RxServer`, `RxMasters`, `RxClient`; `RxExchange`,
   `RxDialog`; `RxTeleop`; `RxWorld`, `RxHandover`, `RxInteractive`; and the theorems
   above, which leave no invariant or action property of a passing run unproved.
2. The theorems about any masters restated for the client program, through
   `ClientRefinesMaster` or from the lemmas of `RxServerProofs`.
3. That the server's commands to the controller, one per `SendCommand`, are the
   calls of `RxExchange`, which `RxDialog` implements.
